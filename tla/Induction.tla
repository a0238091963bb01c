------------------------------ MODULE Induction ------------------------------
(***************************************************************************)
(* Induction over the natural numbers with sets in the place of            *)
(* predicates, so that a first-order prover can use it, and what follows   *)
(* from it: extremes of sets of numbers, and functions defined along an    *)
(* index.  With them what the proofs need to know about remainders.        *)
(***************************************************************************)
EXTENDS Integers, WellFoundedInduction, TLAPS

LEMMA LeastNatural ==
  ASSUME NEW S \in SUBSET Nat, S # {}
  PROVE  \E n \in S : \A m \in S : n <= m
<1> DEFINE Less == {p \in Nat \X Nat : p[1] < p[2]}
<1>1. IsWellFoundedOn(Less, Nat)
  BY NatLessThanWellFounded DEF OpToRel
<1>2. PICK n \in S : \A m \in S : <<m, n>> \notin Less
  <2> HIDE DEF Less
  <2> QED BY <1>1, WFMin
<1>3. \A m \in S : ~(m < n)
  BY <1>2
<1> QED BY <1>3

LEMMA InductionOnSet ==
  ASSUME NEW S, 0 \in S, \A n \in Nat : n \in S => n + 1 \in S
  PROVE  \A n \in Nat : n \in S
<1> SUFFICES ASSUME Nat \ S # {} PROVE FALSE
  OBVIOUS
<1>1. PICK n \in Nat \ S : \A m \in Nat \ S : n <= m
  BY LeastNatural
<1> QED BY <1>1

LEMMA GreatestOfBounded ==
  ASSUME NEW S \in SUBSET Int, S # {}, NEW bound \in Int, \A x \in S : x <= bound
  PROVE  \E m \in S : \A x \in S : x <= m
<1> DEFINE T == {n \in Nat : bound - n \in S}
<1>1. T # {}
  <2>1. PICK x \in S : TRUE
    OBVIOUS
  <2>2. bound - x \in Nat /\ bound - (bound - x) = x
    BY <2>1
  <2> QED BY <2>2
<1>2. PICK n \in T : \A k \in T : n <= k
  BY <1>1, LeastNatural
<1>3. ASSUME NEW x \in S
      PROVE  x <= bound - n
  <2>1. bound - x \in Nat /\ bound - (bound - x) = x
    OBVIOUS
  <2>2. bound - x \in T
    BY <2>1
  <2>3. n <= bound - x /\ n \in Nat /\ x \in Int
    BY <1>2, <2>2
  <2> HIDE DEF T
  <2> QED BY <2>3
<1> QED BY <1>2, <1>3

(* The values of a function on 0 .. n - 1 have a bound.                    *)
LEMMA ValuesBounded ==
  ASSUME NEW n \in Nat, NEW f, \A i \in 0 .. n - 1 : f[i] \in Int
  PROVE  \E bound \in Nat : \A i \in 0 .. n - 1 : f[i] <= bound
<1> DEFINE S == {k \in Nat : k <= n => \E bound \in Nat : \A i \in 0 .. k - 1 : f[i] <= bound}
<1>1. 0 \in S
  OBVIOUS
<1>2. ASSUME NEW k \in Nat, k \in S
      PROVE  k + 1 \in S
  <2> SUFFICES ASSUME k + 1 <= n
               PROVE  \E bound \in Nat : \A i \in 0 .. k : f[i] <= bound
    OBVIOUS
  <2>0. k \in 0 .. n - 1 /\ f[k] \in Int
    OBVIOUS
  <2>1. PICK bound \in Nat : \A i \in 0 .. k - 1 : f[i] <= bound
    BY <1>2
  <2>2. CASE f[k] <= bound
    <3>1. \A i \in 0 .. k : i = k \/ i \in 0 .. k - 1
      OBVIOUS
    <3> QED BY <2>1, <2>2, <3>1
  <2>3. CASE f[k] > bound
    <3>1. f[k] \in Nat
      BY <2>3
    <3>2. ASSUME NEW i \in 0 .. k
          PROVE  f[i] <= f[k]
      <4>1. CASE i = k
        BY <3>1, <4>1
      <4>2. CASE i \in 0 .. k - 1
        <5>1. f[i] \in Int /\ f[i] <= bound
          BY <2>1, <4>2
        <5> QED BY <2>3, <3>1, <5>1
      <4> QED BY <4>1, <4>2
    <3> QED BY <3>1, <3>2
  <2> QED BY <2>0, <2>2, <2>3
<1>3. n \in S
  <2> HIDE DEF S
  <2> QED BY <1>1, <1>2, InductionOnSet
<1> QED BY <1>3

(* what takes the n-th value of an iteration in S to the next              *)
Steps(S) == [S \X Nat -> S]

(* What is defined by a first value and a step exists.                     *)
LEMMA Iteration ==
  ASSUME NEW S, NEW c \in S, NEW step \in Steps(S)
  PROVE  \E f \in [Nat -> S] : f[0] = c /\ \A n \in Nat : f[n + 1] = step[<<f[n], n>>]
<1> DEFINE IsUpTo(f, n) == /\ f \in [0 .. n -> S] /\ f[0] = c
                           /\ \A k \in 0 .. n - 1 : f[k + 1] = step[<<f[k], k>>]
           Defined == {n \in Nat : \E f : IsUpTo(f, n)}
<1>0. step \in [S \X Nat -> S]
  BY DEF Steps
<1>1. 0 \in Defined
  <2>1. IsUpTo([k \in 0 .. 0 |-> c], 0)
    OBVIOUS
  <2> QED BY <2>1
<1>2. ASSUME NEW n \in Nat, n \in Defined
      PROVE  n + 1 \in Defined
  <2>1. PICK f : IsUpTo(f, n)
    BY <1>2
  <2> DEFINE g == [k \in 0 .. n + 1 |-> IF k = n + 1 THEN step[<<f[n], n>>] ELSE f[k]]
  <2>2. f[n] \in S /\ step[<<f[n], n>>] \in S
    BY <1>0, <2>1
  <2>3. /\ f \in [0 .. n -> S] /\ f[0] = c
        /\ \A k \in 0 .. n - 1 : f[k + 1] = step[<<f[k], k>>]
    BY <2>1
  <2>4. g \in [0 .. n + 1 -> S] /\ g[0] = c
    BY <2>2, <2>3
  <2>5. /\ \A k \in 0 .. n : g[k] = f[k]
        /\ g[n + 1] = step[<<f[n], n>>]
    OBVIOUS
  <2> HIDE DEF g
  <2>6. ASSUME NEW k \in 0 .. n
        PROVE  g[k + 1] = step[<<g[k], k>>]
    <3>1. CASE k = n
      BY <2>5, <3>1
    <3>2. CASE k \in 0 .. n - 1
      <4>1. k + 1 \in 0 .. n
        BY <3>2
      <4> QED BY <2>3, <2>5, <3>2, <4>1
    <3> QED BY <3>1, <3>2
  <2>7. n + 1 - 1 = n
    OBVIOUS
  <2>8. IsUpTo(g, n + 1)
    BY <2>4, <2>6, <2>7
  <2> QED BY <2>8
<1>3. \A n \in Nat : n \in Defined
  <2> HIDE DEF Defined
  <2> QED BY <1>1, <1>2, InductionOnSet
<1> DEFINE Upto == [n \in Nat |-> CHOOSE f : IsUpTo(f, n)]
<1>4. \A n \in Nat : IsUpTo(Upto[n], n)
  <2> SUFFICES ASSUME NEW n \in Nat PROVE IsUpTo(Upto[n], n)
    OBVIOUS
  <2>1. \E f : IsUpTo(f, n)
    BY <1>3
  <2>2. Upto[n] = CHOOSE f : IsUpTo(f, n)
    OBVIOUS
  <2> HIDE DEF IsUpTo, Upto
  <2> QED BY <2>1, <2>2
<1>5. \A n \in Nat : Upto[n + 1][n] = Upto[n][n]
  <2> SUFFICES ASSUME NEW n \in Nat PROVE Upto[n + 1][n] = Upto[n][n]
    OBVIOUS
  <2> DEFINE g == Upto[n + 1]
             h == Upto[n]
             Same == {k \in Nat : k <= n => g[k] = h[k]}
  <2>1. IsUpTo(g, n + 1) /\ IsUpTo(h, n)
    <3> HIDE DEF IsUpTo, Upto
    <3> QED BY <1>4
  <2> HIDE DEF g, h
  <2>2. 0 \in Same
    BY <2>1
  <2>3. ASSUME NEW k \in Nat, k \in Same PROVE k + 1 \in Same
    <3> SUFFICES ASSUME k + 1 <= n PROVE g[k + 1] = h[k + 1]
      OBVIOUS
    <3>1. g[k] = h[k]
      BY <2>3
    <3>2. g[k + 1] = step[<<g[k], k>>] /\ h[k + 1] = step[<<h[k], k>>]
      BY <2>1
    <3> QED BY <3>1, <3>2
  <2>4. n \in Same
    <3> HIDE DEF Same
    <3> QED BY <2>2, <2>3, InductionOnSet
  <2> QED BY <2>4 DEF g, h
<1> DEFINE F == [n \in Nat |-> Upto[n][n]]
<1> HIDE DEF Upto
<1>6. F \in [Nat -> S] /\ F[0] = c
  BY <1>4
<1>7. ASSUME NEW n \in Nat PROVE F[n + 1] = step[<<F[n], n>>]
  <2>1. Upto[n + 1][n + 1] = step[<<Upto[n + 1][n], n>>]
    BY <1>4
  <2> QED BY <1>5, <2>1
<1> QED BY <1>6, <1>7

(* The same for a function on 0 .. n.                                      *)
StepsTo(n, S) == [S \X (1 .. n) -> S]

LEMMA RecursionExists ==
  ASSUME NEW n \in Nat, NEW S, NEW c \in S, NEW step \in StepsTo(n, S)
  PROVE  \E f \in [0 .. n -> S] : f[0] = c /\ \A k \in 1 .. n : f[k] = step[<<f[k - 1], k>>]
<1>0. step \in [S \X (1 .. n) -> S]
  BY DEF StepsTo
<1> DEFINE next == [p \in S \X Nat |-> IF p[2] < n THEN step[<<p[1], p[2] + 1>>] ELSE c]
<1>1. next \in Steps(S)
  <2>1. ASSUME NEW p \in S \X Nat
        PROVE  (IF p[2] < n THEN step[<<p[1], p[2] + 1>>] ELSE c) \in S
    <3>1. CASE p[2] < n
      <4>1. <<p[1], p[2] + 1>> \in S \X (1 .. n)
        BY <3>1
      <4> QED BY <1>0, <3>1, <4>1
    <3> QED BY <3>1
  <2> QED BY <2>1 DEF Steps
<1>2. \A x \in S, k \in Nat : next[<<x, k>>] = IF k < n THEN step[<<x, k + 1>>] ELSE c
  OBVIOUS
<1> HIDE DEF next
<1>3. PICK f \in [Nat -> S] : f[0] = c /\ \A k \in Nat : f[k + 1] = next[<<f[k], k>>]
  BY <1>1, Iteration
<1>4. ASSUME NEW k \in 1 .. n
      PROVE  f[k] = step[<<f[k - 1], k>>]
  <2>1. k - 1 \in Nat /\ (k - 1) + 1 = k /\ k - 1 < n
    OBVIOUS
  <2>2. f[k] = next[<<f[k - 1], k - 1>>] /\ f[k - 1] \in S
    BY <1>3, <2>1
  <2> QED BY <1>2, <2>1, <2>2
<1> DEFINE g == [k \in 0 .. n |-> f[k]]
<1>5. g \in [0 .. n -> S] /\ \A k \in 0 .. n : g[k] = f[k]
  BY <1>3
<1> HIDE DEF g
<1>6. ASSUME NEW k \in 1 .. n
      PROVE  g[k] = step[<<g[k - 1], k>>]
  <2>1. k \in 0 .. n /\ k - 1 \in 0 .. n
    OBVIOUS
  <2> QED BY <1>4, <1>5, <2>1
<1>7. g[0] = c
  BY <1>3, <1>5
<1> QED BY <1>5, <1>6, <1>7

-----------------------------------------------------------------------------
(* Remainders *)

LEMMA DivMod ==
  ASSUME NEW n \in Nat \ {0}, NEW y \in Int
  PROVE  y \div n \in Int /\ y % n \in 0 .. n - 1 /\ y = n * (y \div n) + (y % n)
OBVIOUS

LEMMA RemainderUnique ==
  ASSUME NEW n \in Nat \ {0}, NEW q \in Int, NEW r \in 0 .. n - 1, NEW z \in 0 .. n - 1,
         n * q + r = z
  PROVE  r = z
<1>1. q = 0 \/ q >= 1 \/ q <= -1
  OBVIOUS
<1>2. ASSUME q >= 1 PROVE n * q >= n
  <2>1. PICK k \in Nat : q = 1 + k
    <3>1. q - 1 \in Nat /\ q = 1 + (q - 1)
      BY <1>2
    <3> QED BY <3>1
  <2>2. n * q = n + n * k /\ n * k \in Nat
    BY <2>1
  <2> QED BY <2>2
<1>3. ASSUME q <= -1 PROVE n * q <= -n
  <2>1. PICK k \in Nat : q = -1 - k
    <3>1. -1 - q \in Nat /\ q = -1 - (-1 - q)
      BY <1>3
    <3> QED BY <3>1
  <2>2. n * q = -n - n * k /\ n * k \in Nat
    BY <2>1
  <2> QED BY <2>2
<1>4. CASE q = 0
  BY <1>4
<1>5. n * q \in Int
  OBVIOUS
<1> QED BY <1>1, <1>2, <1>3, <1>4, <1>5

(* The remainder of a number no further than one round from its range.     *)
LEMMA RemainderNear ==
  ASSUME NEW n \in Nat \ {0}, NEW y \in Int, NEW z \in 0 .. n - 1,
         y = z \/ y = z - n \/ y = z + n
  PROVE  y % n = z
<1> DEFINE q == y \div n
           r == y % n
<1>1. q \in Int /\ r \in 0 .. n - 1 /\ y = n * q + r
  BY DivMod
<1> HIDE DEF q, r
<1>2. CASE y = z
  BY <1>1, <1>2, RemainderUnique DEF r
<1>3. CASE y = z - n
  <2>1. n * (q + 1) + r = z /\ q + 1 \in Int
    BY <1>1, <1>3
  <2> QED BY <1>1, <2>1, RemainderUnique DEF r
<1>4. CASE y = z + n
  <2>1. n * (q - 1) + r = z /\ q - 1 \in Int
    BY <1>1, <1>4
  <2> QED BY <1>1, <2>1, RemainderUnique DEF r
<1> QED BY <1>2, <1>3, <1>4
=============================================================================
