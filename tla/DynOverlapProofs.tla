--------------------------- MODULE DynOverlapProofs ---------------------------
(***************************************************************************)
(* What recording an offset does to the dynamic overlap, for rings of any  *)
(* size and any offsets.                                                   *)
(***************************************************************************)
EXTENDS DynOverlap, Induction

LEMMA DivNat ==
  ASSUME NEW x \in Nat, NEW d \in Nat \ {0}
  PROVE  x \div d \in Nat
OBVIOUS

(* Where the k-th latest entry of a ring lies, and the next entry goes.    *)
LEMMA RingSlots ==
  ASSUME NEW n \in Nat \ {0}, NEW x \in 0 .. n - 1
  PROVE  /\ \A k \in 1 .. n : (x - k) % n = IF k <= x THEN x - k ELSE x - k + n
         /\ (x + 1) % n = IF x + 1 = n THEN 0 ELSE x + 1
<1>1. ASSUME NEW k \in 1 .. n
      PROVE  (x - k) % n = IF k <= x THEN x - k ELSE x - k + n
  <2> DEFINE z == IF k <= x THEN x - k ELSE x - k + n
             y == x - k
  <2>1. y \in Int /\ z \in 0 .. n - 1 /\ (y = z \/ y = z - n)
    OBVIOUS
  <2> HIDE DEF y, z
  <2>2. y % n = z
    BY <2>1, RemainderNear
  <2> QED BY <2>2 DEF y, z
<1>2. (x + 1) % n = IF x + 1 = n THEN 0 ELSE x + 1
  <2> DEFINE z == IF x + 1 = n THEN 0 ELSE x + 1
             y == x + 1
  <2>1. y \in Int /\ z \in 0 .. n - 1 /\ (y = z \/ y = z + n)
    OBVIOUS
  <2> HIDE DEF y, z
  <2>2. y % n = z
    BY <2>1, RemainderNear
  <2> QED BY <2>2 DEF y, z
<1> QED BY <1>1, <1>2

LEMMA AddRing ==
  ASSUME NEW r \in Ring, NEW offset \in Int
  PROVE  Add(r, offset) \in Ring
<1>1. RingSize \in Nat \ {0}
  BY DynOverlapAssumption
<1>2. (r.index + 1) % RingSize \in 0 .. RingSize - 1
  BY <1>1 DEF Ring
<1>3. Smaller(r.count + 1, RingSize) \in 0 .. RingSize
  BY <1>1 DEF Ring, Smaller
<1>4. [r.offsets EXCEPT ![r.index] = offset] \in [0 .. RingSize - 1 -> Int]
  BY DEF Ring
<1> QED BY <1>2, <1>3, <1>4 DEF Add, Ring

LEMMA EmptyRingIsRing == EmptyRing \in Ring
<1>1. RingSize \in Nat \ {0}
  BY DynOverlapAssumption
<1> QED BY <1>1 DEF EmptyRing, Ring

(* max_abs is none of the offsets' magnitudes exceeded.                    *)
LEMMA MaxAbsCovers ==
  ASSUME NEW r \in Ring
  PROVE  MaxAbs(r) \in Nat /\ \A i \in Used(r) : Abs(r.offsets[i]) <= MaxAbs(r)
<1> DEFINE f == [i \in 0 .. RingSize - 1 |-> Abs(r.offsets[i])]
           S == {0} \cup {Abs(r.offsets[i]) : i \in Used(r)}
<1>1. RingSize \in Nat /\ r.count \in 0 .. RingSize
  BY DynOverlapAssumption DEF Ring
<1>2. \A i \in Used(r) : i \in 0 .. RingSize - 1 /\ Abs(r.offsets[i]) \in Nat
  BY <1>1 DEF Ring, Used, Abs
<1>3. PICK bound \in Nat : \A i \in 0 .. r.count - 1 : f[i] <= bound
  <2>1. \A i \in 0 .. r.count - 1 : f[i] \in Int
    BY <1>1, <1>2 DEF Used
  <2>2. r.count \in Nat
    BY <1>1
  <2> HIDE DEF f
  <2> QED BY <2>1, <2>2, ValuesBounded
<1>4. S \in SUBSET Int /\ S # {} /\ bound \in Int /\ \A x \in S : x <= bound
  <2>1. \A i \in Used(r) : Abs(r.offsets[i]) = f[i] /\ f[i] <= bound
    BY <1>2, <1>3 DEF Used
  <2> HIDE DEF f
  <2> QED BY <1>2, <2>1
<1>5. \E m \in S : \A x \in S : x <= m
  <2> HIDE DEF S
  <2> QED BY <1>4, GreatestOfBounded
<1>6. Max(S) \in S /\ \A x \in S : Max(S) >= x
  <2> HIDE DEF S
  <2>1. \E m \in S : \A x \in S : m >= x
    BY <1>4, <1>5
  <2> QED BY <2>1 DEF Max
<1>7. MaxAbs(r) = Max(S)
  BY DEF MaxAbs
<1>8. \A x \in S : x \in Nat
  BY <1>2
<1>9. \A i \in Used(r) : Abs(r.offsets[i]) \in S
  OBVIOUS
<1> HIDE DEF S
<1> QED BY <1>4, <1>6, <1>7, <1>8, <1>9

-----------------------------------------------------------------------------
(* Sums *)

SumsOf(sum, n, term) ==
  sum = [k \in 0 .. n |-> IF k = 0 THEN 0 ELSE sum[k - 1] + term[k - 1]]

LEMMA SumExists ==
  ASSUME NEW n \in Nat, NEW term, \A i \in 0 .. n - 1 : term[i] \in Int
  PROVE  \E sum : SumsOf(sum, n, term)
<1> DEFINE I == Int
           step == [p \in I \X Nat |-> IF p[2] < n THEN p[1] + term[p[2]] ELSE 0]
<1>1. 0 \in I /\ step \in Steps(I)
  BY DEF Steps
<1>2. PICK f \in [Nat -> I] : f[0] = 0 /\ \A k \in Nat : f[k + 1] = step[<<f[k], k>>]
  <2> HIDE DEF I, step
  <2> QED BY <1>1, Iteration
<1> DEFINE g == [k \in 0 .. n |-> f[k]]
<1>3. ASSUME NEW k \in 1 .. n
      PROVE  f[k] = f[k - 1] + term[k - 1]
  <2>1. k - 1 \in Nat /\ (k - 1) + 1 = k /\ k - 1 < n
    OBVIOUS
  <2>2. f[k] = step[<<f[k - 1], k - 1>>]
    BY <1>2, <2>1
  <2> QED BY <1>2, <2>1, <2>2
<1>4. ASSUME NEW k \in 0 .. n
      PROVE  g[k] = IF k = 0 THEN 0 ELSE g[k - 1] + term[k - 1]
  <2>1. CASE k = 0
    BY <1>2, <2>1
  <2>2. CASE k \in 1 .. n
    <3>1. g[k] = f[k] /\ g[k - 1] = f[k - 1]
      BY <2>2
    <3> HIDE DEF g
    <3> QED BY <1>3, <2>2, <3>1
  <2> QED BY <2>1, <2>2
<1>5. g = [k \in 0 .. n |-> g[k]]
  OBVIOUS
<1> HIDE DEF g
<1>6. SumsOf(g, n, term)
  BY <1>4, <1>5 DEF SumsOf
<1> QED BY <1>6

LEMMA SumTyped ==
  ASSUME NEW n \in Nat, NEW term, NEW S \in {Int, Nat}, \A i \in 0 .. n - 1 : term[i] \in S,
         NEW sum, SumsOf(sum, n, term)
  PROVE  sum[n] \in S
<1> DEFINE T == {k \in Nat : k <= n => sum[k] \in S}
<1>1. \A k \in 0 .. n : sum[k] = IF k = 0 THEN 0 ELSE sum[k - 1] + term[k - 1]
  BY Zenon DEF SumsOf
<1>2. 0 \in T
  BY <1>1
<1>3. ASSUME NEW k \in Nat, k \in T PROVE k + 1 \in T
  <2> SUFFICES ASSUME k + 1 <= n PROVE sum[k + 1] \in S
    OBVIOUS
  <2>1. sum[k] \in S /\ k + 1 \in 0 .. n /\ k + 1 # 0 /\ (k + 1) - 1 = k /\ k \in 0 .. n - 1
    BY <1>3
  <2>2. sum[k + 1] = sum[k] + term[k]
    BY <1>1, <2>1
  <2> QED BY <2>1, <2>2
<1>4. n \in T
  <2> HIDE DEF T
  <2> QED BY <1>2, <1>3, InductionOnSet
<1> QED BY <1>4

LEMMA TotalInt ==
  ASSUME NEW r \in Ring
  PROVE  Total(r) \in Int
<1>1. r.count \in Nat /\ \A i \in 0 .. r.count - 1 : r.offsets[i] \in Int
  BY DynOverlapAssumption DEF Ring
<1> DEFINE sum == CHOOSE sum : SumsOf(sum, r.count, r.offsets)
<1>2. SumsOf(sum, r.count, r.offsets)
  BY <1>1, SumExists
<1>3. Total(r) = sum[r.count]
  BY DEF Total, SumsOf
<1> HIDE DEF sum
<1> QED BY <1>1, <1>2, <1>3, SumTyped

LEMMA MeanInt ==
  ASSUME NEW r \in Ring
  PROVE  Mean(r) \in Int
<1>1. Total(r) \in Int /\ r.count \in Nat
  BY TotalInt, DynOverlapAssumption DEF Ring
<1>2. CASE r.count = 0
  BY <1>2 DEF Mean
<1>3. CASE r.count # 0 /\ Total(r) < 0
  <2>1. (-Total(r)) \div r.count \in Nat
    BY <1>1, <1>3, DivNat
  <2> QED BY <1>3, <2>1 DEF Mean
<1>4. CASE r.count # 0 /\ Total(r) >= 0
  <2>1. Total(r) \div r.count \in Nat
    BY <1>1, <1>4, DivNat
  <2> QED BY <1>1, <1>4, <2>1 DEF Mean
<1> QED BY <1>1, <1>2, <1>3, <1>4

LEMMA TotalSquaresNat ==
  ASSUME NEW r \in Ring
  PROVE  TotalSquares(r) \in Nat
<1> DEFINE n == r.count
           square == [i \in 0 .. n - 1 |->
                        (r.offsets[i] - Mean(r)) * (r.offsets[i] - Mean(r))]
           Equation(sum) ==
             sum = [k \in 0 .. n |->
                      IF k = 0 THEN 0
                      ELSE sum[k - 1] + (r.offsets[k - 1] - Mean(r)) * (r.offsets[k - 1] - Mean(r))]
           sum == CHOOSE sum : Equation(sum)
<1>1. n \in Nat /\ \A i \in 0 .. n - 1 : r.offsets[i] \in Int
  BY DynOverlapAssumption DEF Ring
<1>2. \A i \in 0 .. n - 1 : square[i] \in Nat
  <2> SUFFICES ASSUME NEW i \in 0 .. n - 1 PROVE square[i] \in Nat
    OBVIOUS
  <2> DEFINE x == r.offsets[i] - Mean(r)
  <2>1. x \in Int
    BY <1>1, MeanInt
  <2>2. square[i] = x * x
    OBVIOUS
  <2> HIDE DEF x, square
  <2>3. x * x \in Nat
    BY <2>1
  <2> QED BY <2>2, <2>3
<1>3. \A k \in 0 .. n : k = 0 \/ square[k - 1]
        = (r.offsets[k - 1] - Mean(r)) * (r.offsets[k - 1] - Mean(r))
  BY <1>1
<1>4. ASSUME NEW f PROVE SumsOf(f, n, square) <=> Equation(f)
  <2>1. [k \in 0 .. n |-> IF k = 0 THEN 0 ELSE f[k - 1] + square[k - 1]]
        = [k \in 0 .. n |->
             IF k = 0 THEN 0
             ELSE f[k - 1] + (r.offsets[k - 1] - Mean(r)) * (r.offsets[k - 1] - Mean(r))]
    <3> HIDE DEF square, n
    <3> QED BY <1>3
  <2> HIDE DEF square, n
  <2> QED BY <2>1 DEF SumsOf
<1>5. \E f : Equation(f)
  <2>1. \E f : SumsOf(f, n, square)
    <3> HIDE DEF square, n
    <3> QED BY <1>1, <1>2, SumExists
  <2> HIDE DEF Equation, square
  <2> QED BY <1>4, <2>1
<1>6. SumsOf(sum, n, square)
  <2>1. Equation(sum)
    <3> HIDE DEF Equation
    <3> QED BY <1>5
  <2> HIDE DEF sum, Equation
  <2> QED BY <1>4, <2>1
<1>7. TotalSquares(r) = sum[n]
  BY DEF TotalSquares
<1> HIDE DEF sum, square, n
<1>8. sum[n] \in Nat
  BY <1>1, <1>2, <1>6, SumTyped
<1> QED BY <1>7, <1>8

-----------------------------------------------------------------------------
(* The margin and the overlap *)

LEMMA SquareRootNat ==
  ASSUME NEW n \in Nat
  PROVE  SquareRoot(n) \in Nat
<1> DEFINE S == {k \in Nat : n < (k + 1) * (k + 1)}
<1>1. n \in S
  <2>1. n < (n + 1) * (n + 1)
    OBVIOUS
  <2> QED BY <2>1
<1>2. PICK k \in S : \A j \in S : k <= j
  <2> HIDE DEF S
  <2>1. S \in SUBSET Nat
    BY DEF S
  <2> QED BY <1>1, <2>1, LeastNatural
<1>3. k * k <= n
  <2>1. CASE k = 0
    BY <2>1
  <2>2. CASE k # 0
    <3>1. k - 1 \in Nat /\ k - 1 \notin S
      BY <1>2, <2>2
    <3>2. ~(n < ((k - 1) + 1) * ((k - 1) + 1)) /\ (k - 1) + 1 = k
      BY <3>1
    <3> QED BY <3>2
  <2> QED BY <2>1, <2>2
<1>4. k \in 0 .. n
  BY <1>1, <1>2
<1>5. \E j \in 0 .. n : j * j <= n /\ n < (j + 1) * (j + 1)
  BY <1>2, <1>3, <1>4
<1>6. SquareRoot(n) \in 0 .. n
  BY <1>5 DEF SquareRoot
<1> QED BY <1>6

LEMMA TwiceDeviationNat ==
  ASSUME NEW r \in Ring
  PROVE  TwiceDeviation(r) \in Nat
<1>1. r.count \in Nat
  BY DynOverlapAssumption DEF Ring
<1>2. CASE r.count < 2
  BY <1>2 DEF TwiceDeviation
<1>3. CASE ~(r.count < 2)
  <2>1. r.count - 1 \in Nat \ {0} /\ 4 * TotalSquares(r) \in Nat
    BY <1>1, <1>3, TotalSquaresNat
  <2>2. (4 * TotalSquares(r)) \div (r.count - 1) \in Nat
    BY <2>1, DivNat
  <2>3. SquareRoot((4 * TotalSquares(r)) \div (r.count - 1)) \in Nat
    BY <2>2, SquareRootNat
  <2> QED BY <1>3, <2>3 DEF TwiceDeviation
<1> QED BY <1>2, <1>3

LEMMA MaxWordsOverlapNat == MaxWordsOverlap \in Nat /\ MinWordsOverlap \in 1 .. MaxWordsOverlap
BY DynOverlapAssumption DEF MaxWordsOverlap

(* A recalibrated overlap keeps its limits and covers the offsets that     *)
(* both rings hold (recalibrate).                                          *)
THEOREM OverlapOfCovers ==
  ASSUME NEW r \in Ring, NEW s \in Ring
  PROVE  /\ OverlapOf(r, s) \in MinWordsOverlap .. MaxWordsOverlap
         /\ \A i \in Used(r) :
              OverlapOf(r, s) >= Smaller(MaxWordsOverlap, Abs(r.offsets[i]) + MinWordsOverlap)
         /\ \A i \in Used(s) :
              OverlapOf(r, s) >= Smaller(MaxWordsOverlap, Abs(s.offsets[i]) + MinWordsOverlap)
<1> DEFINE jitter == Larger(MaxAbs(r), MaxAbs(s))
           margin == Larger(TwiceDeviation(r), TwiceDeviation(s))
<1>1. /\ jitter \in Nat /\ jitter >= MaxAbs(r) /\ jitter >= MaxAbs(s)
      /\ MaxAbs(r) \in Nat /\ MaxAbs(s) \in Nat
  BY MaxAbsCovers DEF Larger
<1>2. margin \in Nat
  BY TwiceDeviationNat DEF Larger
<1>3. OverlapOf(r, s)
        = Larger(Smaller(jitter + margin + MinWordsOverlap, MaxWordsOverlap), MinWordsOverlap)
  BY DEF OverlapOf
<1> HIDE DEF jitter, margin
<1>4. OverlapOf(r, s) \in MinWordsOverlap .. MaxWordsOverlap
  BY <1>1, <1>2, <1>3, MaxWordsOverlapNat DEF Larger, Smaller
<1>5. ASSUME NEW x \in Nat, x <= jitter
      PROVE  OverlapOf(r, s) >= Smaller(MaxWordsOverlap, x + MinWordsOverlap)
  BY <1>1, <1>2, <1>3, <1>5, MaxWordsOverlapNat DEF Larger, Smaller
<1>6. ASSUME NEW q \in {r, s}, NEW i \in Used(q)
      PROVE  OverlapOf(r, s) >= Smaller(MaxWordsOverlap, Abs(q.offsets[i]) + MinWordsOverlap)
  <2>1. Abs(q.offsets[i]) <= MaxAbs(q) /\ MaxAbs(q) \in Nat /\ MaxAbs(q) <= jitter
    BY <1>1, MaxAbsCovers
  <2>2. Abs(q.offsets[i]) \in Nat
    <3>1. q \in Ring /\ RingSize \in Nat
      BY DynOverlapAssumption
    <3>2. q.offsets[i] \in Int
      <4>1. /\ q.offsets \in [0 .. RingSize - 1 -> Int]
            /\ q.count \in 0 .. RingSize /\ i \in 0 .. q.count - 1
        BY <3>1 DEF Ring, Used
      <4>2. i \in 0 .. RingSize - 1
        BY <3>1, <4>1
      <4> QED BY <4>1, <4>2
    <3> QED BY <3>2 DEF Abs
  <2> QED BY <1>1, <1>5, <2>1, <2>2
<1> QED BY <1>4, <1>6

(* Recording an offset keeps every field in its range.                     *)
LEMMA RecordJitterDynamic ==
  ASSUME NEW d \in Dynamic, NEW offset \in Int, NEW stage \in {1, 2}
  PROVE  RecordJitter(d, offset, stage) \in Dynamic
<1> DEFINE s1 == IF stage = 1 THEN Add(d.stage1, offset) ELSE d.stage1
           s2 == IF stage = 2 THEN Add(d.stage2, offset) ELSE d.stage2
           o  == OverlapOf(s1, s2)
<1>1. s1 \in Ring /\ s2 \in Ring
  BY AddRing DEF Dynamic
<1>2. o \in MinWordsOverlap .. MaxWordsOverlap
  <2> HIDE DEF s1, s2
  <2> QED BY <1>1, OverlapOfCovers
<1>3. o \in Nat /\ Larger(o, MinWordsSearch) \in Nat /\ Interval \in Nat \ {0}
  <2> HIDE DEF o
  <2> QED BY <1>2, DynOverlapAssumption, MaxWordsOverlapNat DEF Larger
<1>4. CASE d.measurements + 1 >= Interval
  <2>1. RecordJitter(d, offset, stage)
          = [overlap |-> o, search |-> Larger(o, MinWordsSearch),
             stage1 |-> s1, stage2 |-> s2, measurements |-> 0]
    BY <1>4 DEF RecordJitter, Recalibrate, Dynamic
  <2>2. 0 \in 0 .. Interval - 1
    BY <1>3
  <2> HIDE DEF s1, s2, o
  <2> QED BY <1>1, <1>3, <2>1, <2>2 DEF Dynamic
<1>5. CASE ~(d.measurements + 1 >= Interval)
  <2>1. RecordJitter(d, offset, stage)
          = [d EXCEPT !.stage1 = s1, !.stage2 = s2, !.measurements = d.measurements + 1]
    BY <1>5 DEF RecordJitter, Dynamic
  <2>2. d.measurements + 1 \in 0 .. Interval - 1
    BY <1>3, <1>5 DEF Dynamic
  <2> HIDE DEF s1, s2, o
  <2> QED BY <1>1, <1>3, <2>1, <2>2 DEF Dynamic
<1> QED BY <1>4, <1>5

(* What recording an offset of the first stage changes.                    *)
LEMMA RecordJitterFields ==
  ASSUME NEW d \in Dynamic, NEW offset \in Int
  PROVE  LET e == RecordJitter(d, offset, 1) IN
           /\ e.stage1 = Add(d.stage1, offset) /\ e.stage2 = d.stage2
           /\ d.measurements + 1 < Interval =>
                /\ e.measurements = d.measurements + 1
                /\ e.overlap = d.overlap /\ e.search = d.search
           /\ d.measurements + 1 >= Interval =>
                /\ e.measurements = 0
                /\ e.overlap = OverlapOf(e.stage1, e.stage2)
                /\ e.search = Larger(e.overlap, MinWordsSearch)
<1>1. d.measurements \in Nat /\ Interval \in Nat
  BY DynOverlapAssumption DEF Dynamic
<1>2. CASE d.measurements + 1 >= Interval
  BY <1>1, <1>2 DEF RecordJitter, Recalibrate, Dynamic
<1>3. CASE ~(d.measurements + 1 >= Interval)
  BY <1>1, <1>3 DEF RecordJitter, Dynamic
<1> QED BY <1>1, <1>2, <1>3
=============================================================================
