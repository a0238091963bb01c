-------------------------- MODULE VerificationProofs --------------------------
(***************************************************************************)
(* Verification for batches of any length, discs, weak positions, slips    *)
(* and jitter tolerance: what the comparison of two reads finds, and that  *)
(* a majority of reads that have not slipped gives the disc's samples.     *)
(***************************************************************************)
EXTENDS Verification, FiniteSetTheorems, Induction

LEMMA LeastIsUnique ==
  ASSUME NEW S \in SUBSET Int, NEW m \in S, \A x \in S : m <= x
  PROVE  Least(S) = m
<1>1. Least(S) \in S /\ \A y \in S : Least(S) <= y
  BY DEF Least
<1>2. Least(S) \in Int /\ m \in Int /\ Least(S) <= m /\ m <= Least(S)
  BY <1>1
<1> QED
  BY <1>2

LEMMA LeastOfOne ==
  ASSUME NEW m \in Int
  PROVE  Least({m}) = m
BY DEF Least

LEMMA CleanAt ==
  ASSUME NEW p \in Batch
  PROVE  Clean[p] = disc[p]
<1>1. p \in Int /\ p >= 1 /\ p + 0 = p
  BY VerificationAssumption DEF Batch
<1>2. Clean[p] = disc[IF p >= 1 THEN p + 0 ELSE p]
  BY DEF Clean, Ahead
<1> QED
  BY <1>1, <1>2

LEMMA AheadAt ==
  ASSUME NEW k \in Int, NEW d \in Int, NEW p \in Batch
  PROVE  Ahead(k, d)[p] = IF p >= k THEN disc[p + d] ELSE disc[p]
BY DEF Ahead

(* Two places around the batch, no further apart than reach, with n        *)
(* samples from each.                                                      *)
Nearby(p, q, n, reach) ==
  /\ p \in Int /\ q \in Int /\ n \in Nat \ {0} /\ reach \in Int
  /\ p # q /\ p - q <= reach /\ q - p <= reach
  /\ 1 - BatchWords <= p /\ 1 - BatchWords <= q
  /\ p + n - 1 <= 2 * BatchWords /\ q + n - 1 <= 2 * BatchWords

(* Where runs do not recur, they hold different samples.                   *)
LEMMA RunsApart ==
  ASSUME NEW n, NEW reach, NEW p, NEW q, RunsDiffer(n, reach), Nearby(p, q, n, reach)
  PROVE  \E i \in 0 .. (n - 1) : disc[p + i] # disc[q + i]
<1>1. /\ p \in Surroundings /\ p + n - 1 \in Surroundings
      /\ q \in Surroundings /\ q + n - 1 \in Surroundings
  BY VerificationAssumption DEF Surroundings, Nearby
<1>2. CASE p < q
  <2>1. q <= p + reach
    BY DEF Nearby
  <2> QED
    BY <1>1, <1>2, <2>1 DEF RunsDiffer
<1>3. CASE q < p
  <2>1. p <= q + reach
    BY DEF Nearby
  <2>2. \E i \in 0 .. (n - 1) : disc[q + i] # disc[p + i]
    BY <1>1, <1>3, <2>1 DEF RunsDiffer
  <2> QED
    BY <2>2
<1> QED
  BY <1>2, <1>3 DEF Nearby

-----------------------------------------------------------------------------
(* From k on, x gives the disc from k + u, and y from k + v: x has the e   *)
(* samples before that, which y lacks.                                     *)
Surplus(x, y, k, u, v, e) ==
  /\ k \in Batch /\ u \in Int /\ v \in Int /\ e \in Int
  /\ e = v - u /\ 1 <= e /\ e <= MaxSearch - 1 /\ (u = 0 \/ v = 0)
  /\ k + e + MinWordsRift - 1 <= BatchWords
  /\ \A q \in k .. BatchWords : x[q] = disc[q + u] /\ y[q] = disc[q + v]

LEMMA SurplusFound ==
  ASSUME RunsDiffer(MinWordsRift, 2 * MaxSearch),
         NEW x, NEW y, NEW k, NEW u, NEW v, NEW e, Surplus(x, y, k, u, v, e)
  PROVE  Resync(x, k, y, k) = e /\ Resync(y, k, x, k) = 0
<1> DEFINE n == MinWordsRift
<1>0. /\ BatchWords \in Nat \ {0} /\ n \in Nat \ {0} /\ MaxSearch \in Nat
      /\ k \in Int /\ 1 <= k /\ k <= BatchWords /\ 2 * MaxSearch \in Int
      /\ u \in Int /\ v \in Int /\ e \in Int
      /\ e = v - u /\ 1 <= e /\ e <= MaxSearch - 1 /\ (u = 0 \/ v = 0)
      /\ k + e + n - 1 <= BatchWords
  BY VerificationAssumption DEF Batch, Surplus
<1>s. \A q \in k .. BatchWords : x[q] = disc[q + u] /\ y[q] = disc[q + v]
  BY DEF Surplus
<1> HIDE DEF n
<1>1. InBatch(k, n) /\ InBatch(k + e, n)
  BY <1>0 DEF InBatch, n
<1>2. Agree(x, k + e, y, k, n)
  <2>1. ASSUME NEW j \in 0 .. (n - 1)
        PROVE  x[(k + e) + j] = y[k + j]
    <3>1. /\ (k + e) + j \in k .. BatchWords /\ k + j \in k .. BatchWords
          /\ ((k + e) + j) + u = (k + j) + v
      BY <1>0 DEF n
    <3> QED
      BY <1>s, <3>1
  <2> QED
    BY <1>1, <2>1 DEF Agree
<1>3. ASSUME NEW i \in 0 .. (MaxSearch - 1), k + i <= BatchWords, Agree(x, k + i, y, k, n)
      PROVE  e <= i
  <2> SUFFICES ASSUME i < e PROVE FALSE
    BY <1>0
  <2>1. \E j \in 0 .. (n - 1) : disc[((k + i) + u) + j] # disc[(k + v) + j]
    <3> DEFINE p == (k + i) + u
               q == k + v
               r == 2 * MaxSearch
    <3>1. Nearby(p, q, n, r)
      BY <1>0 DEF n, Nearby
    <3>2. RunsDiffer(n, r)
      BY DEF n
    <3> HIDE DEF p, q, r
    <3>3. \E j \in 0 .. (n - 1) : disc[p + j] # disc[q + j]
      BY <3>1, <3>2, RunsApart
    <3> QED
      BY <3>3 DEF p, q
  <2>2. PICK j \in 0 .. (n - 1) : disc[((k + i) + u) + j] # disc[(k + v) + j]
    BY <2>1
  <2>3. x[(k + i) + j] = y[k + j]
    BY <1>3 DEF Agree
  <2>4. /\ (k + i) + j \in k .. BatchWords /\ k + j \in k .. BatchWords
        /\ ((k + i) + j) + u = ((k + i) + u) + j /\ (k + j) + v = (k + v) + j
    BY <1>0, <1>3 DEF n
  <2> QED
    BY <1>s, <2>2, <2>3, <2>4
<1>4. Resync(x, k, y, k) = e
  <2> DEFINE S == {i \in 0 .. (MaxSearch - 1) : k + i <= BatchWords /\ Agree(x, k + i, y, k, n)}
  <2>1. S \in SUBSET Int /\ e \in S /\ \A i \in S : e <= i
    BY <1>0, <1>2, <1>3 DEF n
  <2>2. Resync(x, k, y, k) = IF S = {} THEN 0 ELSE Least(S)
    BY DEF Resync, n
  <2> HIDE DEF S
  <2> QED
    BY <2>1, <2>2, LeastIsUnique
<1>5. Resync(y, k, x, k) = 0
  <2>1. ASSUME NEW i \in 0 .. (MaxSearch - 1), k + i <= BatchWords, Agree(y, k + i, x, k, n)
        PROVE  FALSE
    <3>1. InBatch(k + i, n)
      BY <2>1 DEF Agree
    <3> DEFINE p == (k + i) + v
               q == k + u
               r == 2 * MaxSearch
    <3>2. Nearby(p, q, n, r) /\ RunsDiffer(n, r)
      BY <1>0, <3>1 DEF n, InBatch, Nearby
    <3> HIDE DEF p, q, r
    <3>3. PICK j \in 0 .. (n - 1) : disc[p + j] # disc[q + j]
      BY <3>2, RunsApart
    <3>4. y[(k + i) + j] = x[k + j]
      BY <2>1 DEF Agree
    <3>5. /\ (k + i) + j \in k .. BatchWords /\ k + j \in k .. BatchWords
          /\ ((k + i) + j) + v = p + j /\ (k + j) + u = q + j
      BY <1>0, <3>1 DEF n, InBatch, p, q
    <3> QED
      BY <1>s, <3>3, <3>4, <3>5
  <2> QED
    BY <2>1 DEF Resync, n
<1> QED
  BY <1>4, <1>5

(* The first mismatch of two reads that agree before k and not at k.       *)
LEMMA PartAt ==
  ASSUME NEW x, NEW y, NEW k \in Batch, x[k] # y[k],
         \A q \in Batch : q < k => x[q] = y[q]
  PROVE  Least({q \in Batch : x[q] # y[q]}) = k
<1> DEFINE S == {q \in Batch : x[q] # y[q]}
<1>1. S \in SUBSET Int /\ k \in S /\ \A q \in S : k <= q
  BY VerificationAssumption DEF Batch
<1> HIDE DEF S
<1>2. Least(S) = k
  BY <1>1, LeastIsUnique
<1> QED
  BY <1>2 DEF S

(* What the analysis answers where the first read has e samples that the   *)
(* second lacks, and where it is the other way round.                      *)
LEMMA SurplusTold ==
  ASSUME NEW x, NEW y, NEW k \in Batch, NEW e \in Int, e > 0,
         x[k] # y[k], \A q \in Batch : q < k => x[q] = y[q],
         Resync(x, k, y, k) = e, Resync(y, k, x, k) = 0,
         ~(IsRegionSilent(x, k, MinWordsOverlap) /\ IsRegionSilent(y, k, MinWordsOverlap))
  PROVE  /\ AnalyzeRift(x, y) = [type |-> "StutterInA", count |-> e]
         /\ AnalyzeRift(y, x) = [type |-> "StutterInB", count |-> e]
<1>1. Least({q \in Batch : x[q] # y[q]}) = k /\ Least({q \in Batch : y[q] # x[q]}) = k
  BY PartAt
<1>2. AnalyzeRift(x, y) =
        CASE e = 0 /\ 0 = 0 -> [type |-> "Unknown"]
          [] e > 0 /\ 0 = 0 -> [type |-> "StutterInA", count |-> e]
          [] e = 0 /\ 0 > 0 -> [type |-> "StutterInB", count |-> 0]
          [] e > 0 /\ 0 > 0 -> [type |-> "Garbage"]
  BY <1>1 DEF AnalyzeRift
<1>3. AnalyzeRift(y, x) =
        CASE 0 = 0 /\ e = 0 -> [type |-> "Unknown"]
          [] 0 > 0 /\ e = 0 -> [type |-> "StutterInA", count |-> 0]
          [] 0 = 0 /\ e > 0 -> [type |-> "StutterInB", count |-> e]
          [] 0 > 0 /\ e > 0 -> [type |-> "Garbage"]
  BY <1>1 DEF AnalyzeRift
<1> QED
  BY <1>2, <1>3

(* A drive that drops or repeats samples at k, within the reach of the     *)
(* search: the read with the surplus is told, with its length.             *)
LEMMA SlipRecognised ==
  ASSUME RunsDiffer(MinWordsRift, 2 * MaxSearch),
         NEW k \in 2 .. BatchWords, NEW d \in (1 - MaxSearch) .. (MaxSearch - 1),
         NEW surplus, surplus = (IF d > 0 THEN d ELSE -d),
         Clean[k] # Ahead(k, d)[k], k + surplus + MinWordsRift - 1 <= BatchWords,
         ~(IsRegionSilent(Clean, k, MinWordsOverlap)
             /\ IsRegionSilent(Ahead(k, d), k, MinWordsOverlap))
  PROVE  /\ AnalyzeRift(Clean, Ahead(k, d)) =
              [type |-> IF d > 0 THEN "StutterInA" ELSE "StutterInB", count |-> surplus]
         /\ AnalyzeRift(Ahead(k, d), Clean) =
              [type |-> IF d > 0 THEN "StutterInB" ELSE "StutterInA", count |-> surplus]
<1> DEFINE a == Clean
           b == Ahead(k, d)
<1>0. /\ BatchWords \in Nat \ {0} /\ MinWordsRift \in Nat \ {0} /\ MaxSearch \in Nat
      /\ d \in Int /\ k \in Int /\ k \in Batch /\ surplus \in Int /\ surplus <= MaxSearch - 1
  BY VerificationAssumption DEF Batch
<1>a. \A q \in Batch : a[q] = disc[q]
  BY CleanAt
<1>b. \A q \in Batch : b[q] = IF q >= k THEN disc[q + d] ELSE disc[q]
  BY <1>0, AheadAt
<1>k. a[k] # b[k]
  OBVIOUS
<1>s. ~(IsRegionSilent(a, k, MinWordsOverlap) /\ IsRegionSilent(b, k, MinWordsOverlap))
  OBVIOUS
<1> HIDE DEF a, b
<1>1. \A q \in Batch : q < k => a[q] = b[q]
  BY <1>0, <1>a, <1>b DEF Batch
<1>2. \A q \in k .. BatchWords : a[q] = disc[q + 0] /\ b[q] = disc[q + d]
  <2>1. ASSUME NEW q \in k .. BatchWords
        PROVE  q \in Batch /\ q >= k /\ q + 0 = q
    BY <1>0 DEF Batch
  <2> QED
    BY <1>a, <1>b, <2>1
<1>3. d # 0
  BY <1>0, <1>a, <1>b, <1>k
<1>4. CASE d > 0
  <2>1. surplus = d /\ surplus = d - 0 /\ 1 <= surplus
    BY <1>0, <1>4
  <2>2. Resync(a, k, b, k) = surplus /\ Resync(b, k, a, k) = 0
    <3>1. Surplus(a, b, k, 0, d, surplus)
      BY <1>0, <1>2, <2>1 DEF Surplus
    <3> QED
      BY <3>1, SurplusFound
  <2>3. /\ AnalyzeRift(a, b) = [type |-> "StutterInA", count |-> surplus]
        /\ AnalyzeRift(b, a) = [type |-> "StutterInB", count |-> surplus]
    BY <1>0, <1>1, <1>k, <1>s, <2>1, <2>2, SurplusTold
  <2> QED
    BY <1>4, <2>3 DEF a, b
<1>5. CASE d < 0
  <2>1. surplus = -d /\ surplus = 0 - d /\ 1 <= surplus /\ ~(d > 0)
    BY <1>0, <1>5
  <2>2. b[k] # a[k] /\ \A q \in Batch : q < k => b[q] = a[q]
    BY <1>1, <1>k
  <2>3. Resync(b, k, a, k) = surplus /\ Resync(a, k, b, k) = 0
    <3>1. Surplus(b, a, k, d, 0, surplus)
      BY <1>0, <1>2, <2>1 DEF Surplus
    <3> QED
      BY <3>1, SurplusFound
  <2>4. /\ AnalyzeRift(b, a) = [type |-> "StutterInA", count |-> surplus]
        /\ AnalyzeRift(a, b) = [type |-> "StutterInB", count |-> surplus]
    BY <1>0, <1>s, <2>1, <2>2, <2>3, SurplusTold
  <2> QED
    BY <2>1, <2>4 DEF a, b
<1> QED
  BY <1>0, <1>3, <1>4, <1>5

-----------------------------------------------------------------------------
(* The jitter search *)

LEMMA MiddleIsInt ==
  /\ Middle \in Int /\ 1 <= Middle /\ Middle <= BatchWords + 1
  /\ MinWordsOverlap \in Nat \ {0} /\ BatchWords \in Nat \ {0}
<1>1. BatchWords \div 2 \in Int /\ 0 <= BatchWords \div 2 /\ BatchWords \div 2 <= BatchWords
  BY VerificationAssumption
<1> QED
  BY <1>1, VerificationAssumption DEF Middle

LEMMA Squares ==
  ASSUME NEW n \in Int
  PROVE  /\ n * n \in Int /\ n * n >= 0 /\ (n * n = 0 => n = 0)
         /\ 0 * 0 = 0
OBVIOUS

LEMMA ShiftMeasured ==
  ASSUME search \in Nat, RunsDiffer(MinWordsOverlap, 2 * search),
         NEW d \in (-search) .. search,
         InBatch(Middle, MinWordsOverlap), InBatch(Middle - d, MinWordsOverlap)
  PROVE  DetectJitter(Clean, Ahead(1, d)) = -d
<1> DEFINE a == Clean
           b == Ahead(1, d)
           m == Middle
           n == MinWordsOverlap
           found == {o \in (-search) .. search : Agree(a, m, b, m + o, n)}
<1>a. \A q \in Batch : a[q] = disc[q]
  BY CleanAt
<1>b. \A q \in Batch : b[q] = disc[q + d]
  <2>1. \A q \in Batch : q >= 1 /\ d \in Int
    BY DEF Batch
  <2> QED
    BY <2>1, AheadAt
<1>m. /\ m \in Int /\ 1 <= m /\ n \in Nat \ {0} /\ BatchWords \in Nat \ {0}
      /\ m + n - 1 <= BatchWords /\ 1 <= m - d /\ (m - d) + n - 1 <= BatchWords
      /\ d \in Int /\ -d \in (-search) .. search /\ m + (-d) = m - d
      /\ Batch = 1 .. BatchWords
  BY MiddleIsInt DEF InBatch, Batch
<1>r. RunsDiffer(n, 2 * search)
  OBVIOUS
<1>n. /\ InBatch(m, n) /\ InBatch(m + (-d), n)
  BY <1>m
<1>d. DetectJitter(a, b) = IF a = b \/ found = {} THEN 0
                           ELSE CHOOSE o \in found : \A x \in found : Nearer(o, x)
  BY DEF DetectJitter
<1> HIDE DEF a, b, m, n
<1>1. ASSUME NEW o \in (-search) .. search
      PROVE  Agree(a, m, b, m + o, n) <=> o = -d
  <2>1. CASE o = -d
    <3>1. ASSUME NEW j \in 0 .. (n - 1)
          PROVE  a[m + j] = b[(m + (-d)) + j]
      <4>1. /\ m + j \in Batch /\ (m + (-d)) + j \in Batch
            /\ ((m + (-d)) + j) + d = m + j
        BY <1>m
      <4> QED
        BY <1>a, <1>b, <4>1
    <3> QED
      BY <1>n, <2>1, <3>1 DEF Agree
  <2>2. CASE o # -d
    <3>1. ASSUME Agree(a, m, b, m + o, n) PROVE FALSE
      <4> DEFINE p == m
                 q == (m + o) + d
                 r == 2 * search
      <4>1. InBatch(m + o, n)
        BY <3>1 DEF Agree
      <4>2. Nearby(p, q, n, r)
        BY <1>m, <2>2, <4>1 DEF InBatch, Nearby
      <4>3. RunsDiffer(n, r)
        BY <1>r
      <4> HIDE DEF p, q, r
      <4>4. PICK j \in 0 .. (n - 1) : disc[p + j] # disc[q + j]
        BY <4>2, <4>3, RunsApart
      <4>5. a[m + j] = b[(m + o) + j]
        BY <3>1 DEF Agree
      <4>6. /\ m + j \in Batch /\ (m + o) + j \in Batch
            /\ ((m + o) + j) + d = q + j /\ m + j = p + j
        BY <1>m, <4>1 DEF InBatch, p, q
      <4> QED
        BY <1>a, <1>b, <4>4, <4>5, <4>6
    <3> QED
      BY <2>2, <3>1
  <2> QED
    BY <2>1, <2>2
<1>2. found = {-d}
  BY <1>m, <1>1
<1> HIDE DEF found
<1>3. CASE d = 0
  <2>1. a = b
    BY <1>3 DEF a, b, Clean
  <2> QED
    BY <1>3, <1>d, <2>1 DEF a, b
<1>4. CASE d # 0
  <2>1. a # b
    <3> DEFINE q == m + d
               r == 2 * search
    <3>1. Nearby(m, q, n, r) /\ RunsDiffer(n, r)
      BY <1>m, <1>r, <1>4 DEF Nearby
    <3> HIDE DEF q, r
    <3>2. PICK j \in 0 .. (n - 1) : disc[m + j] # disc[q + j]
      BY <3>1, RunsApart
    <3>3. m + j \in Batch /\ (m + j) + d = q + j
      BY <1>m DEF q
    <3> QED
      BY <1>a, <1>b, <3>2, <3>3
  <2>2. Nearer(-d, -d)
    BY <1>m DEF Nearer
  <2>3. DetectJitter(a, b) = -d
    BY <1>d, <1>2, <2>1, <2>2
  <2> QED
    BY <2>3 DEF a, b
<1> QED
  BY <1>3, <1>4

(* Two reads that have not slipped are measured as such. *)
LEMMA InPlaceHasNoJitter ==
  ASSUME search \in Nat, MiddleIsReliable, NEW r, NEW s, InPlace(r), InPlace(s)
  PROVE  DetectJitter(r.samples, s.samples) = 0
<1> DEFINE a == r.samples
           b == s.samples
           m == Middle
           n == MinWordsOverlap
           found == {o \in (-search) .. search : Agree(a, m, b, m + o, n)}
<1>d. DetectJitter(a, b) = IF a = b \/ found = {} THEN 0
                           ELSE CHOOSE o \in found : \A x \in found : Nearer(o, x)
  BY DEF DetectJitter
<1>m. m \in Int /\ 1 <= m /\ n \in Nat \ {0} /\ BatchWords \in Nat \ {0}
  BY MiddleIsInt
<1>p. \A p \in Batch \ Weak : a[p] = disc[p] /\ b[p] = disc[p]
  BY DEF InPlace
<1>w. \A p \in m .. (m + n - 1) : p \notin Weak
  BY DEF MiddleIsReliable
<1> HIDE DEF a, b, m, n
<1>1. CASE a = b \/ found = {}
  BY <1>1, <1>d DEF a, b
<1>2. CASE a # b /\ found # {}
  <2>1. InBatch(m, n)
    BY <1>2 DEF Agree
  <2>2. Agree(a, m, b, m + 0, n)
    <3>1. ASSUME NEW j \in 0 .. (n - 1)
          PROVE  a[m + j] = b[(m + 0) + j]
      <4>1. /\ m + j \in m .. (m + n - 1) /\ m + j \in Batch /\ (m + 0) + j = m + j
        BY <1>m, <2>1 DEF InBatch, Batch
      <4>2. m + j \notin Weak
        BY <1>w, <4>1
      <4> QED
        BY <1>p, <4>1, <4>2
    <3>2. InBatch(m + 0, n)
      BY <1>m, <2>1
    <3> QED
      BY <2>1, <3>1, <3>2 DEF Agree
  <2>3. 0 \in found /\ found \subseteq Int
    BY <2>2
  <2> HIDE DEF found
  <2>4. \A x \in found : Nearer(0, x)
    BY <2>3, Squares DEF Nearer
  <2> DEFINE o == CHOOSE x \in found : \A y \in found : Nearer(x, y)
  <2>5. o \in found /\ \A y \in found : Nearer(o, y)
    BY <2>3, <2>4
  <2> HIDE DEF o
  <2>6. o \in Int /\ Nearer(o, 0)
    BY <2>3, <2>5
  <2>7. o = 0
    BY <2>6, Squares DEF Nearer
  <2> QED
    BY <1>2, <1>d, <2>7 DEF o, a, b
<1> QED
  BY <1>1, <1>2

-----------------------------------------------------------------------------
(* The vote: what most of the reads give alone wins. *)

LEMMA MajorityWins ==
  ASSUME NEW S, NEW rs \in Seq(S), NEW p, NEW v,
         NEW I \in SUBSET (DOMAIN rs), 2 * Cardinality(I) > Len(rs),
         \A i \in I : Gives(rs[i], p) /\ Get(rs[i], p) = v
  PROVE  Winners(rs, p) = {v}
<1> DEFINE F(w) == {i \in Voters(rs, p) : Get(rs[i], p) = w}
<1>1. /\ IsFiniteSet(DOMAIN rs) /\ Cardinality(DOMAIN rs) = Len(rs) /\ Len(rs) \in Nat
  <2>1. DOMAIN rs = 1 .. Len(rs) /\ Len(rs) \in Nat
    OBVIOUS
  <2>2. IsFiniteSet(1 .. Len(rs)) /\ Cardinality(1 .. Len(rs)) = Len(rs)
    <3>1. \A n \in Nat : IsFiniteSet(1 .. n) /\ Cardinality(1 .. n) = IF 1 > n THEN 0 ELSE n - 1 + 1
      BY FS_Interval
    <3>2. \A n \in Nat : (IF 1 > n THEN 0 ELSE n - 1 + 1) = n
      OBVIOUS
    <3> QED
      BY <2>1, <3>1, <3>2
  <2> QED
    BY <2>1, <2>2
<1>2. \A w : F(w) \subseteq DOMAIN rs
  BY DEF Voters
<1>3. I \subseteq F(v)
  BY DEF Voters
<1>4. \A w : VotesFor(rs, p, w) = Cardinality(F(w))
  BY DEF VotesFor
<1>c. \A w \in Candidates(rs, p) : F(w) # {}
  BY DEF Candidates
<1>e. \A i \in F(v) : v \in Candidates(rs, p)
  BY DEF Candidates
<1>5. \A w : w # v => F(w) \cap F(v) = {}
  OBVIOUS
<1> HIDE DEF F
<1>6. \A w : IsFiniteSet(F(w)) /\ Cardinality(F(w)) \in Nat
  BY <1>1, <1>2, FS_Subset, FS_CardinalityType
<1>7. Cardinality(I) \in Nat /\ Cardinality(I) <= Cardinality(F(v)) /\ IsFiniteSet(I)
  <2>1. IsFiniteSet(I) /\ Cardinality(I) <= Cardinality(F(v))
    BY <1>3, <1>6, FS_Subset
  <2> QED
    BY <2>1, FS_CardinalityType
<1>8. ASSUME NEW w, w # v
      PROVE  Cardinality(F(w)) < Cardinality(F(v))
  <2>1. Cardinality(F(w) \cup F(v)) =
          Cardinality(F(w)) + Cardinality(F(v)) - Cardinality(F(w) \cap F(v))
    BY <1>6, FS_Union
  <2>2. Cardinality(F(w) \cap F(v)) = 0
    BY <1>5, <1>8, FS_EmptySet
  <2>3. Cardinality(F(w) \cup F(v)) <= Cardinality(DOMAIN rs)
    BY <1>1, <1>2, FS_Subset
  <2> QED
    BY <1>1, <1>6, <1>7, <2>1, <2>2, <2>3
<1>9. v \in Candidates(rs, p)
  <2>1. I = {} => 2 * 0 > Len(rs)
    BY FS_EmptySet
  <2>2. I # {}
    BY <1>1, <2>1
  <2> QED
    BY <1>3, <1>e, <2>2
<1>10. v \in Winners(rs, p)
  <2>1. \A w \in Candidates(rs, p) : VotesFor(rs, p, w) <= VotesFor(rs, p, v)
    BY <1>4, <1>6, <1>8
  <2> QED
    BY <1>9, <2>1 DEF Winners
<1>11. ASSUME NEW w \in Winners(rs, p) PROVE w = v
  <2>1. VotesFor(rs, p, v) <= VotesFor(rs, p, w)
    BY <1>9 DEF Winners
  <2>2. Cardinality(F(v)) <= Cardinality(F(w))
    BY <1>4, <2>1
  <2> QED
    BY <1>6, <1>8, <2>2
<1> QED
  BY <1>10, <1>11

-----------------------------------------------------------------------------
(* What the attempt knows of its reads: the first one is never shifted,    *)
(* the others by what the jitter search finds against the first, if it was *)
(* asked; and a result is either the first read or the vote.               *)
ReadResults == [samples : DriveReads, jitter : Int]
JitterWithin(n, a, b) ==
  LET found == {o \in (-n) .. n : Agree(a, Middle, b, Middle + o, MinWordsOverlap)}
  IN IF a = b \/ found = {} THEN 0
     ELSE CHOOSE o \in found : \A x \in found : Nearer(o, x)
Judged(n, rs) ==
  \A i \in DOMAIN rs :
    \/ rs[i].jitter = 0
    \/ rs[i].jitter = JitterWithin(n, rs[1].samples, rs[i].samples)
VerificationInv ==
  /\ disc \in Discs /\ search \in Searches
  /\ reads \in Seq(ReadResults) /\ (phase # "first" => Len(reads) > 0)
  /\ Len(reads) > 0 => reads[1].jitter = 0
  /\ Judged(search, reads)
  /\ phase = "done" =>
       \/ Len(reads) > 0 /\ result.samples = [p \in Batch |-> {First[p]}]
       \/ result = Consensus(reads)

LEMMA JitterIsWithin ==
  ASSUME NEW a, NEW b
  PROVE  DetectJitter(a, b) = JitterWithin(search, a, b)
BY DEF DetectJitter, JitterWithin

LEMMA SearchIsNat ==
  ASSUME search \in Searches
  PROVE  search \in Nat
BY VerificationAssumption

LEMMA SquaresGrow ==
  ASSUME NEW m \in Nat, NEW n \in Nat, m < n
  PROVE  m * m < n * n
<1>1. m * m <= m * n /\ m * n < n * n /\ m * m \in Nat /\ m * n \in Nat /\ n * n \in Nat
  OBVIOUS
<1> QED
  BY <1>1

(* Among distances there is a nearest one, ahead before back.              *)
LEMMA NearestExists ==
  ASSUME NEW S \in SUBSET Int, S # {}
  PROVE  \E o \in S : \A x \in S : Nearer(o, x)
<1> DEFINE T == {n \in Nat : n \in S \/ -n \in S}
<1>1. T # {}
  <2>1. PICK x \in S : TRUE
    OBVIOUS
  <2>2. x \in Nat \/ (-x \in Nat /\ -(-x) = x)
    OBVIOUS
  <2> QED
    BY <2>1, <2>2
<1>2. PICK n \in T : \A m \in T : n <= m
  BY <1>1, LeastNatural
<1> DEFINE o == IF n \in S THEN n ELSE -n
<1>3. o \in S /\ n \in Nat /\ o \in Int /\ o * o = n * n
  BY <1>2
<1>4. ASSUME NEW x \in S
      PROVE  Nearer(o, x)
  <2> DEFINE m == IF x >= 0 THEN x ELSE -x
  <2>1. m \in Nat /\ m * m = x * x /\ (m = x \/ m = -x)
    OBVIOUS
  <2>2. m \in T
    <3>1. m = x \/ -m = x
      BY <2>1
    <3> QED
      BY <2>1, <3>1
  <2>3. n <= m
    BY <1>2, <2>2
  <2>4. CASE n < m
    <3>1. n * n < m * m
      BY <1>3, <2>1, <2>4, SquaresGrow
    <3> QED
      BY <1>3, <2>1, <3>1 DEF Nearer
  <2>5. CASE n = m
    <3>1. o * o = x * x
      BY <1>3, <2>1, <2>5
    <3>2. o >= x
      BY <1>3, <2>1, <2>5
    <3> QED
      BY <3>1, <3>2 DEF Nearer
  <2> QED
    BY <1>3, <2>1, <2>3, <2>4, <2>5
<1> QED
  BY <1>3, <1>4

LEMMA DetectJitterIsInt ==
  ASSUME search \in Nat, NEW a, NEW b
  PROVE  DetectJitter(a, b) \in Int
<1> DEFINE found == {o \in (-search) .. search : Agree(a, Middle, b, Middle + o, MinWordsOverlap)}
<1>1. DetectJitter(a, b) = IF a = b \/ found = {} THEN 0
                           ELSE CHOOSE o \in found : \A x \in found : Nearer(o, x)
  BY DEF DetectJitter
<1>2. found \in SUBSET Int
  OBVIOUS
<1> HIDE DEF found
<1>3. CASE found # {}
  <2> DEFINE o == CHOOSE o \in found : \A x \in found : Nearer(o, x)
  <2>1. o \in found
    BY <1>2, <1>3, NearestExists
  <2> HIDE DEF o
  <2>2. DetectJitter(a, b) \in {0, o}
    BY <1>1 DEF o
  <2> QED
    BY <1>2, <2>1, <2>2
<1>4. CASE found = {}
  BY <1>1, <1>4
<1> QED
  BY <1>3, <1>4

(* One more read, that the jitter search has judged, or that it need not.  *)
LEMMA AppendJudged ==
  ASSUME reads \in Seq(ReadResults), Judged(search, reads),
         Len(reads) > 0 => reads[1].jitter = 0,
         NEW data \in DriveReads, NEW j \in Int,
         j = 0 \/ (Len(reads) > 0 /\ j = DetectJitter(First, data)),
         NEW rs, rs = Append(reads, Read(data, j))
  PROVE  /\ rs \in Seq(ReadResults) /\ Len(rs) > 0 /\ rs[1].jitter = 0 /\ Judged(search, rs)
         /\ Len(reads) > 0 => rs[1] = reads[1]
<1>1. Read(data, j) \in ReadResults /\ Read(data, j).jitter = j /\ Read(data, j).samples = data
  BY DEF Read, ReadResults
<1>2. /\ rs \in Seq(ReadResults) /\ Len(rs) = Len(reads) + 1 /\ Len(reads) \in Nat
      /\ \A i \in 1 .. Len(reads) : rs[i] = reads[i]
      /\ rs[Len(reads) + 1] = Read(data, j)
      /\ DOMAIN rs = 1 .. Len(reads) + 1 /\ DOMAIN reads = 1 .. Len(reads)
  BY <1>1
<1>3. Len(reads) > 0 => rs[1] = reads[1]
  BY <1>2
<1>4. Judged(search, rs)
  <2> SUFFICES ASSUME NEW i \in DOMAIN rs, rs[i].jitter # 0
               PROVE  rs[i].jitter = JitterWithin(search, rs[1].samples, rs[i].samples)
    BY DEF Judged
  <2>1. CASE i = Len(reads) + 1
    BY <1>1, <1>2, <1>3, <2>1, JitterIsWithin DEF First
  <2>2. CASE i # Len(reads) + 1
    <3>1. i \in DOMAIN reads /\ Len(reads) > 0 /\ rs[i] = reads[i]
      BY <1>2, <2>2
    <3> QED
      BY <1>3, <3>1 DEF Judged
  <2> QED
    BY <2>1, <2>2
<1>5. rs[1].jitter = 0
  <2>1. CASE Len(reads) > 0
    BY <1>3, <2>1
  <2>2. CASE ~(Len(reads) > 0)
    BY <1>1, <1>2, <2>2
  <2> QED
    BY <2>1, <2>2
<1> QED
  BY <1>2, <1>3, <1>4, <1>5

LEMMA AcceptKeepsInv ==
  ASSUME VerificationInv, Len(reads) > 0, NEW data \in DriveReads,
         Accept(Append(reads, Read(data, 0)))
  PROVE  VerificationInv'
<1> DEFINE rs == Append(reads, Read(data, 0))
<1>1. /\ rs \in Seq(ReadResults) /\ Len(rs) > 0 /\ rs[1].jitter = 0 /\ Judged(search, rs)
      /\ rs[1] = reads[1]
  <2>1. /\ reads \in Seq(ReadResults) /\ Judged(search, reads)
        /\ Len(reads) > 0 => reads[1].jitter = 0
    BY DEF VerificationInv
  <2>2. 0 \in Int /\ rs = Append(reads, Read(data, 0))
    OBVIOUS
  <2> HIDE DEF rs
  <2> QED
    BY <2>1, <2>2, AppendJudged
<1> HIDE DEF rs
<1>2. /\ phase' = "done" /\ reads' = rs /\ disc' = disc /\ search' = search
      /\ result'.samples = [p \in Batch |-> {First[p]}]
  BY DEF Accept, given, rs
<1>3. First' = First
  BY <1>1, <1>2 DEF First
<1>4. Judged(search, reads)' /\ ReadResults' = ReadResults
  BY <1>1, <1>2 DEF ReadResults, DriveReads, SlippedRead
<1> QED
  BY <1>1, <1>2, <1>3, <1>4 DEF VerificationInv

(* Reads and results untouched.                                            *)
LEMMA NothingReadKeepsInv ==
  ASSUME VerificationInv, UNCHANGED <<given, reads, result>>,
         phase' # "first" => Len(reads) > 0, phase' = "done" => phase = "done"
  PROVE  VerificationInv'
<1>1. /\ disc' = disc /\ search' = search /\ reads' = reads /\ result' = result
  BY DEF given
<1>2. /\ Judged(search, reads)' = Judged(search, reads) /\ ReadResults' = ReadResults /\ First' = First
      /\ Consensus(reads)' = Consensus(reads)
  BY <1>1 DEF ReadResults, DriveReads, SlippedRead, First, Consensus
<1> QED
  BY <1>1, <1>2 DEF VerificationInv

LEMMA StartOverKeepsInv ==
  ASSUME VerificationInv, StartOver
  PROVE  VerificationInv'
<1>1. phase' = "first" /\ reads' = <<>> /\ disc' = disc /\ search' = search
  BY DEF StartOver, given
<1> QED
  BY <1>1 DEF VerificationInv, Judged

LEMMA ReadsKeepInv ==
  ASSUME VerificationInv, NEW data \in DriveReads, NEW j \in Int,
         j = 0 \/ (Len(reads) > 0 /\ j = DetectJitter(First, data)),
         reads' = Append(reads, Read(data, j)), UNCHANGED given, phase' # "done"
  PROVE  VerificationInv'
<1> DEFINE rs == Append(reads, Read(data, j))
<1>1. rs \in Seq(ReadResults) /\ Len(rs) > 0 /\ rs[1].jitter = 0 /\ Judged(search, rs)
  BY AppendJudged DEF VerificationInv
<1> HIDE DEF rs
<1>2. reads' = rs /\ disc' = disc /\ search' = search
  BY DEF given, rs
<1>3. Judged(search, reads)' /\ ReadResults' = ReadResults
  BY <1>1, <1>2 DEF ReadResults, DriveReads, SlippedRead
<1> QED
  BY <1>1, <1>2, <1>3 DEF VerificationInv

LEMMA NextKeepsInv ==
  ASSUME VerificationInv, [Next]_vars
  PROVE  VerificationInv'
<1>0. search \in Nat
  BY SearchIsNat DEF VerificationInv
<1>1. ASSUME NEW data \in DriveReads, FirstRead(data)
      PROVE  VerificationInv'
  <2>1. reads' = Append(<<>>, Read(data, 0)) /\ UNCHANGED given /\ phase' # "done" /\ phase = "first"
    BY <1>1 DEF FirstRead
  <2> DEFINE r == Read(data, 0)
  <2>2. /\ r \in ReadResults /\ r.jitter = 0
    BY DEF Read, ReadResults
  <2> HIDE DEF r
  <2>3. reads' = <<r>> /\ disc' = disc /\ search' = search
    BY <1>1 DEF FirstRead, given, r
  <2>4. Judged(search, reads)' /\ ReadResults' = ReadResults
    BY <2>2, <2>3 DEF Judged, ReadResults, DriveReads, SlippedRead
  <2> QED
    BY <2>1, <2>2, <2>3, <2>4 DEF VerificationInv
<1>2. ASSUME NEW data \in DriveReads, SecondRead(data)
      PROVE  VerificationInv'
  <2>1. Len(reads) > 0
    BY <1>2 DEF SecondRead, VerificationInv
  <2>2. CASE Accept(Append(reads, Read(data, 0)))
    BY <2>1, <2>2, AcceptKeepsInv
  <2>3. CASE Panic
    BY <2>1, <2>3, NothingReadKeepsInv DEF Panic
  <2>4. CASE phase' = "consensus" /\ reads' = Append(reads, Read(data, 0)) /\ UNCHANGED given
    BY <2>1, <2>4, ReadsKeepInv
  <2> QED
    BY <1>2, <2>2, <2>3, <2>4 DEF SecondRead
<1>3. CASE SecondFails \/ Starved
  BY <1>3, StartOverKeepsInv DEF SecondFails, Starved
<1>4. CASE ConsensusRead
  <2>1. Len(reads) > 0 /\ phase = "consensus"
    BY <1>4 DEF ConsensusRead, VerificationInv
  <2>2. PICK data \in DriveReads :
          \/ Panic
          \/ /\ reads' = Append(reads, Read(data, DetectJitter(First, data)))
             /\ UNCHANGED <<given, phase, result>>
    BY <1>4 DEF ConsensusRead
  <2>3. CASE Panic
    BY <2>1, <2>3, NothingReadKeepsInv DEF Panic
  <2>4. CASE /\ reads' = Append(reads, Read(data, DetectJitter(First, data)))
             /\ UNCHANGED <<given, phase, result>>
    BY <1>0, <2>1, <2>4, DetectJitterIsInt, ReadsKeepInv
  <2> QED
    BY <2>2, <2>3, <2>4
<1>5. CASE ConsensusReadFails \/ UNCHANGED vars
  <2>1. UNCHANGED <<given, reads, result>> /\ phase' = phase
    BY <1>5 DEF ConsensusReadFails, vars
  <2>2. phase' # "first" => Len(reads) > 0
    BY <2>1 DEF VerificationInv
  <2> QED
    BY <2>1, <2>2, NothingReadKeepsInv
<1>6. CASE Vote
  <2>1. /\ disc' = disc /\ search' = search /\ reads' = reads /\ result' = Consensus(reads)
        /\ Len(reads) > 0
    BY <1>6 DEF Vote, given, VerificationInv
  <2>2. /\ Judged(search, reads)' = Judged(search, reads) /\ ReadResults' = ReadResults
        /\ Consensus(reads)' = Consensus(reads)
    BY <2>1 DEF ReadResults, DriveReads, SlippedRead, Consensus
  <2> QED
    BY <2>1, <2>2 DEF VerificationInv
<1> QED
  BY <1>1, <1>2, <1>3, <1>4, <1>5, <1>6 DEF Next

(* In every state the reads are judged, and a result is one of the two.    *)
THEOREM VerificationInvariant == Spec => []VerificationInv
<1>1. Init => VerificationInv
  BY DEF Init, VerificationInv, Judged
<1>2. VerificationInv /\ [Next]_vars => VerificationInv'
  BY NextKeepsInv
<1> QED
  BY <1>1, <1>2, PTL DEF Spec

(* Rift analysis recognises dropped and repeated samples within its reach: *)
(* which of the two reads has samples the other lacks, and how many.       *)
THEOREM SlipsRecognised == Spec => []RiftsRecognised
<1>1. VerificationInv => RiftsRecognised
  BY SlipRecognised DEF VerificationInv, RiftsRecognised
<1> QED
  BY <1>1, VerificationInvariant, PTL

(* The jitter search finds by how much a read is shifted, to either side.  *)
THEOREM JitterMeasured == Spec => []ShiftsMeasured
<1>1. VerificationInv => ShiftsMeasured
  BY ShiftMeasured, SearchIsNat DEF VerificationInv, ShiftsMeasured
<1> QED
  BY <1>1, VerificationInvariant, PTL

(* Most reads in place: the disc's samples come out at every position the  *)
(* drive reads reliably, by whichever way the batch was verified.          *)
THEOREM MajorityRight == Spec => []ReliableSamplesRight
<1>1. ASSUME VerificationInv, phase = "done", MiddleIsReliable, InPlace(reads[1]),
             2 * Cardinality({i \in DOMAIN reads : InPlace(reads[i])}) > Len(reads),
             NEW p \in Batch \ Weak
      PROVE  result.samples[p] = {disc[p]}
  <2>1. CASE result.samples = [q \in Batch |-> {First[q]}]
    BY <1>1, <2>1 DEF InPlace, First
  <2>2. CASE result = Consensus(reads)
    <3> DEFINE I == {i \in DOMAIN reads : InPlace(reads[i])}
    <3>1. ASSUME NEW i \in I
          PROVE  Gives(reads[i], p) /\ Get(reads[i], p) = disc[p]
      <4>1. i \in DOMAIN reads /\ InPlace(reads[i]) /\ search \in Nat
        BY <1>1, SearchIsNat DEF VerificationInv
      <4>2. reads[i].jitter = 0 \/ reads[i].jitter = DetectJitter(reads[1].samples, reads[i].samples)
        BY <1>1, <4>1, JitterIsWithin DEF VerificationInv, Judged
      <4>3. reads[i].jitter = 0
        BY <1>1, <4>1, <4>2, InPlaceHasNoJitter
      <4>4. p - 0 = p /\ p \in Batch
        BY DEF Batch
      <4> QED
        BY <4>1, <4>3, <4>4 DEF Gives, Get, InPlace
    <3>2. reads \in Seq(ReadResults) /\ I \in SUBSET (DOMAIN reads)
          /\ 2 * Cardinality(I) > Len(reads)
      BY <1>1 DEF VerificationInv
    <3> DEFINE v == disc[p]
    <3>a. \A i \in I : Gives(reads[i], p) /\ Get(reads[i], p) = v
      BY <3>1
    <3> HIDE DEF I, v
    <3>b. Winners(reads, p) = {v}
      BY <3>2, <3>a, MajorityWins
    <3>3. Winners(reads, p) = {disc[p]}
      BY <3>b DEF v
    <3>4. result.samples[p] = Winners(reads, p)
      BY <2>2 DEF Consensus
    <3> QED
      BY <3>3, <3>4
  <2> QED
    BY <1>1, <2>1, <2>2 DEF VerificationInv
<1>2. VerificationInv => ReliableSamplesRight
  BY <1>1 DEF ReliableSamplesRight
<1> QED
  BY <1>2, VerificationInvariant, PTL
=============================================================================
