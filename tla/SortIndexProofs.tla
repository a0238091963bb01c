--------------------------- MODULE SortIndexProofs ---------------------------
(***************************************************************************)
(* The index of a batch and what may be concluded from it, for batches of  *)
(* any length and any values.                                              *)
(***************************************************************************)
EXTENDS SortIndex, Induction

Indexable(b) ==
  b \in [begin : Int, samples : Seq(Values), shift : {b.shift},
         heads : [Values -> Nat], links : [1 .. Len(b.samples) -> Nat]]

(* An index that holds nothing describes none of the batch.                *)
LEMMA UnindexedDescribes ==
  ASSUME NEW begin \in Int, NEW samples \in Seq(Values), NEW shift
  PROVE  /\ Indexable(Unindexed(begin, samples, shift))
         /\ Describes(Unindexed(begin, samples, shift), 0)
BY DEF Indexable, Unindexed, Describes, PlacesOf, IsLast

(* Inserting the next sample makes the index describe one sample more: the *)
(* bucket's chain is prolonged at its head and no other is touched         *)
(* (build_index).                                                          *)
THEOREM InsertDescribes ==
  ASSUME NEW b, Indexable(b), NEW n \in 0 .. Len(b.samples) - 1, Describes(b, n)
  PROVE  Indexable(Insert(b, n + 1)) /\ Describes(Insert(b, n + 1), n + 1)
<1> DEFINE v == b.samples[n + 1]
           c == Insert(b, n + 1)
<1>1. n + 1 \in 1 .. Len(b.samples) /\ v \in Values /\ b.samples \in Seq(Values)
  BY DEF Indexable
<1>2. /\ c \in [begin : Int, samples : {b.samples}, shift : {b.shift},
               heads : {[b.heads EXCEPT ![v] = n + 1]},
               links : {[b.links EXCEPT ![n + 1] = b.heads[v]]}]
  BY DEF Indexable, Insert
<1> HIDE DEF c
<1>3. Indexable(c)
  <2>1. [b.heads EXCEPT ![v] = n + 1] \in [Values -> Nat]
    BY <1>1 DEF Indexable
  <2>2. [b.links EXCEPT ![n + 1] = b.heads[v]] \in [1 .. Len(b.samples) -> Nat]
    BY <1>1 DEF Indexable
  <2>3. c.samples = b.samples /\ b.begin \in Int
    BY <1>2 DEF Indexable
  <2> QED BY <1>1, <1>2, <2>1, <2>2, <2>3 DEF Indexable
<1>4. ASSUME NEW w \in Values
      PROVE  IsLast(c.heads[w], PlacesOf(c, w, n + 1))
  <2>1. CASE w = v
    <3>1. n + 1 \in PlacesOf(c, w, n + 1) /\ \A j \in PlacesOf(c, w, n + 1) : j <= n + 1
      BY <1>1, <1>2, <2>1 DEF PlacesOf
    <3>2. c.heads[w] = n + 1
      BY <1>1, <1>2, <2>1 DEF Indexable
    <3> QED BY <3>1, <3>2 DEF IsLast
  <2>2. CASE w # v
    <3>1. PlacesOf(c, w, n + 1) = PlacesOf(b, w, n)
      BY <1>1, <1>2, <2>2 DEF PlacesOf
    <3>2. c.heads[w] = b.heads[w]
      BY <1>1, <1>2, <2>2 DEF Indexable
    <3> QED BY <3>1, <3>2 DEF Describes
  <2> QED BY <2>1, <2>2
<1>5. ASSUME NEW i \in 1 .. n + 1
      PROVE  IsLast(c.links[i], PlacesOf(c, c.samples[i], i - 1))
  <2>1. PlacesOf(c, c.samples[i], i - 1) = PlacesOf(b, b.samples[i], i - 1)
    BY <1>2 DEF PlacesOf
  <2>2. CASE i = n + 1
    <3>1. c.links[i] = b.heads[v]
      BY <1>1, <1>2, <2>2 DEF Indexable
    <3> QED BY <1>1, <2>1, <2>2, <3>1 DEF Describes
  <2>3. CASE i \in 1 .. n
    <3>1. c.links[i] = b.links[i]
      BY <1>1, <1>2, <2>3, SMTT(60) DEF Indexable
    <3> QED BY <2>1, <2>3, <3>1 DEF Describes
  <2> QED BY <2>2, <2>3
<1>6. Describes(c, n + 1)
  BY <1>4, <1>5 DEF Describes
<1> QED BY <1>3, <1>6 DEF c

(* Following a described index misses nothing and comes to an end: each    *)
(* link leads to an earlier place of the same value, and no place of that  *)
(* value lies between the two (find_match, MatchIterator).                 *)
THEOREM ChainMissesNone ==
  ASSUME NEW b, Indexable(b), NEW n \in 0 .. Len(b.samples), Describes(b, n),
         NEW i \in 1 .. n
  PROVE  /\ b.links[i] < i
         /\ b.links[i] # 0 => b.samples[b.links[i]] = b.samples[i]
         /\ \A j \in b.links[i] + 1 .. i - 1 : b.samples[j] # b.samples[i]
<1>1. IsLast(b.links[i], PlacesOf(b, b.samples[i], i - 1))
  BY DEF Describes
<1>2. b.links[i] \in Nat
  BY DEF Indexable
<1> QED BY <1>1, <1>2 DEF IsLast, PlacesOf

(* and it begins at the last place of the value that is looked for         *)
THEOREM HeadsLead ==
  ASSUME NEW b, Indexable(b), NEW n \in 0 .. Len(b.samples), Describes(b, n),
         NEW v \in Values
  PROVE  /\ b.heads[v] # 0 => b.heads[v] <= n /\ b.samples[b.heads[v]] = v
         /\ \A j \in b.heads[v] + 1 .. n : b.samples[j] # v
<1>1. IsLast(b.heads[v], PlacesOf(b, v, n))
  BY DEF Describes
<1>2. b.heads[v] \in Nat
  BY DEF Indexable
<1> QED BY <1>1, <1>2 DEF IsLast, PlacesOf

(* A match that the index finds is a run of the least length at the offset *)
(* that is reported (find_match).                                          *)
THEOREM MatchIsRun ==
  ASSUME NEW a, Indexable(a), NEW b, Indexable(b), NEW minMatch \in Nat \ {0},
         NEW i \in Places(a), NEW j \in Places(b), b.samples[j] = a.samples[i],
         MatchesFrom(a, i, b, j, minMatch)
  PROVE  Agree(a, b, OffsetTo(a, i, b, j), minMatch)
<1> DEFINE offset == OffsetTo(a, i, b, j)
<1>1. /\ i \in Nat /\ j \in Nat /\ a.begin \in Int /\ b.begin \in Int
      /\ Len(a.samples) \in Nat /\ Len(b.samples) \in Nat
  <2>1. a.samples \in Seq(Values) /\ b.samples \in Seq(Values)
    BY DEF Indexable
  <2>2. a.begin \in Int /\ b.begin \in Int
    BY DEF Indexable
  <2> QED BY <2>1, <2>2 DEF Places
<1>2. ASSUME NEW k \in 0 .. minMatch - 1
      PROVE  /\ i + k \in Places(a)
             /\ Has(b, a.begin + i + k - 1 + offset)
             /\ Get(b, a.begin + i + k - 1 + offset) = a.samples[i + k]
  <2>1. a.begin + i + k - 1 + offset = b.begin + j + k - 1
    <3>1. offset \in Int /\ offset = b.begin + j - a.begin - i
      BY <1>1 DEF OffsetTo
    <3> HIDE DEF offset
    <3> QED BY SMTT(60), <1>1, <3>1
  <2>2. CASE k = 0
    <3>1. i + k = i
      BY <1>1, <2>2
    <3>2. Has(b, b.begin + j + k - 1)
      BY <1>1, <2>2 DEF Has, EndOf, Places
    <3>3. Get(b, b.begin + j + k - 1) = a.samples[i + k]
      <4> DEFINE pos == b.begin + j + k - 1
      <4>1. pos - b.begin + 1 = j
        BY <1>1, <2>2
      <4> HIDE DEF pos
      <4>2. Get(b, pos) = a.samples[i]
        BY <4>1 DEF Get
      <4> QED BY <3>1, <4>2 DEF pos
    <3> HIDE DEF offset
    <3> QED BY <2>1, <3>1, <3>2, <3>3
  <2>3. CASE k \in 1 .. minMatch - 1
    <3>1. /\ i + k <= Len(a.samples) /\ Has(b, b.begin + j + k - 1)
          /\ Get(b, b.begin + j + k - 1) = a.samples[i + k]
      BY <2>3 DEF MatchesFrom
    <3>2. i + k \in Places(a)
      BY <1>1, <2>3, <3>1 DEF Places
    <3> HIDE DEF offset
    <3> QED BY <2>1, <3>1, <3>2
  <2> QED BY <2>2, <2>3
<1> QED BY <1>2 DEF Agree

-----------------------------------------------------------------------------
(* verify_overlap: the count along the batch and the runs it stands for    *)

CountPlace(a, b, offset, i) == a.begin + i - 1 + offset
SameAt(a, b, offset, i) ==
  /\ Has(b, CountPlace(a, b, offset, i))
  /\ Get(b, CountPlace(a, b, offset, i)) = a.samples[i]

(* a count that runs along a batch as verify_overlap's does                *)
CountsAlong(count, a, b, offset, minMatch) ==
  /\ count \in [0 .. Len(a.samples) -> Nat]
  /\ count[0] = 0
  /\ \A i \in 1 .. Len(a.samples) :
       count[i] = CountTo(a, b, offset, minMatch, count[i - 1], i)

LEMMA CountToNat ==
  ASSUME NEW a, NEW b, NEW offset, NEW minMatch, NEW count \in Nat, NEW i
  PROVE  CountTo(a, b, offset, minMatch, count, i) \in Nat
BY DEF CountTo

(* The recursion that MatchesSomewhere states has a solution.              *)
LEMMA CountExists ==
  ASSUME NEW a, Len(a.samples) \in Nat, NEW b, NEW offset, NEW minMatch
  PROVE  \E count : /\ CountsAlong(count, a, b, offset, minMatch)
                    /\ MatchesSomewhere(a, b, offset, minMatch)
                         <=> count[Len(a.samples)] >= minMatch
<1> DEFINE n == Len(a.samples)
           step == [p \in Nat \X Nat |-> CountTo(a, b, offset, minMatch, p[1], p[2] + 1)]
           Equation(count) ==
             count = [i \in 0 .. n |->
                        IF i = 0 THEN 0
                        ELSE CountTo(a, b, offset, minMatch, count[i - 1], i)]
           count == CHOOSE count : Equation(count)
<1>1. step \in [Nat \X Nat -> Nat]
  BY CountToNat
<1>2. PICK f \in [Nat -> Nat] : f[0] = 0 /\ \A i \in Nat : f[i + 1] = step[<<f[i], i>>]
  <2> HIDE DEF step
  <2> DEFINE N == Nat
  <2>1. 0 \in N /\ step \in Steps(N)
    BY <1>1 DEF Steps
  <2> HIDE DEF step, N
  <2>2. \E f \in [Nat -> N] : f[0] = 0 /\ \A i \in Nat : f[i + 1] = step[<<f[i], i>>]
    BY <2>1, Iteration
  <2> QED BY <2>2 DEF N
<1>3. Equation([i \in 0 .. n |-> f[i]])
  <2> DEFINE g == [i \in 0 .. n |-> f[i]]
  <2>1. ASSUME NEW i \in 1 .. n
        PROVE  f[i] = CountTo(a, b, offset, minMatch, f[i - 1], i)
    <3>1. i - 1 \in Nat /\ (i - 1) + 1 = i
      OBVIOUS
    <3>2. f[i] = step[<<f[i - 1], i - 1>>]
      BY <1>2, <3>1
    <3> QED BY <1>2, <3>1, <3>2
  <2>2. ASSUME NEW i \in 0 .. n
        PROVE  g[i] = IF i = 0 THEN 0 ELSE CountTo(a, b, offset, minMatch, g[i - 1], i)
    <3>1. CASE i = 0
      BY <1>2, <3>1
    <3>2. CASE i \in 1 .. n
      <4>1. g[i] = f[i] /\ g[i - 1] = f[i - 1]
        BY <3>2
      <4> HIDE DEF g
      <4> QED BY SMTT(60), <2>1, <3>2, <4>1
    <3> QED BY <3>1, <3>2
  <2>3. g = [i \in 0 .. n |-> g[i]]
    OBVIOUS
  <2> HIDE DEF g
  <2>4. Equation(g)
    BY <2>2, <2>3
  <2> QED BY <2>4 DEF g
<1>4. Equation(count)
  <2> HIDE DEF Equation
  <2> QED BY <1>3
<1>5. MatchesSomewhere(a, b, offset, minMatch) <=> count[n] >= minMatch
  BY DEF MatchesSomewhere
<1>6. count[0] = 0 /\ \A i \in 1 .. n :
        count[i] = CountTo(a, b, offset, minMatch, count[i - 1], i)
  <2> HIDE DEF count
  <2>1. count = [i \in 0 .. n |->
                   IF i = 0 THEN 0 ELSE CountTo(a, b, offset, minMatch, count[i - 1], i)]
    BY <1>4
  <2>2. \A i \in 0 .. n :
          count[i] = IF i = 0 THEN 0 ELSE CountTo(a, b, offset, minMatch, count[i - 1], i)
    BY <2>1, Zenon
  <2> QED BY <2>2
<1>7. \A i \in Nat : i \in {k \in Nat : k <= n => count[k] \in Nat}
  <2> DEFINE S == {k \in Nat : k <= n => count[k] \in Nat}
  <2>1. 0 \in S
    BY <1>6
  <2>2. ASSUME NEW i \in Nat, i \in S PROVE i + 1 \in S
    <3> HIDE DEF count
    <3> SUFFICES ASSUME i + 1 <= n PROVE count[i + 1] \in Nat
      OBVIOUS
    <3>1. count[i] \in Nat /\ i + 1 \in 1 .. n /\ (i + 1) - 1 = i
      BY SMTT(60), <2>2
    <3>2. count[i + 1] = CountTo(a, b, offset, minMatch, count[(i + 1) - 1], i + 1)
      BY <1>6, <3>1
    <3>3. CountTo(a, b, offset, minMatch, count[i], i + 1) \in Nat
      BY <3>1, CountToNat
    <3> QED BY <3>1, <3>2, <3>3
  <2> HIDE DEF S
  <2>3. \A i \in Nat : i \in S
    BY <2>1, <2>2, InductionOnSet
  <2> QED BY <2>3 DEF S
<1>8. count \in [0 .. n -> Nat]
  <2> HIDE DEF count
  <2>1. count = [i \in 0 .. n |->
                   IF i = 0 THEN 0 ELSE CountTo(a, b, offset, minMatch, count[i - 1], i)]
    BY <1>4
  <2>2. \A i \in 0 .. n : count[i] \in Nat
    BY <1>7
  <2> QED BY <2>1, <2>2
<1> HIDE DEF count
<1> QED BY <1>5, <1>6, <1>8 DEF CountsAlong

(* After i samples the count is the length of a run that agrees, and the   *)
(* run ends here unless the batches overlap no further or it is long       *)
(* enough: samples without a counterpart lie before or behind the run.     *)
RunTo(a, b, offset, minMatch, c, i) ==
  /\ c \in 0 .. minMatch
  /\ c # 0 => \E e \in c .. i :
       /\ \A q \in e - c + 1 .. e : SameAt(a, b, offset, q)
       /\ e = i \/ c = minMatch \/ ~Has(b, CountPlace(a, b, offset, e + 1))

LEMMA HasBetween ==
  ASSUME NEW a, Indexable(a), NEW b, Indexable(b), NEW offset \in Int,
         NEW e \in Int, NEW f \in Int, e < f,
         Has(b, CountPlace(a, b, offset, e)), Has(b, CountPlace(a, b, offset, f))
  PROVE  Has(b, CountPlace(a, b, offset, e + 1))
<1>1. b.begin \in Int /\ Len(b.samples) \in Nat /\ a.begin \in Int
  <2>1. b.samples \in Seq(Values) /\ b.begin \in Int /\ a.begin \in Int
    BY DEF Indexable
  <2> QED BY <2>1
<1> QED BY <1>1, SMTT(60) DEF Has, EndOf, CountPlace

LEMMA CountStandsForRun ==
  ASSUME NEW a, Indexable(a), NEW b, Indexable(b), NEW offset \in Int,
         NEW minMatch \in Nat \ {0}, NEW i \in Nat, i + 1 <= Len(a.samples),
         NEW c \in Nat, RunTo(a, b, offset, minMatch, c, i)
  PROVE  RunTo(a, b, offset, minMatch, CountTo(a, b, offset, minMatch, c, i + 1), i + 1)
<1> DEFINE pos(q) == CountPlace(a, b, offset, q)
           d == CountTo(a, b, offset, minMatch, c, i + 1)
<1>1. a.begin \in Int /\ b.begin \in Int /\ Len(b.samples) \in Nat
  <2>1. b.samples \in Seq(Values) /\ a.begin \in Int /\ b.begin \in Int
    BY DEF Indexable
  <2> QED BY <2>1
<1>2. pos(i + 1) = a.begin + (i + 1) - 1 + offset
  BY DEF CountPlace
<1>3. c \in 0 .. minMatch
  BY DEF RunTo
<1>4. CASE c = minMatch \/ ~Has(b, pos(i + 1))
  <2>1. d = c
    BY <1>2, <1>4 DEF CountTo
  <2>2. CASE c = 0
    BY <2>1, <2>2 DEF RunTo
  <2>3. CASE c # 0
    <3>1. PICK e \in c .. i :
            /\ \A q \in e - c + 1 .. e : SameAt(a, b, offset, q)
            /\ e = i \/ c = minMatch \/ ~Has(b, CountPlace(a, b, offset, e + 1))
      BY <2>3 DEF RunTo
    <3>2. c = minMatch \/ ~Has(b, CountPlace(a, b, offset, e + 1))
      BY <1>4, <3>1
    <3>3. e \in c .. i + 1
      OBVIOUS
    <3>4. RunTo(a, b, offset, minMatch, c, i + 1)
      BY <1>3, <3>1, <3>2, <3>3 DEF RunTo
    <3> HIDE DEF d
    <3>5. RunTo(a, b, offset, minMatch, d, i + 1)
      BY <2>1, <3>4
    <3> QED BY <3>5 DEF d
  <2> QED BY <2>2, <2>3
<1>5. CASE c < minMatch /\ Has(b, pos(i + 1)) /\ Get(b, pos(i + 1)) # a.samples[i + 1]
  <2>1. d = 0
    BY <1>2, <1>5 DEF CountTo
  <2> QED BY <2>1 DEF RunTo
<1>6. CASE c < minMatch /\ Has(b, pos(i + 1)) /\ Get(b, pos(i + 1)) = a.samples[i + 1]
  <2>1. d = c + 1
    BY <1>2, <1>6 DEF CountTo
  <2>2. SameAt(a, b, offset, i + 1)
    BY <1>6 DEF SameAt
  <2>3. \A q \in i + 1 - d + 1 .. i + 1 : SameAt(a, b, offset, q)
    <3>1. CASE c = 0
      BY <2>1, <2>2, <3>1
    <3>2. CASE c # 0
      <4>1. PICK e \in c .. i :
              /\ \A q \in e - c + 1 .. e : SameAt(a, b, offset, q)
              /\ e = i \/ c = minMatch \/ ~Has(b, CountPlace(a, b, offset, e + 1))
        BY <3>2 DEF RunTo
      <4>2. e = i
        <5>1. SUFFICES ASSUME e < i
                       PROVE  Has(b, CountPlace(a, b, offset, e + 1))
          BY <1>6, <4>1
        <5>2. e \in e - c + 1 .. e
          BY <3>2
        <5>3. Has(b, CountPlace(a, b, offset, e))
          BY <4>1, <5>2 DEF SameAt
        <5>4. e \in Int /\ i + 1 \in Int /\ e < i + 1
          BY <5>1
        <5> QED BY <1>6, <5>3, <5>4, HasBetween
      <4>3. ASSUME NEW q \in i + 1 - d + 1 .. i + 1
            PROVE  q = i + 1 \/ q \in e - c + 1 .. e
        BY <2>1, <4>2
      <4> HIDE DEF d
      <4> QED BY <2>2, <4>1, <4>3
    <3> QED BY <3>1, <3>2
  <2>4. d \in 0 .. minMatch /\ d # 0 /\ i + 1 \in d .. i + 1
    <3>1. i >= c
      BY DEF RunTo
    <3> QED BY <1>6, <2>1, <3>1
  <2> HIDE DEF d
  <2>5. RunTo(a, b, offset, minMatch, d, i + 1)
    BY <2>3, <2>4 DEF RunTo
  <2> QED BY <2>5 DEF d
<1> QED BY <1>3, <1>4, <1>5, <1>6

(* verify_overlap says yes just where a run of the least length agrees.    *)
THEOREM MatchMeansRun ==
  ASSUME NEW a, Indexable(a), NEW b, Indexable(b), NEW offset \in Int,
         NEW minMatch \in Nat \ {0}
  PROVE  MatchesSomewhere(a, b, offset, minMatch) <=> Agree(a, b, offset, minMatch)
<1> DEFINE n == Len(a.samples)
<1>1. n \in Nat /\ a.begin \in Int
  <2>1. a.samples \in Seq(Values) /\ a.begin \in Int
    BY DEF Indexable
  <2> QED BY <2>1
<1>2. PICK count : /\ CountsAlong(count, a, b, offset, minMatch)
                   /\ MatchesSomewhere(a, b, offset, minMatch) <=> count[n] >= minMatch
  BY <1>1, CountExists
<1>3. /\ \A i \in 0 .. n : count[i] \in Nat
      /\ count[0] = 0
      /\ \A i \in Nat : i + 1 <= n =>
           count[i + 1] = CountTo(a, b, offset, minMatch, count[i], i + 1)
  <2>1. \A i \in Nat : i + 1 <= n => i + 1 \in 1 .. n /\ (i + 1) - 1 = i
    BY <1>1
  <2> QED BY <1>2, <2>1 DEF CountsAlong
<1> HIDE DEF n
<1>4. ASSUME count[n] >= minMatch
      PROVE  Agree(a, b, offset, minMatch)
  <2> DEFINE S == {i \in Nat : i <= n => RunTo(a, b, offset, minMatch, count[i], i)}
  <2>1. 0 \in S
    BY <1>3 DEF RunTo
  <2>2. ASSUME NEW i \in Nat, i \in S PROVE i + 1 \in S
    <3> SUFFICES ASSUME i + 1 <= n
                 PROVE  RunTo(a, b, offset, minMatch, count[i + 1], i + 1)
      OBVIOUS
    <3>1. RunTo(a, b, offset, minMatch, count[i], i) /\ count[i] \in Nat
      BY <1>1, <1>3, <2>2
    <3>2. RunTo(a, b, offset, minMatch,
                CountTo(a, b, offset, minMatch, count[i], i + 1), i + 1)
      BY <3>1, CountStandsForRun DEF n
    <3> QED BY <1>3, <3>2
  <2>3. n \in S
    <3> HIDE DEF S
    <3> QED BY <1>1, <2>1, <2>2, InductionOnSet
  <2>4. RunTo(a, b, offset, minMatch, count[n], n)
    BY <1>1, <2>3
  <2>5. count[n] = minMatch /\ count[n] # 0
    BY <1>4, <2>4 DEF RunTo
  <2>6. PICK e \in minMatch .. n : \A q \in e - minMatch + 1 .. e : SameAt(a, b, offset, q)
    BY <2>4, <2>5 DEF RunTo
  <2> DEFINE i == e - minMatch + 1
  <2>7. i \in 1 .. n
    BY <1>1, <2>6
  <2>8. ASSUME NEW k \in 0 .. minMatch - 1
        PROVE  /\ i + k \in Places(a)
               /\ Has(b, a.begin + i + k - 1 + offset)
               /\ Get(b, a.begin + i + k - 1 + offset) = a.samples[i + k]
    <3>1. i + k \in e - minMatch + 1 .. e /\ i + k \in 1 .. n
      BY <1>1, <2>6
    <3>2. SameAt(a, b, offset, i + k)
      BY <2>6, <3>1
    <3>3. CountPlace(a, b, offset, i + k) = a.begin + i + k - 1 + offset
      BY <1>1, <2>7 DEF CountPlace
    <3> HIDE DEF i
    <3> QED BY <3>1, <3>2, <3>3 DEF SameAt, Places, n
  <2>9. i \in Places(a)
    BY <2>7 DEF Places, n
  <2> HIDE DEF i
  <2> QED BY <2>8, <2>9 DEF Agree
<1>5. ASSUME Agree(a, b, offset, minMatch)
      PROVE  count[n] >= minMatch
  <2>1. PICK i \in Places(a) : \A k \in 0 .. minMatch - 1 :
          /\ i + k \in Places(a)
          /\ Has(b, a.begin + i + k - 1 + offset)
          /\ Get(b, a.begin + i + k - 1 + offset) = a.samples[i + k]
    BY <1>5 DEF Agree
  <2>2. i \in 1 .. n
    BY <2>1 DEF Places, n
  <2> DEFINE S == {k \in Nat : k <= minMatch => count[i - 1 + k] >= k /\ i - 1 + k <= n}
  <2>3. 0 \in S
    BY <1>1, <1>3, <2>2
  <2>4. ASSUME NEW k \in Nat, k \in S PROVE k + 1 \in S
    <3> SUFFICES ASSUME k + 1 <= minMatch
                 PROVE  count[i + k] >= k + 1 /\ i + k <= n
      BY <1>1, <2>2
    <3>1. /\ i + k \in 1 .. n
          /\ Has(b, a.begin + i + k - 1 + offset)
          /\ Get(b, a.begin + i + k - 1 + offset) = a.samples[i + k]
      <4>1. k \in 0 .. minMatch - 1
        OBVIOUS
      <4> QED BY <2>1, <4>1 DEF Places, n
    <3>2. count[i - 1 + k] >= k /\ i - 1 + k \in Nat /\ count[i - 1 + k] \in Nat
      BY <1>1, <1>3, <2>2, <2>4, <3>1
    <3>3. count[i + k] = CountTo(a, b, offset, minMatch, count[i - 1 + k], i + k)
      <4>1. i - 1 + k \in Nat /\ (i - 1 + k) + 1 = i + k /\ i + k <= n
        BY <1>1, <2>2, <3>1
      <4> QED BY <1>3, <4>1
    <3>4. a.begin + (i + k) - 1 + offset = a.begin + i + k - 1 + offset
      BY <1>1, <2>2
    <3> DEFINE c == count[i - 1 + k]
               p == i + k
               pos == a.begin + p - 1 + offset
    <3>5. c \in Nat /\ c >= k /\ Has(b, pos) /\ Get(b, pos) = a.samples[p]
      BY <3>1, <3>2, <3>4
    <3> HIDE DEF c, p
    <3>6. CountTo(a, b, offset, minMatch, c, p) >= k + 1
      BY <3>5 DEF CountTo
    <3> QED BY <3>1, <3>3, <3>6 DEF c, p
  <2>5. \A k \in Nat : k \in S
    <3> HIDE DEF S
    <3> QED BY <2>3, <2>4, InductionOnSet
  <2> DEFINE first == i - 1 + minMatch
  <2>6. first \in 0 .. n /\ count[first] >= minMatch
    BY <1>1, <2>2, <2>5
  <2> HIDE DEF first
  <2> DEFINE T == {k \in Nat : first + k <= n => count[first + k] >= minMatch}
  <2>7. 0 \in T
    BY <2>6
  <2>8. ASSUME NEW k \in Nat, k \in T PROVE k + 1 \in T
    <3> SUFFICES ASSUME first + k + 1 <= n
                 PROVE  count[first + k + 1] >= minMatch
      BY <1>1, <2>6
    <3> DEFINE c == count[first + k]
    <3>1. c \in Nat /\ c >= minMatch
      BY <1>1, <1>3, <2>6, <2>8
    <3>2. count[first + k + 1] = CountTo(a, b, offset, minMatch, c, first + k + 1)
      BY <1>1, <1>3, <2>6
    <3> HIDE DEF c
    <3> QED BY <3>1, <3>2 DEF CountTo
  <2>9. n - first \in T
    <3>1. n - first \in Nat
      BY <1>1, <2>6
    <3> HIDE DEF T
    <3> QED BY <2>7, <2>8, <3>1, InductionOnSet
  <2>10. first + (n - first) = n
    BY <1>1, <2>6
  <2> QED BY <1>1, <2>9, <2>10
<1> QED BY <1>2, <1>4, <1>5
=============================================================================
