-------------------------- MODULE FragmentsProofs --------------------------
(***************************************************************************)
(* The blocks and the root of Fragments for every disc, batch and sample:  *)
(* what a merge holds, position by position, and that what is verified     *)
(* stays, and was verified by the batch it came from.                      *)
(***************************************************************************)
EXTENDS Fragments, SequenceTheorems, Induction

-----------------------------------------------------------------------------
(* The index arithmetic of the block merges, for blocks of any length and  *)
(* position: what each merge holds, position by position.  Samples and     *)
(* flags go through the same arithmetic, so the lemmas speak of a sequence *)
(* s that starts at position b and of what it has at position p.           *)

At(s, b, p) == s[p - b + 1]

(* t, which starts at c, with what s has before it, and what s has after it *)
Prefixed(s, b, t, c) == FirstOf(s, c - b) \o t
Suffixed(s, b, t, c) == t \o RestFrom(s, (c + Len(t)) - b)

TwoSequences(S, s, b, t, c) == s \in Seq(S) /\ t \in Seq(S) /\ b \in Int /\ c \in Int

PrefixFits(S, s, b, t, c) ==
  TwoSequences(S, s, b, t, c) /\ b <= c /\ c <= b + Len(s)
IsPrefixed(u, S, s, b, t, c) ==
  /\ u \in Seq(S)
  /\ Len(u) = (c - b) + Len(t)
  /\ \A p \in b .. (c - 1) : At(u, b, p) = At(s, b, p)
  /\ \A p \in c .. (c + Len(t) - 1) : At(u, b, p) = At(t, c, p)

SuffixFits(S, s, b, t, c) ==
  TwoSequences(S, s, b, t, c) /\ b <= c + Len(t) /\ c + Len(t) <= b + Len(s)
IsSuffixed(u, S, s, b, t, c) ==
  /\ u \in Seq(S)
  /\ Len(u) = (b + Len(s)) - c
  /\ \A p \in c .. (c + Len(t) - 1) : At(u, c, p) = At(t, c, p)
  /\ \A p \in (c + Len(t)) .. (b + Len(s) - 1) : At(u, c, p) = At(s, b, p)

LEMMA FirstOfProperties ==
  ASSUME NEW S, NEW s \in Seq(S), NEW n \in 0 .. Len(s)
  PROVE  /\ FirstOf(s, n) \in Seq(S)
         /\ Len(FirstOf(s, n)) = n
         /\ \A i \in 1 .. n : FirstOf(s, n)[i] = s[i]
<1>1. \A i \in 1 .. n : s[i] \in S
  OBVIOUS
<1> QED
  BY <1>1, SubSeqProperties DEF FirstOf

LEMMA RestFromProperties ==
  ASSUME NEW S, NEW s \in Seq(S), NEW n \in 0 .. Len(s)
  PROVE  /\ RestFrom(s, n) \in Seq(S)
         /\ Len(RestFrom(s, n)) = Len(s) - n
         /\ \A i \in 1 .. Len(s) - n : RestFrom(s, n)[i] = s[n + i]
<1>1. \A i \in n + 1 .. Len(s) : s[i] \in S
  OBVIOUS
<1>2. /\ RestFrom(s, n) \in Seq(S)
      /\ Len(RestFrom(s, n)) = IF n + 1 <= Len(s) THEN Len(s) - (n + 1) + 1 ELSE 0
      /\ \A i \in 1 .. Len(s) - (n + 1) + 1 : RestFrom(s, n)[i] = s[(n + 1) + i - 1]
  BY <1>1, SubSeqProperties DEF RestFrom
<1> QED
  BY <1>2

(* A prefix of s put before t: below c the result is s, from c on it is t. *)
LEMMA PrefixedAt ==
  ASSUME NEW S, NEW s, NEW b, NEW t, NEW c, PrefixFits(S, s, b, t, c)
  PROVE  IsPrefixed(Prefixed(s, b, t, c), S, s, b, t, c)
<1> DEFINE n == c - b
           h == FirstOf(s, n)
           u == Prefixed(s, b, t, c)
<1>0. TwoSequences(S, s, b, t, c) /\ b <= c /\ c <= b + Len(s)
  BY DEF PrefixFits
<1> USE <1>0 DEF TwoSequences
<1>1. n \in 0 .. Len(s) /\ Len(s) \in Nat /\ Len(t) \in Nat
  OBVIOUS
<1>2. h \in Seq(S) /\ Len(h) = n /\ \A i \in 1 .. n : h[i] = s[i]
  BY <1>1, FirstOfProperties
<1> HIDE DEF h
<1>3. /\ h \o t \in Seq(S)
      /\ Len(h \o t) = Len(h) + Len(t)
      /\ \A i \in 1 .. Len(h) + Len(t) :
           (h \o t)[i] = IF i <= Len(h) THEN h[i] ELSE t[i - Len(h)]
  BY <1>2, ConcatProperties
<1>4. u = h \o t
  BY DEF h, Prefixed
<1> HIDE DEF u
<1>5. /\ u \in Seq(S) /\ Len(u) = n + Len(t)
      /\ \A i \in 1 .. n + Len(t) : u[i] = IF i <= n THEN s[i] ELSE t[i - n]
  <2>1. u \in Seq(S) /\ Len(u) = n + Len(t)
    BY <1>2, <1>3, <1>4
  <2>2. ASSUME NEW i \in 1 .. n + Len(t)
        PROVE  u[i] = IF i <= n THEN s[i] ELSE t[i - n]
    <3>1. (h \o t)[i] = IF i <= n THEN h[i] ELSE t[i - n]
      BY <1>2, <1>3
    <3>2. i <= n => h[i] = s[i]
      BY <1>1, <1>2
    <3> QED
      BY <1>4, <3>1, <3>2
  <2> QED
    BY <2>1, <2>2
<1>6. ASSUME NEW p \in b .. (c - 1)
      PROVE  At(u, b, p) = At(s, b, p)
  <2>1. p - b + 1 \in 1 .. n + Len(t) /\ p - b + 1 <= n
    BY <1>1
  <2> QED
    BY <1>5, <2>1 DEF At
<1>7. ASSUME NEW p \in c .. (c + Len(t) - 1)
      PROVE  At(u, b, p) = At(t, c, p)
  <2>1. /\ p - b + 1 \in 1 .. n + Len(t) /\ ~(p - b + 1 <= n)
        /\ (p - b + 1) - n = p - c + 1
    BY <1>1
  <2> QED
    BY <1>5, <2>1 DEF At
<1> QED
  BY <1>5, <1>6, <1>7 DEF u, IsPrefixed

(* The rest of s, from position e on, put after t, which ends at e. *)
LEMMA SuffixedAt ==
  ASSUME NEW S, NEW s, NEW b, NEW t, NEW c, SuffixFits(S, s, b, t, c)
  PROVE  IsSuffixed(Suffixed(s, b, t, c), S, s, b, t, c)
<1> DEFINE n == (c + Len(t)) - b
           r == RestFrom(s, n)
           u == Suffixed(s, b, t, c)
<1>0. TwoSequences(S, s, b, t, c) /\ b <= c + Len(t) /\ c + Len(t) <= b + Len(s)
  BY DEF SuffixFits
<1> USE <1>0 DEF TwoSequences
<1>1. n \in 0 .. Len(s) /\ Len(s) \in Nat /\ Len(t) \in Nat
  OBVIOUS
<1>2. r \in Seq(S) /\ Len(r) = Len(s) - n /\ \A i \in 1 .. Len(s) - n : r[i] = s[n + i]
  BY <1>1, RestFromProperties
<1> HIDE DEF r
<1>3. /\ t \o r \in Seq(S)
      /\ Len(t \o r) = Len(t) + Len(r)
      /\ \A i \in 1 .. Len(t) + Len(r) :
           (t \o r)[i] = IF i <= Len(t) THEN t[i] ELSE r[i - Len(t)]
  BY <1>2, ConcatProperties
<1>4. u = t \o r
  BY DEF r, Suffixed
<1> HIDE DEF u
<1>5. /\ u \in Seq(S) /\ Len(u) = (b + Len(s)) - c
      /\ \A i \in 1 .. Len(u) : u[i] = IF i <= Len(t) THEN t[i] ELSE r[i - Len(t)]
  <2>1. u \in Seq(S) /\ Len(u) = Len(t) + Len(r)
    BY <1>3, <1>4
  <2>2. \A i \in 1 .. Len(u) : u[i] = IF i <= Len(t) THEN t[i] ELSE r[i - Len(t)]
    BY <1>3, <1>4, <2>1
  <2> QED
    BY <1>1, <1>2, <2>1, <2>2
<1>6. ASSUME NEW p \in c .. (c + Len(t) - 1)
      PROVE  At(u, c, p) = At(t, c, p)
  <2>1. p - c + 1 \in 1 .. Len(u) /\ p - c + 1 <= Len(t)
    BY <1>1, <1>5
  <2> QED
    BY <1>5, <2>1 DEF At
<1>7. ASSUME NEW p \in (c + Len(t)) .. (b + Len(s) - 1)
      PROVE  At(u, c, p) = At(s, b, p)
  <2>1. /\ p - c + 1 \in 1 .. Len(u) /\ ~(p - c + 1 <= Len(t))
        /\ (p - c + 1) - Len(t) \in 1 .. Len(s) - n
        /\ n + ((p - c + 1) - Len(t)) = p - b + 1
    BY <1>1, <1>5
  <2>2. u[p - c + 1] = r[(p - c + 1) - Len(t)]
    BY <1>5, <2>1
  <2>3. r[(p - c + 1) - Len(t)] = s[n + ((p - c + 1) - Len(t))]
    BY <1>2, <2>1
  <2> QED
    BY <2>1, <2>2, <2>3 DEF At
<1> QED
  BY <1>5, <1>6, <1>7 DEF u, IsSuffixed

-----------------------------------------------------------------------------
LEMMA BlockType ==
  ASSUME NEW f, WellFormed(f)
  PROVE  /\ f.begin \in Int /\ f.vector \in Seq(Values) /\ f.flags \in Seq(BOOLEAN)
         /\ Len(f.vector) \in Nat /\ Len(f.flags) = Len(f.vector)
         /\ BlockEnd(f) \in Int /\ f.begin <= BlockEnd(f)
         /\ BlockEnd(f) = f.begin + Len(f.vector)
  BY DEF WellFormed, Block, BlockEnd

(* A block e that agrees with f at the positions P: samples and flags. *)
Agrees(e, f, P) ==
  /\ \A p \in P : At(e.vector, e.begin, p) = At(f.vector, f.begin, p)
  /\ \A p \in P : At(e.flags, e.begin, p) = At(f.flags, f.begin, p)

Least(f, g)    == IF g.begin < f.begin THEN g.begin ELSE f.begin
Furthest(f, g) == IF BlockEnd(g) > BlockEnd(f) THEN BlockEnd(g) ELSE BlockEnd(f)

LEMMA PrependedAgrees ==
  ASSUME NEW f, NEW g, WellFormed(f), WellFormed(g), f.begin <= BlockEnd(g),
         NEW e, e = Prepended(f, g)
  PROVE  /\ WellFormed(e)
         /\ e.begin = Least(f, g) /\ BlockEnd(e) = BlockEnd(f)
         /\ Agrees(e, g, e.begin .. (f.begin - 1))
         /\ Agrees(e, f, f.begin .. (BlockEnd(f) - 1))
<1>f. /\ f.begin \in Int /\ f.vector \in Seq(Values) /\ f.flags \in Seq(BOOLEAN)
      /\ Len(f.vector) \in Nat /\ Len(f.flags) = Len(f.vector)
      /\ BlockEnd(f) = f.begin + Len(f.vector)
  BY BlockType
<1>g. /\ g.begin \in Int /\ g.vector \in Seq(Values) /\ g.flags \in Seq(BOOLEAN)
      /\ Len(g.vector) \in Nat /\ Len(g.flags) = Len(g.vector)
      /\ BlockEnd(g) = g.begin + Len(g.vector)
  BY BlockType
<1>1. CASE g.begin < f.begin
  <2> DEFINE v == Prefixed(g.vector, g.begin, f.vector, f.begin)
             w == Prefixed(g.flags, g.begin, f.flags, f.begin)
  <2>1. e = [begin |-> g.begin, vector |-> v, flags |-> w]
    BY <1>1 DEF Prepended, Prefixed
  <2>2. /\ v \in Seq(Values) /\ Len(v) = (f.begin - g.begin) + Len(f.vector)
        /\ \A p \in g.begin .. (f.begin - 1) : At(v, g.begin, p) = At(g.vector, g.begin, p)
        /\ \A p \in f.begin .. (f.begin + Len(f.vector) - 1) :
             At(v, g.begin, p) = At(f.vector, f.begin, p)
    <3>1. PrefixFits(Values, g.vector, g.begin, f.vector, f.begin)
      BY <1>1, <1>f, <1>g DEF PrefixFits, TwoSequences
    <3>2. IsPrefixed(v, Values, g.vector, g.begin, f.vector, f.begin)
      BY <3>1, PrefixedAt
    <3> QED
      BY <3>2 DEF IsPrefixed
  <2>3. /\ w \in Seq(BOOLEAN) /\ Len(w) = (f.begin - g.begin) + Len(f.flags)
        /\ \A p \in g.begin .. (f.begin - 1) : At(w, g.begin, p) = At(g.flags, g.begin, p)
        /\ \A p \in f.begin .. (f.begin + Len(f.flags) - 1) :
             At(w, g.begin, p) = At(f.flags, f.begin, p)
    <3>1. PrefixFits(BOOLEAN, g.flags, g.begin, f.flags, f.begin)
      BY <1>1, <1>f, <1>g DEF PrefixFits, TwoSequences
    <3>2. IsPrefixed(w, BOOLEAN, g.flags, g.begin, f.flags, f.begin)
      BY <3>1, PrefixedAt
    <3> QED
      BY <3>2 DEF IsPrefixed
  <2> HIDE DEF v, w
  <2>4. e.begin = g.begin /\ e.vector = v /\ e.flags = w
    BY <2>1
  <2>5. WellFormed(e)
    BY <1>f, <1>g, <2>1, <2>2, <2>3 DEF WellFormed, Block
  <2>6. e.begin = Least(f, g) /\ BlockEnd(e) = BlockEnd(f)
    <3>1. e.begin = Least(f, g)
      BY <1>1, <2>4 DEF Least
    <3>2. BlockEnd(e) = g.begin + ((f.begin - g.begin) + Len(f.vector))
      BY <2>2, <2>4 DEF BlockEnd
    <3> QED
      BY <1>f, <1>g, <3>1, <3>2
  <2>7. Agrees(e, g, e.begin .. (f.begin - 1))
    BY <2>2, <2>3, <2>4 DEF Agrees
  <2>8. Agrees(e, f, f.begin .. (BlockEnd(f) - 1))
    BY <1>f, <2>2, <2>3, <2>4 DEF Agrees
  <2> QED
    BY <2>5, <2>6, <2>7, <2>8
<1>2. CASE ~(g.begin < f.begin)
  <2>1. e = f
    BY <1>2 DEF Prepended
  <2>2. e.begin .. (f.begin - 1) = {}
    BY <1>f, <2>1
  <2> QED
    BY <1>2, <2>1, <2>2 DEF Agrees, Least
<1> QED
  BY <1>1, <1>2

LEMMA AppendedAgrees ==
  ASSUME NEW f, NEW g, WellFormed(f), WellFormed(g), g.begin <= BlockEnd(f),
         NEW e, e = Appended(f, g)
  PROVE  /\ WellFormed(e)
         /\ e.begin = f.begin /\ BlockEnd(e) = Furthest(f, g)
         /\ Agrees(e, f, f.begin .. (BlockEnd(f) - 1))
         /\ Agrees(e, g, BlockEnd(f) .. (BlockEnd(e) - 1))
<1>f. /\ f.begin \in Int /\ f.vector \in Seq(Values) /\ f.flags \in Seq(BOOLEAN)
      /\ Len(f.vector) \in Nat /\ Len(f.flags) = Len(f.vector)
      /\ BlockEnd(f) = f.begin + Len(f.vector)
  BY BlockType
<1>g. /\ g.begin \in Int /\ g.vector \in Seq(Values) /\ g.flags \in Seq(BOOLEAN)
      /\ Len(g.vector) \in Nat /\ Len(g.flags) = Len(g.vector)
      /\ BlockEnd(g) = g.begin + Len(g.vector)
  BY BlockType
<1>1. CASE BlockEnd(g) > BlockEnd(f)
  <2> DEFINE v == Suffixed(g.vector, g.begin, f.vector, f.begin)
             w == Suffixed(g.flags, g.begin, f.flags, f.begin)
  <2>1. e = [begin |-> f.begin, vector |-> v, flags |-> w]
    BY <1>1, <1>f DEF Appended, Suffixed
  <2>2. /\ v \in Seq(Values) /\ Len(v) = (g.begin + Len(g.vector)) - f.begin
        /\ \A p \in f.begin .. (f.begin + Len(f.vector) - 1) :
             At(v, f.begin, p) = At(f.vector, f.begin, p)
        /\ \A p \in (f.begin + Len(f.vector)) .. (g.begin + Len(g.vector) - 1) :
             At(v, f.begin, p) = At(g.vector, g.begin, p)
    <3>1. SuffixFits(Values, g.vector, g.begin, f.vector, f.begin)
      BY <1>1, <1>f, <1>g DEF SuffixFits, TwoSequences
    <3>2. IsSuffixed(v, Values, g.vector, g.begin, f.vector, f.begin)
      BY <3>1, SuffixedAt
    <3> QED
      BY <3>2 DEF IsSuffixed
  <2>3. /\ w \in Seq(BOOLEAN) /\ Len(w) = (g.begin + Len(g.flags)) - f.begin
        /\ \A p \in f.begin .. (f.begin + Len(f.flags) - 1) :
             At(w, f.begin, p) = At(f.flags, f.begin, p)
        /\ \A p \in (f.begin + Len(f.flags)) .. (g.begin + Len(g.flags) - 1) :
             At(w, f.begin, p) = At(g.flags, g.begin, p)
    <3>1. SuffixFits(BOOLEAN, g.flags, g.begin, f.flags, f.begin)
      BY <1>1, <1>f, <1>g DEF SuffixFits, TwoSequences
    <3>2. IsSuffixed(w, BOOLEAN, g.flags, g.begin, f.flags, f.begin)
      BY <3>1, SuffixedAt
    <3> QED
      BY <3>2 DEF IsSuffixed
  <2> HIDE DEF v, w
  <2>4. e.begin = f.begin /\ e.vector = v /\ e.flags = w
    BY <2>1
  <2>5. WellFormed(e)
    BY <1>f, <1>g, <2>1, <2>2, <2>3 DEF WellFormed, Block
  <2>6. e.begin = f.begin /\ BlockEnd(e) = BlockEnd(g) /\ BlockEnd(e) = Furthest(f, g)
    BY <1>1, <1>f, <1>g, <2>2, <2>4 DEF Furthest, BlockEnd
  <2>7. Agrees(e, f, f.begin .. (BlockEnd(f) - 1))
    BY <1>f, <2>2, <2>3, <2>4 DEF Agrees
  <2>8. Agrees(e, g, BlockEnd(f) .. (BlockEnd(e) - 1))
    BY <1>f, <1>g, <2>2, <2>3, <2>4, <2>6, SMTT(60) DEF Agrees
  <2> QED
    BY <2>5, <2>6, <2>7, <2>8
<1>2. CASE ~(BlockEnd(g) > BlockEnd(f))
  <2>1. e = f
    BY <1>2 DEF Appended
  <2>2. BlockEnd(f) .. (BlockEnd(e) - 1) = {}
    BY <1>f, <2>1
  <2> QED
    BY <1>2, <2>1, <2>2 DEF Agrees, Furthest
<1> QED
  BY <1>1, <1>2

LEMMA ExtendedAgrees ==
  ASSUME NEW f, NEW g, WellFormed(f), WellFormed(g), ~Apart(f, g),
         NEW e, e = Extended(f, g)
  PROVE  /\ WellFormed(e)
         /\ e.begin = Least(f, g) /\ BlockEnd(e) = Furthest(f, g)
         /\ Agrees(e, f, f.begin .. (BlockEnd(f) - 1))
         /\ Agrees(e, g, e.begin .. (f.begin - 1))
         /\ Agrees(e, g, BlockEnd(f) .. (BlockEnd(e) - 1))
<1> DEFINE d == Prepended(f, g)
<1>1. /\ f.begin \in Int /\ g.begin \in Int /\ BlockEnd(f) \in Int /\ BlockEnd(g) \in Int
      /\ f.begin <= BlockEnd(f) /\ f.begin <= BlockEnd(g) /\ g.begin <= BlockEnd(f)
  BY BlockType DEF Apart
<1>2. /\ WellFormed(d) /\ d.begin = Least(f, g) /\ BlockEnd(d) = BlockEnd(f)
      /\ Agrees(d, g, d.begin .. (f.begin - 1))
      /\ Agrees(d, f, f.begin .. (BlockEnd(f) - 1))
  BY <1>1, PrependedAgrees
<1>3. e = Appended(d, g)
  BY DEF Extended
<1> HIDE DEF d
<1>4. /\ WellFormed(e) /\ e.begin = d.begin /\ BlockEnd(e) = Furthest(d, g)
      /\ Agrees(e, d, d.begin .. (BlockEnd(d) - 1))
      /\ Agrees(e, g, BlockEnd(d) .. (BlockEnd(e) - 1))
  BY <1>1, <1>2, <1>3, AppendedAgrees
<1>5. BlockEnd(e) = Furthest(f, g) /\ d.begin <= f.begin
  BY <1>1, <1>2, <1>4 DEF Furthest, Least
<1>6. Agrees(e, f, f.begin .. (BlockEnd(f) - 1))
  <2>1. f.begin .. (BlockEnd(f) - 1) \subseteq d.begin .. (BlockEnd(d) - 1)
    BY <1>1, <1>2, <1>5 DEF Least
  <2> QED
    BY <1>2, <1>4, <2>1, Zenon DEF Agrees
<1>7. Agrees(e, g, e.begin .. (f.begin - 1))
  <2>1. e.begin .. (f.begin - 1) \subseteq d.begin .. (BlockEnd(d) - 1)
    BY <1>1, <1>2, <1>4 DEF Least
  <2> QED
    BY <1>2, <1>4, <2>1, Zenon DEF Agrees
<1> QED
  BY <1>2, <1>4, <1>5, <1>6, <1>7

-----------------------------------------------------------------------------
(* m is x with the verified samples of f at W that x does not vouch for *)
Preferred(m, x, f, W) ==
  /\ WellFormed(m) /\ m.begin = x.begin /\ BlockEnd(m) = BlockEnd(x)
  /\ \A p \in x.begin .. (BlockEnd(x) - 1) :
       /\ Sample(m, p) = IF p \in W /\ IsVerified(f, p) /\ ~IsVerified(x, p)
                         THEN Sample(f, p) ELSE Sample(x, p)
       /\ IsVerified(m, p) = (IsVerified(x, p) \/ (p \in W /\ IsVerified(f, p)))

LEMMA PreferVerifiedAt ==
  ASSUME NEW x, NEW f, NEW W, WellFormed(x), WellFormed(f),
         W \subseteq f.begin .. (BlockEnd(f) - 1)
  PROVE  Preferred(PreferVerified(x, f, W), x, f, W)
<1> DEFINE m == PreferVerified(x, f, W)
<1> DEFINE at(i) == x.begin + i - 1
           Takes(p) == p \in W /\ IsVerified(f, p)
           v == [i \in 1 .. Len(x.vector) |->
                   IF Takes(at(i)) /\ ~x.flags[i] THEN Sample(f, at(i)) ELSE x.vector[i]]
           w == [i \in 1 .. Len(x.flags) |-> x.flags[i] \/ Takes(at(i))]
<1>x. /\ x.begin \in Int /\ x.vector \in Seq(Values) /\ x.flags \in Seq(BOOLEAN)
      /\ Len(x.vector) \in Nat /\ Len(x.flags) = Len(x.vector)
      /\ BlockEnd(x) = x.begin + Len(x.vector)
  BY BlockType
<1>f. /\ f.begin \in Int /\ f.vector \in Seq(Values)
      /\ BlockEnd(f) = f.begin + Len(f.vector) /\ Len(f.vector) \in Nat
  BY BlockType
<1>1. m = [begin |-> x.begin, vector |-> v, flags |-> w]
  BY DEF PreferVerified
<1> HIDE DEF m
<1>2. v \in Seq(Values) /\ Len(v) = Len(x.vector)
  <2>1. ASSUME NEW p \in W
        PROVE  Sample(f, p) \in Values
    <3>1. p - f.begin + 1 \in 1 .. Len(f.vector)
      BY <1>f
    <3> QED
      BY <1>f, <3>1, ElementOfSeq DEF Sample
  <2>2. ASSUME NEW i \in 1 .. Len(x.vector)
        PROVE  v[i] \in Values
    BY <1>x, <2>1, ElementOfSeq
  <2>3. v \in [1 .. Len(x.vector) -> Values]
    BY <2>2
  <2> HIDE DEF v
  <2> QED
    BY <1>x, <2>3
<1>3. w \in Seq(BOOLEAN) /\ Len(w) = Len(x.vector)
  <2>1. w \in [1 .. Len(x.vector) -> BOOLEAN]
    BY <1>x, Zenon
  <2> HIDE DEF w
  <2> QED
    BY <1>x, <2>1
<1>4. m.begin = x.begin /\ m.vector = v /\ m.flags = w
  BY <1>1
<1>5. WellFormed(m)
  <2> HIDE DEF v, w
  <2> QED
    BY <1>x, <1>1, <1>2, <1>3 DEF WellFormed, Block
<1>6. BlockEnd(m) = BlockEnd(x)
  <2> HIDE DEF v, w
  <2> QED
    BY <1>2, <1>4 DEF BlockEnd
<1>7. ASSUME NEW p \in x.begin .. (BlockEnd(x) - 1)
      PROVE  /\ Sample(m, p) = IF p \in W /\ IsVerified(f, p) /\ ~IsVerified(x, p)
                               THEN Sample(f, p) ELSE Sample(x, p)
             /\ IsVerified(m, p) = (IsVerified(x, p) \/ (p \in W /\ IsVerified(f, p)))
  <2> DEFINE i == p - x.begin + 1
  <2>1. i \in 1 .. Len(x.vector) /\ i \in 1 .. Len(x.flags) /\ at(i) = p
    <3>1. p \in Int /\ x.begin <= p /\ p <= x.begin + Len(x.vector) - 1
      BY <1>x
    <3> HIDE DEF v, w, Takes
    <3> QED
      BY SMTT(60), <1>x, <3>1
  <2>2. Sample(m, p) = v[i] /\ IsVerified(m, p) = w[i]
    BY <1>4, Zenon DEF Sample, IsVerified
  <2>3. Sample(x, p) = x.vector[i] /\ IsVerified(x, p) = x.flags[i]
    BY Zenon DEF Sample, IsVerified
  <2> HIDE DEF i
  <2>4. v[i] = IF Takes(p) /\ ~x.flags[i] THEN Sample(f, p) ELSE x.vector[i]
    BY <2>1, Zenon
  <2>5. w[i] = (x.flags[i] \/ Takes(p))
    BY <2>1, Zenon
  <2> HIDE DEF v, w
  <2> QED
    BY <2>2, <2>3, <2>4, <2>5, Zenon
<1> QED
  BY <1>4, <1>5, <1>6, <1>7 DEF Preferred, m

(* RootBlock::merge_fragment on a batch the root does not stand apart from *)
(* gives a well-formed root that is, at every position, what was promised. *)
THEOREM MergeFragmentPointwise ==
  ASSUME NEW r, NEW f, WellFormed(r), WellFormed(f),
         ~IsEmpty(r), ~IsEmpty(f), ~MergePanics(r, f)
  PROVE  WellFormed(MergeFragment(r, f)) /\ MergedPointwise(r, f, MergeFragment(r, f))
<1> DEFINE x == Extended(r, f)
           W == Overlap(r, f)
           m == MergeFragment(r, f)
<1>r. /\ r.begin \in Int /\ BlockEnd(r) \in Int /\ r.begin <= BlockEnd(r)
  BY BlockType
<1>f. /\ f.begin \in Int /\ BlockEnd(f) \in Int /\ f.begin <= BlockEnd(f)
  BY BlockType
<1>1. ~Apart(r, f)
  BY DEF MergePanics
<1>2. /\ WellFormed(x) /\ x.begin = Least(r, f) /\ BlockEnd(x) = Furthest(r, f)
      /\ Agrees(x, r, r.begin .. (BlockEnd(r) - 1))
      /\ Agrees(x, f, x.begin .. (r.begin - 1))
      /\ Agrees(x, f, BlockEnd(r) .. (BlockEnd(x) - 1))
  BY <1>1, ExtendedAgrees
<1>3. \A p \in Int : p \in W <=> Holds(r, p) /\ Holds(f, p)
  BY <1>r, <1>f DEF Overlap, OverlapBegin, OverlapEnd, Holds
<1>4. W \subseteq f.begin .. (BlockEnd(f) - 1)
  BY <1>r, <1>f DEF Overlap, OverlapBegin, OverlapEnd
<1>5. m = PreferVerified(x, f, W)
  BY DEF MergeFragment
<1> HIDE DEF x, W, m
<1>6. /\ WellFormed(m) /\ m.begin = x.begin /\ BlockEnd(m) = BlockEnd(x)
      /\ \A p \in x.begin .. (BlockEnd(x) - 1) :
           /\ Sample(m, p) = IF p \in W /\ IsVerified(f, p) /\ ~IsVerified(x, p)
                             THEN Sample(f, p) ELSE Sample(x, p)
           /\ IsVerified(m, p) = (IsVerified(x, p) \/ (p \in W /\ IsVerified(f, p)))
  <2>1. Preferred(PreferVerified(x, f, W), x, f, W)
    BY <1>2, <1>4, PreferVerifiedAt
  <2> QED
    BY <1>5, <2>1, Zenon DEF Preferred
<1>7. ASSUME NEW p \in m.begin .. (BlockEnd(m) - 1)
      PROVE  /\ Sample(m, p) =
                  IF Holds(r, p) /\ ~(Holds(f, p) /\ IsVerified(f, p) /\ ~IsVerified(r, p))
                  THEN Sample(r, p) ELSE Sample(f, p)
             /\ IsVerified(m, p) =
                  \/ Holds(r, p) /\ IsVerified(r, p)
                  \/ Holds(f, p) /\ IsVerified(f, p)
  <2>1. p \in Int /\ p \in x.begin .. (BlockEnd(x) - 1)
    BY <1>r, <1>f, <1>2, <1>6 DEF Least, Furthest
  <2>2. /\ Sample(m, p) = IF p \in W /\ IsVerified(f, p) /\ ~IsVerified(x, p)
                          THEN Sample(f, p) ELSE Sample(x, p)
        /\ IsVerified(m, p) = (IsVerified(x, p) \/ (p \in W /\ IsVerified(f, p)))
    BY <1>6, <2>1
  <2>3. CASE Holds(r, p)
    <3>1. p \in r.begin .. (BlockEnd(r) - 1)
      BY <1>r, <2>1, <2>3 DEF Holds
    <3>2. Sample(x, p) = Sample(r, p) /\ IsVerified(x, p) = IsVerified(r, p)
      BY <1>2, <3>1, Zenon DEF Agrees, At, Sample, IsVerified
    <3>3. p \in W <=> Holds(f, p)
      BY <1>3, <2>1, <2>3
    <3> QED
      BY <2>2, <2>3, <3>2, <3>3, Zenon
  <2>4. CASE ~Holds(r, p)
    <3>1. \/ p \in x.begin .. (r.begin - 1)
          \/ p \in BlockEnd(r) .. (BlockEnd(x) - 1)
      BY <1>r, <1>f, <1>2, <2>1, <2>4 DEF Holds, Least, Furthest
    <3>2. Sample(x, p) = Sample(f, p) /\ IsVerified(x, p) = IsVerified(f, p)
      BY <1>2, <3>1, Zenon DEF Agrees, At, Sample, IsVerified
    <3>3. p \notin W /\ Holds(f, p)
      BY <1>r, <1>f, <1>1, <1>2, <1>3, <2>1, <2>4, <3>1 DEF Holds, Least, Furthest, Apart
    <3> QED
      BY <2>2, <2>4, <3>2, <3>3, Zenon
  <2> QED
    BY <2>3, <2>4
<1> QED
  BY <1>2, <1>6, <1>7 DEF MergedPointwise, Least, Furthest, m

-----------------------------------------------------------------------------
(* The fragments' own merge *)

LEMMA ConfirmedAgrees ==
  ASSUME NEW f, WellFormed(f), NEW W, NEW e, e = Confirmed(f, W)
  PROVE  /\ WellFormed(e) /\ e.begin = f.begin /\ BlockEnd(e) = BlockEnd(f)
         /\ \A p \in f.begin .. (BlockEnd(f) - 1) :
              /\ Sample(e, p) = Sample(f, p)
              /\ IsVerified(e, p) = (IsVerified(f, p) \/ p \in W)
<1> DEFINE w == [i \in 1 .. Len(f.flags) |-> f.flags[i] \/ f.begin + i - 1 \in W]
<1>f. /\ f.begin \in Int /\ f.vector \in Seq(Values) /\ f.flags \in Seq(BOOLEAN)
      /\ Len(f.vector) \in Nat /\ Len(f.flags) = Len(f.vector)
      /\ BlockEnd(f) = f.begin + Len(f.vector)
      /\ f = [begin |-> f.begin, vector |-> f.vector, flags |-> f.flags]
  BY BlockType DEF WellFormed, Block
<1>1. e = [begin |-> f.begin, vector |-> f.vector, flags |-> w]
  BY <1>f DEF Confirmed
<1>2. w \in [1 .. Len(f.flags) -> BOOLEAN]
  BY <1>f
<1>3. \A i \in 1 .. Len(f.flags) : w[i] = (f.flags[i] \/ f.begin + i - 1 \in W)
  OBVIOUS
<1> HIDE DEF w
<1>4. w \in Seq(BOOLEAN) /\ Len(w) = Len(f.flags)
  BY <1>f, <1>2
<1>5. WellFormed(e) /\ e.begin = f.begin /\ BlockEnd(e) = BlockEnd(f)
  BY <1>f, <1>1, <1>4 DEF WellFormed, Block, BlockEnd
<1>6. ASSUME NEW p \in f.begin .. (BlockEnd(f) - 1)
      PROVE  /\ Sample(e, p) = Sample(f, p)
             /\ IsVerified(e, p) = (IsVerified(f, p) \/ p \in W)
  <2>1. p - f.begin + 1 \in 1 .. Len(f.flags) /\ f.begin + (p - f.begin + 1) - 1 = p
    BY <1>f
  <2>2. w[p - f.begin + 1] = (f.flags[p - f.begin + 1] \/ p \in W)
    BY <1>3, <2>1
  <2> QED
    BY <1>1, <2>2 DEF Sample, IsVerified
<1> QED
  BY <1>5, <1>6

(* What try_merge makes of f, position by position, if it merges g into f. *)
TriedPointwise(f, g, m) ==
  /\ WellFormed(m) /\ m.begin = Least(f, g)
  /\ \A p \in m.begin .. (BlockEnd(m) - 1) :
       \/ /\ Holds(f, p) /\ Sample(m, p) = Sample(f, p)
          /\ IsVerified(m, p) =>
               IsVerified(f, p) \/ (Holds(g, p) /\ Sample(g, p) = Sample(f, p))
       \/ /\ Holds(g, p) /\ Sample(m, p) = Sample(g, p)
          /\ IsVerified(m, p) => IsVerified(g, p)

LEMMA TryMergePointwise ==
  ASSUME NEW f, NEW g, WellFormed(f), WellFormed(g), NEW m, m = TryMerge(f, g)
  PROVE  m = f \/ TriedPointwise(f, g, m)
<1>1. CASE ~CanMerge(f, g)
  BY <1>1 DEF TryMerge
<1>2. CASE CanMerge(f, g)
  <2> DEFINE W == Overlap(f, g)
             x == Confirmed(f, W)
  <2>f. f.begin \in Int /\ BlockEnd(f) \in Int /\ f.begin <= BlockEnd(f)
    BY BlockType
  <2>g. g.begin \in Int /\ BlockEnd(g) \in Int /\ g.begin <= BlockEnd(g)
    BY BlockType
  <2>1. /\ WellFormed(x) /\ x.begin = f.begin /\ BlockEnd(x) = BlockEnd(f)
        /\ \A p \in f.begin .. (BlockEnd(f) - 1) :
             /\ Sample(x, p) = Sample(f, p)
             /\ IsVerified(x, p) = (IsVerified(f, p) \/ p \in W)
    BY ConfirmedAgrees
  <2>2. m = Extended(x, g)
    BY <1>2 DEF TryMerge
  <2>3. \A p \in W : Holds(g, p) /\ Sample(g, p) = Sample(f, p)
    <3>1. \A p \in W : Sample(f, p) = Sample(g, p)
      BY <1>2 DEF CanMerge
    <3>2. \A p \in W : Holds(g, p)
      BY <2>f, <2>g DEF Overlap, OverlapBegin, OverlapEnd, Holds
    <3> QED
      BY <3>1, <3>2
  <2> HIDE DEF x, W
  <2>4. ~Apart(x, g)
    BY <1>2, <2>1 DEF CanMerge, Apart
  <2>5. /\ WellFormed(m) /\ m.begin = Least(x, g) /\ BlockEnd(m) = Furthest(x, g)
        /\ Agrees(m, x, x.begin .. (BlockEnd(x) - 1))
        /\ Agrees(m, g, m.begin .. (x.begin - 1))
        /\ Agrees(m, g, BlockEnd(x) .. (BlockEnd(m) - 1))
    BY <2>1, <2>2, <2>4, ExtendedAgrees
  <2>6. m.begin = Least(f, g) /\ BlockEnd(m) = Furthest(f, g)
    BY <2>1, <2>5 DEF Least, Furthest
  <2>7. ASSUME NEW p \in m.begin .. (BlockEnd(m) - 1)
        PROVE  \/ /\ Holds(f, p) /\ Sample(m, p) = Sample(f, p)
                  /\ IsVerified(m, p) =>
                       IsVerified(f, p) \/ (Holds(g, p) /\ Sample(g, p) = Sample(f, p))
               \/ /\ Holds(g, p) /\ Sample(m, p) = Sample(g, p)
                  /\ IsVerified(m, p) => IsVerified(g, p)
    <3>1. p \in Int
      BY <2>6, <2>f, <2>g DEF Least, Furthest
    <3>2. CASE Holds(f, p)
      <4>1. p \in f.begin .. (BlockEnd(f) - 1) /\ p \in x.begin .. (BlockEnd(x) - 1)
        BY <2>1, <2>f, <3>1, <3>2 DEF Holds
      <4>2. Sample(m, p) = Sample(x, p) /\ IsVerified(m, p) = IsVerified(x, p)
        BY <2>5, <4>1, Zenon DEF Agrees, At, Sample, IsVerified
      <4>3. Sample(m, p) = Sample(f, p) /\ IsVerified(m, p) = (IsVerified(f, p) \/ p \in W)
        BY <2>1, <4>1, <4>2, Zenon
      <4> QED
        BY <2>3, <3>2, <4>3, Zenon
    <3>3. CASE ~Holds(f, p)
      <4>1. p \in m.begin .. (x.begin - 1) \/ p \in BlockEnd(x) .. (BlockEnd(m) - 1)
        BY <2>1, <2>6, <2>f, <2>g, <3>1, <3>3 DEF Holds, Least, Furthest
      <4>2. Sample(m, p) = Sample(g, p) /\ IsVerified(m, p) = IsVerified(g, p)
        BY <2>5, <4>1, Zenon DEF Agrees, At, Sample, IsVerified
      <4>3. Holds(g, p)
        BY <1>2, <2>6, <2>f, <2>g, <3>1, <3>3 DEF CanMerge, Apart, Holds, Least, Furthest
      <4> QED
        BY <4>2, <4>3, Zenon
    <3> QED
      BY <3>2, <3>3
  <2> QED
    BY <2>5, <2>6, <2>7, Zenon DEF TriedPointwise
<1> QED
  BY <1>1, <1>2

(* Blocks whose samples all came (are in O) and whose verified ones are    *)
(* confirmed (are in C).                                                   *)
Sound(C, O) ==
  {g \in Block : /\ Len(g.flags) = Len(g.vector)
                 /\ \A p \in g.begin .. (BlockEnd(g) - 1) :
                      /\ <<p, Sample(g, p)>> \in O
                      /\ IsVerified(g, p) => <<p, Sample(g, p)>> \in C}
(* Two blocks that confirm each other where they agree: merged, they may   *)
(* lend each other the flag.                                               *)
Confirming(g, h, C) ==
  \A p \in Int : Holds(g, p) /\ Holds(h, p) /\ Sample(g, p) = Sample(h, p) =>
                   <<p, Sample(g, p)>> \in C

LEMMA SoundType ==
  ASSUME NEW C, NEW O, NEW g \in Sound(C, O)
  PROVE  /\ WellFormed(g) /\ g.begin \in Int /\ BlockEnd(g) \in Int /\ g.begin <= BlockEnd(g)
         /\ \A p \in Int : Holds(g, p) => p \in g.begin .. (BlockEnd(g) - 1)
         /\ \A p \in Int : Holds(g, p) =>
              /\ <<p, Sample(g, p)>> \in O
              /\ IsVerified(g, p) => <<p, Sample(g, p)>> \in C
<1>1. WellFormed(g)
  BY DEF Sound, WellFormed
<1>2. g.begin \in Int /\ BlockEnd(g) \in Int /\ g.begin <= BlockEnd(g)
  BY <1>1, BlockType
<1>3. \A p \in Int : Holds(g, p) => p \in g.begin .. (BlockEnd(g) - 1)
  BY <1>2 DEF Holds
<1>4. \A p \in Int : Holds(g, p) =>
        /\ <<p, Sample(g, p)>> \in O
        /\ IsVerified(g, p) => <<p, Sample(g, p)>> \in C
  BY <1>3, Zenon DEF Sound
<1> QED
  BY <1>1, <1>2, <1>3, <1>4

LEMMA ConfirmingSymmetric ==
  ASSUME NEW g, NEW h, NEW C, Confirming(g, h, C)
  PROVE  Confirming(h, g, C)
BY Zenon DEF Confirming

(* Merging sound blocks that confirm each other gives a sound block, that  *)
(* confirms whatever both confirmed.                                       *)
LEMMA MergeIsSound ==
  ASSUME NEW C, NEW O, NEW f \in Sound(C, O), NEW g \in Sound(C, O), Confirming(f, g, C),
         NEW m, m = TryMerge(f, g)
  PROVE  /\ m \in Sound(C, O) /\ (m.begin = f.begin \/ m.begin = Least(f, g))
         /\ \A x : Confirming(f, x, C) /\ Confirming(g, x, C) => Confirming(m, x, C)
<1>f. /\ WellFormed(f) /\ f.begin \in Int /\ BlockEnd(f) \in Int
      /\ \A p \in Int : Holds(f, p) =>
              /\ <<p, Sample(f, p)>> \in O
              /\ IsVerified(f, p) => <<p, Sample(f, p)>> \in C
  BY SoundType
<1>g. /\ WellFormed(g) /\ g.begin \in Int /\ BlockEnd(g) \in Int
      /\ \A p \in Int : Holds(g, p) =>
              /\ <<p, Sample(g, p)>> \in O
              /\ IsVerified(g, p) => <<p, Sample(g, p)>> \in C
  BY SoundType
<1>0. m = f \/ TriedPointwise(f, g, m)
  BY <1>f, <1>g, TryMergePointwise
<1>1. CASE m = f
  BY <1>1
<1>2. CASE TriedPointwise(f, g, m)
  <2>1. WellFormed(m) /\ m.begin = Least(f, g)
    BY <1>2 DEF TriedPointwise
  <2>2. m.begin \in Int /\ BlockEnd(m) \in Int
    BY <2>1, BlockType
  <2>3. ASSUME NEW p \in m.begin .. (BlockEnd(m) - 1)
        PROVE  /\ p \in Int
               /\ <<p, Sample(m, p)>> \in O
               /\ IsVerified(m, p) => <<p, Sample(m, p)>> \in C
               /\ \A x : Confirming(f, x, C) /\ Confirming(g, x, C)
                           /\ Holds(x, p) /\ Sample(m, p) = Sample(x, p)
                         => <<p, Sample(m, p)>> \in C
    <3>0. p \in Int
      BY <2>2
    <3>1. CASE /\ Holds(f, p) /\ Sample(m, p) = Sample(f, p)
               /\ IsVerified(m, p) =>
                    IsVerified(f, p) \/ (Holds(g, p) /\ Sample(g, p) = Sample(f, p))
      <4>1. <<p, Sample(m, p)>> \in O
        BY <1>f, <3>0, <3>1, Zenon
      <4>2. Holds(g, p) /\ Sample(g, p) = Sample(f, p) => <<p, Sample(f, p)>> \in C
        BY <3>0, <3>1, Zenon DEF Confirming
      <4>3. IsVerified(m, p) => <<p, Sample(m, p)>> \in C
        BY <1>f, <3>0, <3>1, <4>2, Zenon
      <4>4. ASSUME NEW x, Confirming(f, x, C), Holds(x, p), Sample(m, p) = Sample(x, p)
            PROVE  <<p, Sample(m, p)>> \in C
        BY <3>0, <3>1, <4>4, Zenon DEF Confirming
      <4> QED
        BY <3>0, <4>1, <4>3, <4>4, Zenon
    <3>2. CASE /\ Holds(g, p) /\ Sample(m, p) = Sample(g, p)
               /\ IsVerified(m, p) => IsVerified(g, p)
      <4>1. /\ <<p, Sample(m, p)>> \in O
            /\ IsVerified(m, p) => <<p, Sample(m, p)>> \in C
        BY <1>g, <3>0, <3>2, Zenon
      <4>2. ASSUME NEW x, Confirming(g, x, C), Holds(x, p), Sample(m, p) = Sample(x, p)
            PROVE  <<p, Sample(m, p)>> \in C
        BY <3>0, <3>2, <4>2, Zenon DEF Confirming
      <4> QED
        BY <3>0, <4>1, <4>2, Zenon
    <3> QED
      BY <1>2, <3>1, <3>2, Zenon DEF TriedPointwise
  <2>4. m \in Sound(C, O)
    BY <2>1, <2>3, Zenon DEF Sound, WellFormed
  <2>5. ASSUME NEW x, Confirming(f, x, C), Confirming(g, x, C)
        PROVE  Confirming(m, x, C)
    <3>1. \A p \in Int : Holds(m, p) => p \in m.begin .. (BlockEnd(m) - 1)
      BY <2>2 DEF Holds
    <3> QED
      BY <2>3, <2>5, <3>1, Zenon DEF Confirming
  <2> QED
    BY <2>1, <2>4, <2>5
<1> QED
  BY <1>0, <1>1, <1>2

-----------------------------------------------------------------------------
(* The list of fragments.  S is a set of blocks and R a symmetric relation *)
(* on it, so that the lemmas say what sorting and joining do to any two    *)
(* elements.                                                               *)

Symmetric(R)       == \A x, y : <<x, y>> \in R => <<y, x>> \in R
Placeable(S)       == \A g \in S : g.begin \in Int
InOrder(list)      == \A i, j \in 1 .. Len(list) : i < j => list[i].begin <= list[j].begin
RelatedTo(list, x, R) == \A i \in 1 .. Len(list) : <<list[i], x>> \in R
PairsIn(list, R)   == \A i, j \in 1 .. Len(list) : i # j => <<list[i], list[j]>> \in R

(* f stands at k + 1, and what begins later moves back by one.             *)
IsPlacedAt(u, list, f, k) ==
  /\ k \in 0 .. Len(list) /\ Len(u) = Len(list) + 1
  /\ \A i \in 1 .. k : u[i] = list[i] /\ list[i].begin <= f.begin
  /\ u[k + 1] = f
  /\ \A i \in (k + 1) .. Len(list) : u[i + 1] = list[i] /\ f.begin <= list[i].begin

LEMMA PlacedType ==
  ASSUME NEW S, NEW list \in Seq(S), NEW f \in S
  PROVE  Placed(list, f) \in Seq(S) /\ Len(Placed(list, f)) = Len(list) + 1
<1> DEFINE u == Placed(list, f)
<1>1. ASSUME NEW i \in 1 .. Len(list) + 1
      PROVE  (IF i <= Len(list) /\ list[i].begin <= f.begin THEN list[i]
              ELSE IF i = 1 \/ list[i - 1].begin <= f.begin THEN f ELSE list[i - 1]) \in S
  <2>1. i <= Len(list) => list[i] \in S
    OBVIOUS
  <2>2. i # 1 => i - 1 \in 1 .. Len(list)
    OBVIOUS
  <2>3. i # 1 => list[i - 1] \in S
    BY <2>2
  <2> QED
    BY <2>1, <2>3
<1>2. u \in [1 .. Len(list) + 1 -> S]
  BY <1>1 DEF Placed
<1>3. Len(list) + 1 \in Nat
  OBVIOUS
<1> HIDE DEF u
<1>4. u \in Seq(S) /\ Len(u) = Len(list) + 1
  BY <1>2, <1>3
<1> QED
  BY <1>4 DEF u

LEMMA PlacedSomewhere ==
  ASSUME NEW S, Placeable(S), NEW list \in Seq(S), InOrder(list), NEW f \in S,
         NEW u, u = Placed(list, f)
  PROVE  \E k \in Nat : IsPlacedAt(u, list, f, k)
<1> DEFINE n == Len(list)
           B == {i \in 0 .. n : i = 0 \/ list[i].begin <= f.begin}
<1>0. n \in Nat /\ f.begin \in Int /\ \A i \in 1 .. n : list[i] \in S /\ list[i].begin \in Int
  BY DEF Placeable
<1>1. Len(u) = n + 1
  BY PlacedType
<1>2. \A i \in 1 .. n + 1 :
        u[i] = IF i <= n /\ list[i].begin <= f.begin THEN list[i]
               ELSE IF i = 1 \/ list[i - 1].begin <= f.begin THEN f ELSE list[i - 1]
  BY DEF Placed
<1>3. B \in SUBSET Int /\ B # {} /\ \A i \in B : i <= n
  <2>1. 0 \in B
    BY <1>0
  <2> QED
    BY <1>0, <2>1
<1>4. PICK k \in B : \A i \in B : i <= k
  <2>1. n \in Int
    BY <1>0
  <2> HIDE DEF B, n
  <2> QED
    BY <1>3, <2>1, GreatestOfBounded
<1>5. k \in 0 .. n /\ (k = 0 \/ list[k].begin <= f.begin)
  OBVIOUS
<1>6. \A i \in (k + 1) .. n : ~(list[i].begin <= f.begin)
  <2> SUFFICES ASSUME NEW i \in (k + 1) .. n, list[i].begin <= f.begin PROVE FALSE
    OBVIOUS
  <2>1. i \in B
    BY <1>5
  <2>2. i <= k
    BY <1>4, <2>1
  <2> QED
    BY <1>5, <2>2
<1>o. \A i, j \in 1 .. n : i < j => list[i].begin <= list[j].begin
  BY DEF InOrder
<1> HIDE DEF B, n
<1>7. \A i \in 1 .. k : list[i].begin <= f.begin
  <2> SUFFICES ASSUME NEW i \in 1 .. k PROVE list[i].begin <= f.begin
    OBVIOUS
  <2>1. i \in 1 .. n /\ k \in 1 .. n /\ (i < k \/ i = k)
    BY <1>0, <1>5
  <2>2. list[i].begin <= list[k].begin /\ list[k].begin <= f.begin
    BY <1>0, <1>5, <1>o, <2>1
  <2> QED
    BY <1>0, <2>1, <2>2
<1>8. \A i \in 1 .. k : u[i] = list[i]
  BY <1>0, <1>2, <1>5, <1>7
<1>9. u[k + 1] = f
  <2>1. k + 1 \in 1 .. n + 1 /\ (k + 1) - 1 = k
    BY <1>0, <1>5
  <2>2. ~(k + 1 <= n /\ list[k + 1].begin <= f.begin)
    BY <1>0, <1>5, <1>6
  <2>3. u[k + 1] = IF k + 1 <= n /\ list[k + 1].begin <= f.begin THEN list[k + 1]
                   ELSE IF k + 1 = 1 \/ list[(k + 1) - 1].begin <= f.begin THEN f
                   ELSE list[(k + 1) - 1]
    BY <1>2, <2>1
  <2>4. k + 1 = 1 \/ list[(k + 1) - 1].begin <= f.begin
    BY <1>5, <2>1
  <2> QED
    BY <2>2, <2>3, <2>4
<1>10. ASSUME NEW i \in (k + 1) .. n
       PROVE  u[i + 1] = list[i] /\ f.begin <= list[i].begin
  <2>1. i + 1 \in 1 .. n + 1 /\ (i + 1) - 1 = i /\ i + 1 # 1 /\ i \in 1 .. n
    BY <1>0, <1>5
  <2>2. ~(i + 1 <= n /\ list[i + 1].begin <= f.begin)
    BY <1>0, <1>5, <1>6
  <2>3. u[i + 1] = IF i + 1 <= n /\ list[i + 1].begin <= f.begin THEN list[i + 1]
                   ELSE IF i + 1 = 1 \/ list[(i + 1) - 1].begin <= f.begin THEN f
                   ELSE list[(i + 1) - 1]
    BY <1>2, <2>1
  <2>4. ~(i + 1 = 1 \/ list[(i + 1) - 1].begin <= f.begin)
    BY <1>6, <2>1
  <2>5. u[i + 1] = list[i]
    BY <2>1, <2>2, <2>3, <2>4
  <2> QED
    BY <1>0, <1>6, <2>1, <2>5
<1> QED
  BY <1>0, <1>1, <1>5, <1>7, <1>8, <1>9, <1>10 DEF IsPlacedAt, n

(* Every element of the longer list is f or an element of the shorter one, *)
(* no two of them the same one.                                            *)
LEMMA PlacedKeeps ==
  ASSUME NEW S, Placeable(S), NEW list \in Seq(S), InOrder(list), NEW f \in S,
         NEW R, Symmetric(R), PairsIn(list, R), RelatedTo(list, f, R),
         NEW u, u = Placed(list, f)
  PROVE  /\ u \in Seq(S) /\ Len(u) = Len(list) + 1 /\ InOrder(u) /\ PairsIn(u, R)
         /\ \A x : RelatedTo(list, x, R) /\ <<f, x>> \in R => RelatedTo(u, x, R)
<1> DEFINE n == Len(list)
<1>0. n \in Nat /\ f.begin \in Int /\ \A i \in 1 .. n : list[i] \in S /\ list[i].begin \in Int
  BY DEF Placeable
<1>1. u \in Seq(S) /\ Len(u) = n + 1
  BY PlacedType
<1>2. PICK k \in Nat : IsPlacedAt(u, list, f, k)
  BY PlacedSomewhere
<1>3. /\ k \in 0 .. n
      /\ \A i \in 1 .. k : u[i] = list[i] /\ list[i].begin <= f.begin
      /\ u[k + 1] = f
      /\ \A i \in (k + 1) .. n : u[i + 1] = list[i] /\ f.begin <= list[i].begin
  BY <1>2 DEF IsPlacedAt
<1>o. \A i, j \in 1 .. n : i < j => list[i].begin <= list[j].begin
  BY DEF InOrder
<1>p. \A i, j \in 1 .. n : i # j => <<list[i], list[j]>> \in R
  BY DEF PairsIn
<1>r. \A i \in 1 .. n : <<list[i], f>> \in R /\ <<f, list[i]>> \in R
  BY DEF RelatedTo, Symmetric
<1> HIDE DEF n
<1>4. ASSUME NEW i \in 1 .. n + 1
      PROVE  \/ i \in 1 .. k /\ i \in 1 .. n /\ u[i] = list[i] /\ list[i].begin <= f.begin
             \/ i = k + 1 /\ u[i] = f
             \/ /\ i - 1 \in (k + 1) .. n /\ i - 1 \in 1 .. n
                /\ u[i] = list[i - 1] /\ f.begin <= list[i - 1].begin
  <2>1. CASE i \in 1 .. k
    BY <1>0, <1>3, <2>1
  <2>2. CASE i = k + 1
    BY <1>3, <2>2
  <2>3. CASE i > k + 1
    <3>1. i - 1 \in (k + 1) .. n /\ i - 1 \in 1 .. n /\ (i - 1) + 1 = i
      BY <1>0, <1>3, <2>3
    <3>2. u[(i - 1) + 1] = list[i - 1] /\ f.begin <= list[i - 1].begin
      BY <1>3, <3>1
    <3> QED
      BY <3>1, <3>2
  <2> QED
    BY <1>0, <1>3, <2>1, <2>2, <2>3
<1>5. ASSUME NEW i \in 1 .. n + 1, NEW j \in 1 .. n + 1, i < j
      PROVE  u[i].begin <= u[j].begin /\ <<u[i], u[j]>> \in R /\ <<u[j], u[i]>> \in R
  <2>1. CASE i \in 1 .. k /\ i \in 1 .. n /\ u[i] = list[i] /\ list[i].begin <= f.begin
    <3>1. CASE j \in 1 .. k /\ j \in 1 .. n /\ u[j] = list[j]
      BY <1>5, <1>o, <1>p, <2>1, <3>1
    <3>2. CASE j = k + 1 /\ u[j] = f
      BY <1>r, <2>1, <3>2
    <3>3. CASE j - 1 \in (k + 1) .. n /\ j - 1 \in 1 .. n /\ u[j] = list[j - 1]
      <4>1. i < j - 1
        BY <1>3, <2>1, <3>3
      <4> QED
        BY <1>o, <1>p, <2>1, <3>3, <4>1
    <3> QED
      BY <1>4, <3>1, <3>2, <3>3
  <2>2. CASE i = k + 1 /\ u[i] = f
    <3>1. j - 1 \in 1 .. n /\ u[j] = list[j - 1] /\ f.begin <= list[j - 1].begin
      BY <1>3, <1>4, <1>5, <2>2
    <3> QED
      BY <1>r, <2>2, <3>1
  <2>3. CASE i - 1 \in (k + 1) .. n /\ i - 1 \in 1 .. n /\ u[i] = list[i - 1]
    <3>1. j - 1 \in 1 .. n /\ u[j] = list[j - 1]
      BY <1>3, <1>4, <1>5, <2>3
    <3>2. i - 1 < j - 1
      BY <1>5
    <3> QED
      BY <1>o, <1>p, <2>3, <3>1, <3>2
  <2> QED
    BY <1>4, <2>1, <2>2, <2>3
<1>6. InOrder(u)
  BY <1>1, <1>5 DEF InOrder
<1>7. PairsIn(u, R)
  <2> SUFFICES ASSUME NEW i \in 1 .. n + 1, NEW j \in 1 .. n + 1, i # j
               PROVE  <<u[i], u[j]>> \in R
    BY <1>1 DEF PairsIn
  <2>1. i < j \/ j < i
    BY <1>0
  <2> QED
    BY <1>5, <2>1
<1>8. ASSUME NEW x, RelatedTo(list, x, R), <<f, x>> \in R
      PROVE  RelatedTo(u, x, R)
  <2>1. \A i \in 1 .. n : <<list[i], x>> \in R
    BY <1>8 DEF RelatedTo, n
  <2>2. \A i \in 1 .. n + 1 : <<u[i], x>> \in R
    BY <1>4, <1>8, <2>1
  <2> QED
    BY <1>1, <2>2 DEF RelatedTo
<1> QED
  BY <1>1, <1>6, <1>7, <1>8 DEF n

LEMMA EmptyList ==
  ASSUME NEW R
  PROVE  InOrder(<<>>) /\ PairsIn(<<>>, R) /\ \A x : RelatedTo(<<>>, x, R)
BY DEF InOrder, PairsIn, RelatedTo

(* sort_by_key: the same elements, in order. *)
SortedSoFar(sorted, list) ==
  sorted = [n \in 0 .. Len(list) |-> IF n = 0 THEN <<>> ELSE Placed(sorted[n - 1], list[n])]

LEMMA SortedExists ==
  ASSUME NEW S, NEW list \in Seq(S)
  PROVE  \E sorted : SortedSoFar(sorted, list)
<1> DEFINE n == Len(list)
           T == Seq(S)
           none == <<>>
           step == [p \in T \X (1 .. n) |-> Placed(p[1], list[p[2]])]
<1>1. step \in StepsTo(n, T)
  <2>1. ASSUME NEW p \in T \X (1 .. n)
        PROVE  Placed(p[1], list[p[2]]) \in T
    <3>1. p[1] \in Seq(S) /\ list[p[2]] \in S
      OBVIOUS
    <3> QED
      BY <3>1, PlacedType
  <2> QED
    BY <2>1 DEF StepsTo
<1>2. n \in Nat /\ none \in T
  OBVIOUS
<1>3. \A t \in T, k \in 1 .. n : step[<<t, k>>] = Placed(t, list[k])
  OBVIOUS
<1> HIDE DEF n, T, none, step
<1>4. PICK f \in [0 .. n -> T] : f[0] = none /\ \A k \in 1 .. n : f[k] = step[<<f[k - 1], k>>]
  BY <1>1, <1>2, RecursionExists
<1>5. ASSUME NEW k \in 0 .. n
      PROVE  f[k] = IF k = 0 THEN none ELSE Placed(f[k - 1], list[k])
  <2>1. k # 0 => k \in 1 .. n /\ k - 1 \in 0 .. n
    BY <1>2
  <2> QED
    BY <1>3, <1>4, <2>1
<1>6. f = [k \in 0 .. n |-> f[k]]
  BY <1>4
<1>7. f = [k \in 0 .. n |-> IF k = 0 THEN none ELSE Placed(f[k - 1], list[k])]
  BY <1>5, <1>6
<1> QED
  BY <1>7 DEF SortedSoFar, n, none

LEMMA ByBeginSorts ==
  ASSUME NEW S, Placeable(S), NEW list \in Seq(S),
         NEW R, Symmetric(R), PairsIn(list, R),
         NEW u, u = ByBegin(list)
  PROVE  u \in Seq(S) /\ Len(u) = Len(list) /\ InOrder(u) /\ PairsIn(u, R)
<1> DEFINE n == Len(list)
           sorted == CHOOSE sorted : SortedSoFar(sorted, list)
           Good(k) == /\ sorted[k] \in Seq(S) /\ Len(sorted[k]) = k
                      /\ InOrder(sorted[k]) /\ PairsIn(sorted[k], R)
                      /\ \A j \in (k + 1) .. n : RelatedTo(sorted[k], list[j], R)
           G == {k \in Nat : k <= n => Good(k)}
<1>0. n \in Nat /\ \A k \in 1 .. n : list[k] \in S
  OBVIOUS
<1>1. SortedSoFar(sorted, list)
  BY SortedExists
<1>2. u = sorted[n]
  BY DEF ByBegin, SortedSoFar
<1>p. \A i, j \in 1 .. n : i # j => <<list[i], list[j]>> \in R
  BY DEF PairsIn
<1> HIDE DEF sorted, n
<1>3. \A k \in 0 .. n : sorted[k] = IF k = 0 THEN <<>> ELSE Placed(sorted[k - 1], list[k])
  BY <1>1, Zenon DEF SortedSoFar, n
<1>4. 0 \in G
  <2>1. sorted[0] = <<>>
    BY <1>0, <1>3
  <2>2. sorted[0] \in Seq(S) /\ Len(sorted[0]) = 0
    BY <2>1
  <2> QED
    BY <2>1, <2>2, EmptyList
<1>5. ASSUME NEW k \in Nat, k \in G PROVE k + 1 \in G
  <2> SUFFICES ASSUME k + 1 <= n PROVE Good(k + 1)
    OBVIOUS
  <2> DEFINE s == sorted[k]
             f == list[k + 1]
             t == sorted[k + 1]
  <2>1. Good(k)
    BY <1>0, <1>5
  <2>2. f \in S /\ t = Placed(s, f)
    <3>1. k + 1 \in 0 .. n /\ k + 1 \in 1 .. n /\ k + 1 # 0 /\ (k + 1) - 1 = k
      BY <1>0
    <3> QED
      BY <1>0, <1>3, <3>1
  <2>3. /\ s \in Seq(S) /\ Len(s) = k /\ InOrder(s) /\ PairsIn(s, R)
        /\ \A j \in (k + 1) .. n : RelatedTo(s, list[j], R)
    BY <2>1
  <2>4. RelatedTo(s, f, R)
    BY <1>0, <2>3
  <2>5. \A j \in ((k + 1) + 1) .. n : RelatedTo(s, list[j], R) /\ <<f, list[j]>> \in R
    BY <1>0, <1>p, <2>3
  <2> HIDE DEF s, f, t
  <2>6. /\ t \in Seq(S) /\ Len(t) = k + 1 /\ InOrder(t) /\ PairsIn(t, R)
        /\ \A x : RelatedTo(s, x, R) /\ <<f, x>> \in R => RelatedTo(t, x, R)
    BY <2>2, <2>3, <2>4, PlacedKeeps
  <2>7. \A j \in ((k + 1) + 1) .. n : RelatedTo(t, list[j], R)
    BY <2>5, <2>6
  <2> QED
    BY <2>6, <2>7 DEF t
<1>6. n \in G
  <2> HIDE DEF G
  <2> QED
    BY <1>0, <1>4, <1>5, InductionOnSet
<1>7. Good(n)
  BY <1>0, <1>6
<1> QED
  BY <1>2, <1>7 DEF n

-----------------------------------------------------------------------------
(* Joining *)

(* in order, and no two overlap or touch *)
ListApart(list) ==
  \A i, j \in 1 .. Len(list) : i < j => BlockEnd(list[i]) < list[j].begin

GoodBlock == {g \in Block : Len(g.flags) = Len(g.vector)}

LEMMA JoinedType ==
  ASSUME NEW list \in Seq(GoodBlock), NEW f \in GoodBlock
  PROVE  /\ Joined(list, f) \in Seq(GoodBlock)
         /\ Len(Joined(list, f)) = IF list # <<>> /\ BlockEnd(Last(list)) >= f.begin
                                   THEN Len(list) ELSE Len(list) + 1
<1>1. CASE list # <<>> /\ BlockEnd(Last(list)) >= f.begin
  <2> DEFINE l == list[Len(list)]
             m == TryMerge(l, f)
  <2>1. Joined(list, f) = [list EXCEPT ![Len(list)] = m]
    BY <1>1 DEF Joined
  <2>2. Len(list) \in 1 .. Len(list) /\ l \in GoodBlock
    BY <1>1
  <2>3. m \in GoodBlock
    <3>1. WellFormed(l) /\ WellFormed(f)
      BY <2>2 DEF GoodBlock, WellFormed
    <3>2. m = l \/ WellFormed(m)
      BY <3>1, TryMergePointwise DEF TriedPointwise
    <3> QED
      BY <2>2, <3>2 DEF GoodBlock, WellFormed
  <2> HIDE DEF m, l
  <2> QED
    BY <1>1, <2>1, <2>2, <2>3, ExceptSeq
<1>2. CASE ~(list # <<>> /\ BlockEnd(Last(list)) >= f.begin)
  <2>1. Joined(list, f) = Append(list, f)
    BY <1>2 DEF Joined
  <2> QED
    BY <1>2, <2>1
<1> QED
  BY <1>1, <1>2

(* One step of the loop: whatever comes next, begins no earlier than the   *)
(* last block and confirms it, leaves a list of sound blocks apart.        *)
JoinInv(S, R, done, rest) ==
  /\ done \in Seq(S) /\ ListApart(done)
  /\ \A x \in rest : done # <<>> =>
       done[Len(done)].begin <= x.begin /\ <<done[Len(done)], x>> \in R

LEMMA JoinedKeeps ==
  ASSUME NEW C, NEW O, NEW S, S = Sound(C, O),
         NEW R, R = {p \in S \X S : Confirming(p[1], p[2], C)},
         NEW done, NEW f \in S, NEW rest \in SUBSET S, JoinInv(S, R, done, rest \cup {f}),
         \A x \in rest : f.begin <= x.begin /\ <<f, x>> \in R,
         NEW t, t = Joined(done, f)
  PROVE  JoinInv(S, R, t, rest)
<1>0. /\ done \in Seq(S) /\ ListApart(done)
      /\ done # <<>> => done[Len(done)].begin <= f.begin /\ <<done[Len(done)], f>> \in R
      /\ \A x \in rest : done # <<>> =>
           done[Len(done)].begin <= x.begin /\ <<done[Len(done)], x>> \in R
  BY DEF JoinInv
<1> DEFINE n == Len(done)
           l == done[n]
<1>1. n \in Nat /\ \A i \in 1 .. n : done[i] \in S
  BY <1>0
<1>t. \A g \in S : g.begin \in Int /\ BlockEnd(g) \in Int /\ g.begin <= BlockEnd(g)
  BY SoundType
<1>a. \A i, j \in 1 .. n : i < j => BlockEnd(done[i]) < done[j].begin
  BY <1>0 DEF ListApart
<1>2. CASE done = <<>>
  <2>1. t = <<f>>
    BY <1>2 DEF Joined
  <2> QED
    BY <2>1 DEF JoinInv, ListApart
<1>3. CASE done # <<>> /\ BlockEnd(l) >= f.begin
  <2> DEFINE m == TryMerge(l, f)
  <2>1. n \in 1 .. n /\ l \in S /\ <<l, f>> \in R /\ l.begin <= f.begin
    BY <1>0, <1>1, <1>3
  <2>2. Confirming(l, f, C)
    BY <2>1
  <2>3. /\ m \in S /\ (m.begin = l.begin \/ m.begin = Least(l, f))
        /\ \A x : Confirming(l, x, C) /\ Confirming(f, x, C) => Confirming(m, x, C)
    BY <2>1, <2>2, MergeIsSound
  <2>4. m.begin = l.begin
    BY <1>t, <2>1, <2>3 DEF Least
  <2>5. t = [done EXCEPT ![n] = m]
    BY <1>3 DEF Joined, Last
  <2>6. \A x \in rest : <<m, x>> \in R /\ m.begin <= x.begin
    <3> SUFFICES ASSUME NEW x \in rest PROVE <<m, x>> \in R /\ m.begin <= x.begin
      OBVIOUS
    <3>1. <<l, x>> \in R /\ <<f, x>> \in R /\ l.begin <= x.begin /\ x \in S
      BY <1>0, <1>3
    <3>2. Confirming(m, x, C)
      BY <2>3, <3>1
    <3> QED
      BY <2>3, <2>4, <3>1, <3>2
  <2> HIDE DEF m, l, n
  <2>7. /\ t \in Seq(S) /\ Len(t) = n /\ t[n] = m
        /\ \A i \in 1 .. n : i # n => t[i] = done[i]
    BY <1>0, <2>1, <2>3, <2>5, ExceptSeq DEF n
  <2>8. ListApart(t)
    <3> SUFFICES ASSUME NEW i \in 1 .. n, NEW j \in 1 .. n, i < j
                 PROVE  BlockEnd(t[i]) < t[j].begin
      BY <2>7 DEF ListApart
    <3>1. i # n /\ t[i] = done[i] /\ BlockEnd(done[i]) < done[j].begin
      BY <1>1, <1>a, <2>7
    <3>2. t[j].begin = done[j].begin
      BY <2>4, <2>7 DEF l
    <3> QED
      BY <3>1, <3>2
  <2> QED
    BY <2>6, <2>7, <2>8 DEF JoinInv
<1>4. CASE done # <<>> /\ ~(BlockEnd(l) >= f.begin)
  <2>1. t = Append(done, f)
    BY <1>4 DEF Joined, Last
  <2>2. n \in 1 .. n /\ l \in S /\ BlockEnd(l) < f.begin
    BY <1>1, <1>4, <1>t
  <2> HIDE DEF l, n
  <2>3. /\ t \in Seq(S) /\ Len(t) = n + 1 /\ t[n + 1] = f
        /\ \A i \in 1 .. n : t[i] = done[i]
    BY <1>0, <2>1 DEF n
  <2>4. ListApart(t)
    <3> SUFFICES ASSUME NEW i \in 1 .. n + 1, NEW j \in 1 .. n + 1, i < j
                 PROVE  BlockEnd(t[i]) < t[j].begin
      BY <2>3 DEF ListApart
    <3>1. i \in 1 .. n /\ t[i] = done[i] /\ done[i] \in S
      BY <1>1, <2>3
    <3>2. CASE j \in 1 .. n
      BY <1>a, <2>3, <3>1, <3>2
    <3>3. CASE j = n + 1
      <4>1. CASE i = n
        BY <2>2, <2>3, <3>1, <3>3, <4>1 DEF l
      <4>2. CASE i < n
        <5>1. BlockEnd(done[i]) < l.begin
          BY <1>a, <2>2, <3>1, <4>2 DEF l
        <5> QED
          BY <1>t, <2>2, <2>3, <3>1, <3>3, <5>1
      <4> QED
        BY <1>1, <3>1, <4>1, <4>2
    <3> QED
      BY <1>1, <3>2, <3>3
  <2> QED
    BY <2>3, <2>4 DEF JoinInv
<1> QED
  BY <1>2, <1>3, <1>4

DoneSoFar(done, sorted, length) ==
  done = [n \in 0 .. length |-> IF n = 0 THEN <<>> ELSE Joined(done[n - 1], sorted[n])]

LEMMA DoneExists ==
  ASSUME NEW n \in Nat, NEW sorted \in Seq(GoodBlock), Len(sorted) = n
  PROVE  \E done : DoneSoFar(done, sorted, n)
<1> DEFINE T == Seq(GoodBlock)
           none == <<>>
           step == [p \in T \X (1 .. n) |-> Joined(p[1], sorted[p[2]])]
<1>1. step \in StepsTo(n, T)
  <2>1. ASSUME NEW p \in T \X (1 .. n)
        PROVE  Joined(p[1], sorted[p[2]]) \in T
    <3>1. p[1] \in Seq(GoodBlock) /\ sorted[p[2]] \in GoodBlock
      OBVIOUS
    <3> QED
      BY <3>1, JoinedType
  <2> QED
    BY <2>1 DEF StepsTo
<1>2. none \in T
  OBVIOUS
<1>3. \A t \in T, k \in 1 .. n : step[<<t, k>>] = Joined(t, sorted[k])
  OBVIOUS
<1> HIDE DEF T, none, step
<1>4. PICK f \in [0 .. n -> T] : f[0] = none /\ \A k \in 1 .. n : f[k] = step[<<f[k - 1], k>>]
  BY SMTT(60), <1>1, <1>2, RecursionExists
<1>5. ASSUME NEW k \in 0 .. n
      PROVE  f[k] = IF k = 0 THEN none ELSE Joined(f[k - 1], sorted[k])
  <2>1. k # 0 => k \in 1 .. n /\ k - 1 \in 0 .. n
    OBVIOUS
  <2> QED
    BY <1>3, <1>4, <2>1
<1>6. f = [k \in 0 .. n |-> f[k]]
  BY <1>4
<1>7. f = [k \in 0 .. n |-> IF k = 0 THEN none ELSE Joined(f[k - 1], sorted[k])]
  BY <1>5, <1>6
<1> QED
  BY <1>7 DEF DoneSoFar, none

LEMMA SoundIsGood ==
  ASSUME NEW C, NEW O
  PROVE  Sound(C, O) \subseteq GoodBlock /\ Placeable(Sound(C, O))
<1>1. Sound(C, O) \subseteq GoodBlock
  BY Zenon DEF Sound, GoodBlock
<1>2. \A g \in Sound(C, O) : g.begin \in Int
  BY SoundType
<1> QED
  BY <1>1, <1>2 DEF Placeable

(* consolidate_fragments, of sound blocks of which any two confirm each    *)
(* other: sound blocks, apart.                                             *)
LEMMA ConsolidateSeparates ==
  ASSUME NEW C, NEW O, NEW S, S = Sound(C, O),
         NEW R, R = {p \in S \X S : Confirming(p[1], p[2], C)},
         NEW list \in Seq(S), PairsIn(list, R),
         NEW u, u = Consolidate(list)
  PROVE  u \in Seq(S) /\ ListApart(u)
<1> DEFINE n == Len(list)
           sorted == ByBegin(list)
           done == CHOOSE done : DoneSoFar(done, sorted, n)
           Rest(k) == {sorted[j] : j \in (k + 1) .. n}
           G == {k \in Nat : k <= n => JoinInv(S, R, done[k], Rest(k))}
<1>0. n \in Nat /\ Placeable(S) /\ S \subseteq GoodBlock
  BY SoundIsGood
<1>1. Symmetric(R)
  <2>1. ASSUME NEW x, NEW y, <<x, y>> \in R PROVE <<y, x>> \in R
    <3>1. x \in S /\ y \in S /\ Confirming(x, y, C)
      BY <2>1
    <3> QED
      BY <3>1, ConfirmingSymmetric
  <2> QED
    BY <2>1 DEF Symmetric
<1>2. sorted \in Seq(S) /\ Len(sorted) = n /\ InOrder(sorted) /\ PairsIn(sorted, R)
  BY <1>0, <1>1, ByBeginSorts
<1>3. u = (CHOOSE done_ : DoneSoFar(done_, sorted, n))[n]
  BY DEF Consolidate, DoneSoFar
<1> HIDE DEF sorted, n
<1>4. DoneSoFar(done, sorted, n)
  <2>1. sorted \in Seq(GoodBlock)
    BY <1>0, <1>2
  <2> QED
    BY <1>0, <1>2, <2>1, DoneExists
<1>5. u = done[n]
  BY <1>3
<1> HIDE DEF done
<1>6. \A k \in 0 .. n : done[k] = IF k = 0 THEN <<>> ELSE Joined(done[k - 1], sorted[k])
  BY <1>4, Zenon DEF DoneSoFar
<1>7. /\ \A k \in 1 .. n : sorted[k] \in S
      /\ \A i, j \in 1 .. n : i < j => sorted[i].begin <= sorted[j].begin
      /\ \A i, j \in 1 .. n : i # j => <<sorted[i], sorted[j]>> \in R
  BY <1>2 DEF InOrder, PairsIn
<1>8. 0 \in G
  <2>1. done[0] = <<>>
    BY <1>0, <1>6
  <2>2. <<>> \in Seq(S) /\ ListApart(<<>>)
    BY DEF ListApart
  <2> QED
    BY <2>1, <2>2 DEF JoinInv
<1>9. ASSUME NEW k \in Nat, k \in G PROVE k + 1 \in G
  <2> SUFFICES ASSUME k + 1 <= n PROVE JoinInv(S, R, done[k + 1], Rest(k + 1))
    OBVIOUS
  <2> DEFINE d == done[k]
             f == sorted[k + 1]
             t == done[k + 1]
             rest == Rest(k + 1)
  <2>1. k + 1 \in 0 .. n /\ k + 1 \in 1 .. n /\ k + 1 # 0 /\ (k + 1) - 1 = k /\ k <= n
    BY <1>0
  <2>2. f \in S /\ t = Joined(d, f)
    BY <1>6, <1>7, <2>1
  <2>3. Rest(k) = rest \cup {f}
    BY <1>0, <2>1
  <2>4. JoinInv(S, R, d, rest \cup {f})
    <3>1. JoinInv(S, R, d, Rest(k))
      BY <1>9, <2>1
    <3> HIDE DEF d, rest, f, Rest
    <3> QED
      BY <2>3, <3>1
  <2>5. rest \in SUBSET S /\ \A x \in rest : f.begin <= x.begin /\ <<f, x>> \in R
    BY <1>0, <1>7, <2>1
  <2> HIDE DEF d, f, t, rest
  <2>6. JoinInv(S, R, t, rest)
    BY <2>2, <2>4, <2>5, JoinedKeeps
  <2> QED
    BY <2>6 DEF t, rest
<1>10. n \in G
  <2> HIDE DEF G
  <2> QED
    BY <1>0, <1>8, <1>9, InductionOnSet
<1>11. JoinInv(S, R, done[n], Rest(n))
  BY <1>0, <1>10
<1> QED
  BY <1>5, <1>11 DEF JoinInv

-----------------------------------------------------------------------------
(* Dropping what lies behind the cursor *)

KeptSoFar(kept, list) ==
  kept = [n \in 0 .. Len(list) |->
            IF n = 0 THEN <<>>
            ELSE IF IsRetained(list[n]) THEN Append(kept[n - 1], list[n]) ELSE kept[n - 1]]

LEMMA KeptExists ==
  ASSUME NEW S, NEW list \in Seq(S)
  PROVE  \E kept : KeptSoFar(kept, list)
<1> DEFINE n == Len(list)
           T == Seq(S)
           none == <<>>
           step == [p \in T \X (1 .. n) |->
                      IF IsRetained(list[p[2]]) THEN Append(p[1], list[p[2]]) ELSE p[1]]
<1>1. step \in StepsTo(n, T)
  <2>1. ASSUME NEW p \in T \X (1 .. n)
        PROVE  (IF IsRetained(list[p[2]]) THEN Append(p[1], list[p[2]]) ELSE p[1]) \in T
    <3>1. p[1] \in Seq(S) /\ list[p[2]] \in S
      OBVIOUS
    <3> QED
      BY <3>1
  <2> QED
    BY <2>1 DEF StepsTo
<1>2. none \in T /\ n \in Nat
  OBVIOUS
<1>3. \A t \in T, k \in 1 .. n :
        step[<<t, k>>] = IF IsRetained(list[k]) THEN Append(t, list[k]) ELSE t
  OBVIOUS
<1> HIDE DEF T, none, n, step
<1>4. PICK f \in [0 .. n -> T] : f[0] = none /\ \A k \in 1 .. n : f[k] = step[<<f[k - 1], k>>]
  BY <1>1, <1>2, RecursionExists
<1>5. ASSUME NEW k \in 0 .. n
      PROVE  f[k] = IF k = 0 THEN none
                    ELSE IF IsRetained(list[k]) THEN Append(f[k - 1], list[k]) ELSE f[k - 1]
  <2>1. k # 0 => k \in 1 .. n /\ k - 1 \in 0 .. n
    BY <1>2
  <2> QED
    BY <1>3, <1>4, <2>1
<1>6. f = [k \in 0 .. n |-> f[k]]
  BY <1>4
<1>7. f = [k \in 0 .. n |->
             IF k = 0 THEN none
             ELSE IF IsRetained(list[k]) THEN Append(f[k - 1], list[k]) ELSE f[k - 1]]
  BY <1>5, <1>6
<1> QED
  BY <1>7 DEF KeptSoFar, none, n

(* What is retained is some of the fragments, still apart.                 *)
LEMMA RetainedApart ==
  ASSUME NEW S, NEW list \in Seq(S), ListApart(list), NEW u, u = Retained(list)
  PROVE  u \in Seq(S) /\ ListApart(u)
<1> DEFINE n == Len(list)
           kept == CHOOSE kept : KeptSoFar(kept, list)
           Good(k) == /\ kept[k] \in Seq(S) /\ ListApart(kept[k])
                      /\ \A i \in 1 .. Len(kept[k]), j \in (k + 1) .. n :
                           BlockEnd(kept[k][i]) < list[j].begin
           G == {k \in Nat : k <= n => Good(k)}
<1>0. n \in Nat /\ \A k \in 1 .. n : list[k] \in S
  OBVIOUS
<1>1. KeptSoFar(kept, list)
  BY KeptExists
<1>2. u = kept[n]
  BY DEF Retained, KeptSoFar
<1>a. \A i, j \in 1 .. n : i < j => BlockEnd(list[i]) < list[j].begin
  BY DEF ListApart
<1> HIDE DEF kept, n
<1>3. \A k \in 0 .. n :
        kept[k] = IF k = 0 THEN <<>>
                  ELSE IF IsRetained(list[k]) THEN Append(kept[k - 1], list[k]) ELSE kept[k - 1]
  BY <1>1, Zenon DEF KeptSoFar, n
<1>4. 0 \in G
  <2>0. 0 \in 0 .. n
    BY <1>0
  <2>1. kept[0] = <<>>
    BY <1>3, <2>0, Zenon
  <2>2. <<>> \in Seq(S) /\ ListApart(<<>>) /\ 1 .. Len(<<>>) = {}
    BY DEF ListApart
  <2>3. Good(0)
    BY <2>1, <2>2, Zenon
  <2> HIDE DEF Good
  <2> QED
    BY <2>3
<1>5. ASSUME NEW k \in Nat, k \in G PROVE k + 1 \in G
  <2> SUFFICES ASSUME k + 1 <= n PROVE Good(k + 1)
    OBVIOUS
  <2> DEFINE s == kept[k]
             f == list[k + 1]
             t == kept[k + 1]
  <2>1. Good(k)
    BY <1>0, <1>5
  <2>2. f \in S /\ t = IF IsRetained(f) THEN Append(s, f) ELSE s
    <3>1. k + 1 \in 0 .. n /\ k + 1 \in 1 .. n /\ k + 1 # 0 /\ (k + 1) - 1 = k
      BY <1>0
    <3> QED
      BY <1>0, <1>3, <3>1
  <2>3. /\ s \in Seq(S) /\ ListApart(s)
        /\ \A i \in 1 .. Len(s), j \in (k + 1) .. n : BlockEnd(s[i]) < list[j].begin
    BY <2>1
  <2>4. \A j \in ((k + 1) + 1) .. n : BlockEnd(f) < list[j].begin
    BY <1>0, <1>a
  <2>5. \A i \in 1 .. Len(s) : BlockEnd(s[i]) < f.begin
    BY <1>0, <2>3
  <2>6. \A i \in 1 .. Len(s), j \in ((k + 1) + 1) .. n : BlockEnd(s[i]) < list[j].begin
    BY <2>3
  <2>7. \A i, j \in 1 .. Len(s) : i < j => BlockEnd(s[i]) < s[j].begin
    BY <2>3 DEF ListApart
  <2> HIDE DEF s, f, t
  <2>8. CASE IsRetained(f)
    <3>1. /\ t \in Seq(S) /\ Len(t) = Len(s) + 1 /\ t[Len(s) + 1] = f
          /\ \A i \in 1 .. Len(s) : t[i] = s[i]
      BY <2>2, <2>3, <2>8
    <3>2. Len(s) \in Nat
      BY <2>3
    <3>3. ListApart(t)
      <4> SUFFICES ASSUME NEW i \in 1 .. Len(s) + 1, NEW j \in 1 .. Len(s) + 1, i < j
                   PROVE  BlockEnd(t[i]) < t[j].begin
        BY <3>1 DEF ListApart
      <4>1. i \in 1 .. Len(s) /\ t[i] = s[i] /\ (j = Len(s) + 1 \/ j \in 1 .. Len(s))
        BY <3>1, <3>2
      <4> QED
        BY <2>5, <2>7, <3>1, <4>1
    <3>4. ASSUME NEW i \in 1 .. Len(t), NEW j \in ((k + 1) + 1) .. n
          PROVE  BlockEnd(t[i]) < list[j].begin
      <4>1. i = Len(s) + 1 \/ i \in 1 .. Len(s)
        BY <3>1, <3>2
      <4> QED
        BY <2>4, <2>6, <3>1, <4>1
    <3> QED
      BY <3>1, <3>3, <3>4 DEF t
  <2>9. CASE ~IsRetained(f)
    BY <2>2, <2>3, <2>6, <2>9 DEF t
  <2> QED
    BY <2>8, <2>9
<1>6. n \in G
  <2> HIDE DEF G
  <2> QED
    BY <1>0, <1>4, <1>5, InductionOnSet
<1>7. Good(n)
  BY <1>0, <1>6
<1> QED
  BY <1>2, <1>7

-----------------------------------------------------------------------------
(* A new fragment.  What was confirmed stays so; what the new one has in   *)
(* common with what came before is confirmed.                              *)
Extends(C, O, C0, O0, f) ==
  /\ C0 \subseteq C /\ O0 \subseteq O /\ Facts(f) \subseteq O /\ O0 \cap Facts(f) \subseteq C
  /\ \A p \in f.begin .. (BlockEnd(f) - 1) : IsVerified(f, p) => <<p, Sample(f, p)>> \in C

LEMMA SoundGrows ==
  ASSUME NEW C, NEW O, NEW C0, NEW O0, C0 \subseteq C, O0 \subseteq O
  PROVE  Sound(C0, O0) \subseteq Sound(C, O)
BY Zenon DEF Sound

LEMMA WithFragmentConfirms ==
  ASSUME NEW C, NEW O, NEW C0, NEW O0, NEW f, WellFormed(f), Extends(C, O, C0, O0, f),
         NEW S, S = Sound(C, O),
         NEW R, R = {p \in S \X S : Confirming(p[1], p[2], C)},
         NEW list \in Seq(Sound(C0, O0)), ListApart(list),
         NEW u, u = WithFragment(list, f)
  PROVE  u \in Seq(S) /\ PairsIn(u, R)
<1> DEFINE n == Len(list)
           S0 == Sound(C0, O0)
<1>0. n \in Nat /\ list \in Seq(S0) /\ \A i \in 1 .. n : list[i] \in S0
  OBVIOUS
<1>e. /\ S0 \subseteq S /\ O0 \cap Facts(f) \subseteq C
      /\ \A p \in f.begin .. (BlockEnd(f) - 1) :
           /\ <<p, Sample(f, p)>> \in O
           /\ IsVerified(f, p) => <<p, Sample(f, p)>> \in C
  <2>1. S0 \subseteq S
    BY SoundGrows DEF Extends
  <2>2. \A p \in f.begin .. (BlockEnd(f) - 1) : <<p, Sample(f, p)>> \in O
    BY Zenon DEF Extends, Facts
  <2> QED
    BY <2>1, <2>2 DEF Extends
<1>1. f \in S
  BY <1>e, Zenon DEF WellFormed, Sound
<1>2. list \in Seq(S) /\ \A i \in 1 .. n : list[i] \in S
  BY <1>0, <1>e
<1>f. /\ f.begin \in Int /\ BlockEnd(f) \in Int
      /\ \A p \in Int : Holds(f, p) => p \in f.begin .. (BlockEnd(f) - 1)
  BY <1>1, SoundType
<1>3. ASSUME NEW i \in 1 .. n
      PROVE  Confirming(list[i], f, C) /\ Confirming(f, list[i], C)
  <2>1. \A p \in Int : Holds(list[i], p) => <<p, Sample(list[i], p)>> \in O0
    BY <1>0, SoundType
  <2>2. \A p \in Int : Holds(f, p) => <<p, Sample(f, p)>> \in Facts(f)
    BY <1>f, Zenon DEF Facts
  <2>3. Confirming(list[i], f, C)
    BY <1>e, <2>1, <2>2, Zenon DEF Confirming
  <2> QED
    BY <2>3, ConfirmingSymmetric
<1>4. ASSUME NEW i \in 1 .. n, NEW j \in 1 .. n, i # j
      PROVE  Confirming(list[i], list[j], C)
  <2>1. i < j \/ j < i
    BY <1>0, <1>4
  <2>2. BlockEnd(list[i]) < list[j].begin \/ BlockEnd(list[j]) < list[i].begin
    BY <2>1 DEF ListApart
  <2>3. /\ list[i].begin \in Int /\ BlockEnd(list[i]) \in Int
        /\ list[j].begin \in Int /\ BlockEnd(list[j]) \in Int
    BY <1>0, SoundType
  <2>4. \A p \in Int : ~(Holds(list[i], p) /\ Holds(list[j], p))
    BY <2>2, <2>3 DEF Holds
  <2> QED
    BY <2>4, Zenon DEF Confirming
<1> DEFINE takers == {i \in 1 .. Len(list) : CanMerge(list[i], f)}
           first == CHOOSE i \in takers : \A j \in takers : i <= j
<1>5. u = IF takers # {} THEN [list EXCEPT ![first] = TryMerge(list[first], f)] ELSE Append(list, f)
  <2>1. ASSUME takers # {} PROVE first \in takers
    <3>1. takers \in SUBSET Nat
      OBVIOUS
    <3> HIDE DEF takers
    <3>2. \E i \in takers : \A j \in takers : i <= j
      BY <2>1, <3>1, LeastNatural
    <3> QED
      BY <3>2
  <2>2. takers \subseteq DOMAIN list
    BY <1>0
  <2> QED
    BY <2>1, <2>2 DEF WithFragment
<1>6. CASE takers # {}
  <2>1. first \in 1 .. n
    <3>1. takers \in SUBSET Nat
      OBVIOUS
    <3>2. \E i \in takers : \A j \in takers : i <= j
      <4> HIDE DEF takers
      <4> QED
        BY <1>6, <3>1, LeastNatural
    <3>3. first \in takers
      BY <3>2
    <3> QED
      BY <3>3
  <2> DEFINE m == TryMerge(list[first], f)
  <2>2. u = [list EXCEPT ![first] = m]
    BY <1>5, <1>6
  <2> HIDE DEF takers, first
  <2>3. list[first] \in S /\ Confirming(list[first], f, C)
    BY <1>2, <1>3, <2>1
  <2>4. /\ m \in S
        /\ \A x : Confirming(list[first], x, C) /\ Confirming(f, x, C) => Confirming(m, x, C)
    BY <1>1, <2>3, MergeIsSound
  <2> HIDE DEF m, n
  <2>5. /\ u \in Seq(S) /\ Len(u) = n /\ u[first] = m
        /\ \A i \in 1 .. n : i # first => u[i] = list[i]
    BY <1>2, <2>1, <2>2, <2>4, ExceptSeq DEF n
  <2>6. ASSUME NEW i \in 1 .. n, i # first
        PROVE  Confirming(m, u[i], C) /\ Confirming(u[i], m, C)
    <3>1. Confirming(m, list[i], C)
      BY <1>3, <1>4, <2>1, <2>4, <2>6
    <3> QED
      BY <2>5, <2>6, <3>1, ConfirmingSymmetric
  <2>7. ASSUME NEW i \in 1 .. n, NEW j \in 1 .. n, i # j
        PROVE  u[i] \in S /\ u[j] \in S /\ Confirming(u[i], u[j], C)
    <3>1. u[i] \in S /\ u[j] \in S
      BY <1>2, <2>4, <2>5
    <3>2. CASE i = first
      BY <2>5, <2>6, <2>7, <3>1, <3>2
    <3>3. CASE j = first
      BY <2>5, <2>6, <2>7, <3>1, <3>3
    <3>4. CASE i # first /\ j # first
      BY <1>4, <2>5, <2>7, <3>1, <3>4
    <3> QED
      BY <3>2, <3>3, <3>4
  <2>8. PairsIn(u, R)
    <3> SUFFICES ASSUME NEW i \in 1 .. n, NEW j \in 1 .. n, i # j
                 PROVE  <<u[i], u[j]>> \in R
      BY <2>5 DEF PairsIn
    <3> QED
      BY <2>7
  <2> QED
    BY <2>5, <2>8
<1>7. CASE takers = {}
  <2>1. u = Append(list, f)
    BY <1>5, <1>7
  <2> HIDE DEF takers, first, n
  <2>2. /\ u \in Seq(S) /\ Len(u) = n + 1 /\ u[n + 1] = f
        /\ \A i \in 1 .. n : u[i] = list[i]
    BY <1>1, <1>2, <2>1 DEF n
  <2>3. ASSUME NEW i \in 1 .. n + 1, NEW j \in 1 .. n + 1, i # j
        PROVE  u[i] \in S /\ u[j] \in S /\ Confirming(u[i], u[j], C)
    <3>1. (i = n + 1 \/ i \in 1 .. n) /\ (j = n + 1 \/ j \in 1 .. n)
      BY <1>0
    <3> QED
      BY <1>1, <1>2, <1>3, <1>4, <2>2, <2>3, <3>1
  <2>4. PairsIn(u, R)
    <3> SUFFICES ASSUME NEW i \in 1 .. n + 1, NEW j \in 1 .. n + 1, i # j
                 PROVE  <<u[i], u[j]>> \in R
      BY <2>2 DEF PairsIn
    <3> QED
      BY <2>3
  <2> QED
    BY <2>2, <2>4
<1> QED
  BY <1>6, <1>7

(* The list after try_merge_fragment.                                      *)
LEMMA FragmentAdded ==
  ASSUME NEW C, NEW O, NEW C0, NEW O0, NEW f, WellFormed(f), Extends(C, O, C0, O0, f),
         NEW list \in Seq(Sound(C0, O0)), ListApart(list),
         NEW u, u = TryMergeFragment(list, f)
  PROVE  u \in Seq(Sound(C, O)) /\ ListApart(u)
<1> DEFINE S == Sound(C, O)
           R == {p \in S \X S : Confirming(p[1], p[2], C)}
           v == WithFragment(list, f)
           w == Consolidate(v)
<1>1. u = Retained(w)
  BY DEF TryMergeFragment
<1> HIDE DEF S, R, v, w
<1>2. v \in Seq(S) /\ PairsIn(v, R)
  BY WithFragmentConfirms DEF S, R, v
<1>3. w \in Seq(S) /\ ListApart(w)
  BY <1>2, ConsolidateSeparates DEF S, R, w
<1>4. u \in Seq(S) /\ ListApart(u)
  BY <1>1, <1>3, RetainedApart
<1> QED
  BY <1>4 DEF S

-----------------------------------------------------------------------------
(* The root *)

LEMMA ProductIsNat ==
  ASSUME NEW a \in Nat, NEW b \in Nat
  PROVE  a * b \in Nat /\ (a > 0 /\ b > 0 => a * b > 0)
  OBVIOUS

(* A batch is a block: begin, length and flags fit. *)
LEMMA BatchFits ==
  ASSUME cursor \in 0 .. Frames, cursor < Frames, NEW over \in Overlaps, NEW data \in Reads(over)
  PROVE  /\ data \in Seq(Values) /\ Len(data) \in Nat \ {0}
         /\ BatchBegin(over) * FrameWords \in Int
<1> DEFINE n == (BatchEnd(over) - BatchBegin(over)) * FrameWords
<1>1. /\ BatchBegin(over) \in Nat /\ BatchEnd(over) - BatchBegin(over) \in Nat \ {0}
      /\ FrameWords \in Nat \ {0}
  BY FragmentsAssumption DEF BatchBegin, BatchEnd
<1>2. n \in Nat \ {0} /\ BatchBegin(over) * FrameWords \in Nat
  BY <1>1, ProductIsNat
<1>3. data \in [1 .. n -> Values]
  BY DEF Reads
<1> HIDE DEF n
<1> QED
  BY <1>2, <1>3

LEMMA VerifiedBatch ==
  ASSUME NEW data \in Seq(Values), Len(data) > 0, NEW b \in Int, NEW n,
         NEW f, f = MarkEdges(FromSamplesVerified(data, b), n)
  PROVE  WellFormed(f) /\ ~IsEmpty(f)
<1> DEFINE g == FromSamplesVerified(data, b)
           w == [i \in 1 .. Len(g.flags) |->
                   g.flags[i] /\ i > n /\ ~(Len(g.flags) > n /\ i > Len(g.flags) - n)]
<1>1. g.vector = data /\ g.begin = b /\ g.flags = [i \in 1 .. Len(data) |-> TRUE]
  BY DEF FromSamplesVerified
<1>2. g = [begin |-> b, vector |-> data, flags |-> g.flags]
  BY DEF FromSamplesVerified
<1>3. f = [g EXCEPT !.flags = w]
  BY DEF MarkEdges
<1>4. Len(g.flags) = Len(data)
  BY <1>1
<1>5. w \in Seq(BOOLEAN) /\ Len(w) = Len(data)
  <2>1. w \in [1 .. Len(g.flags) -> BOOLEAN]
    <3> HIDE DEF g
    <3>1. \A i \in 1 .. Len(g.flags) : g.flags[i] \in BOOLEAN
      BY <1>1, <1>4
    <3> QED
      BY <3>1, Zenon
  <2> HIDE DEF w, g
  <2> QED
    BY <1>4, <2>1
<1> HIDE DEF g, w
<1>6. f = [begin |-> b, vector |-> data, flags |-> w]
  BY <1>2, <1>3
<1> QED
  BY <1>5, <1>6 DEF WellFormed, Block, IsEmpty

LEMMA VotedBatch ==
  ASSUME NEW data \in Seq(Values), Len(data) > 0, NEW b \in Int, NEW missed,
         NEW f, f = [begin |-> b, vector |-> data,
                     flags |-> [i \in 1 .. Len(data) |-> i \notin missed]]
  PROVE  WellFormed(f) /\ ~IsEmpty(f)
<1> DEFINE w == [i \in 1 .. Len(data) |-> i \notin missed]
<1>1. w \in [1 .. Len(data) -> BOOLEAN]
  BY Zenon
<1> HIDE DEF w
<1>2. w \in Seq(BOOLEAN) /\ Len(w) = Len(data)
  BY <1>1
<1>3. f = [begin |-> b, vector |-> data, flags |-> w]
  BY DEF w
<1> QED
  BY <1>2, <1>3 DEF WellFormed, Block, IsEmpty

-----------------------------------------------------------------------------
(* Where f takes the root: not at all (the merge panics), to f itself, or  *)
(* to the merge of the two.                                                *)
LEMMA AcceptMerges ==
  ASSUME RootInv, NEW f, WellFormed(f), ~IsEmpty(f), Accept(f)
  PROVE  /\ \/ root' = root
            \/ root = NoBlock /\ root' = f
            \/ root # NoBlock /\ MergedPointwise(root, f, root')
         /\ root # NoBlock /\ ~panicked' => MergedPointwise(root, f, root')
         /\ WellFormed(root') /\ (root' = NoBlock \/ ~IsEmpty(root'))
         /\ cursor' \in 0 .. Frames
<1>1. IsEmpty(root) <=> root = NoBlock
  BY DEF RootInv, IsEmpty, NoBlock
<1>2. CASE MergePanics(root, f)
  <2>1. root' = root /\ panicked' = TRUE /\ cursor' = cursor
    BY <1>2 DEF Accept
  <2> QED
    BY <2>1 DEF RootInv
<1>3. CASE ~MergePanics(root, f)
  <2>1. root' = MergeFragment(root, f) /\ cursor' = cursor + 1 /\ cursor < Frames
    BY <1>3 DEF Accept
  <2>2. cursor' \in 0 .. Frames
    BY <2>1, FragmentsAssumption DEF RootInv
  <2>3. CASE IsEmpty(root)
    <3>1. root' = f
      BY <2>1, <2>3 DEF MergeFragment
    <3> QED
      BY <1>1, <2>2, <2>3, <3>1
  <2>4. CASE ~IsEmpty(root)
    <3>1. WellFormed(root') /\ MergedPointwise(root, f, root')
      BY <1>3, <2>1, <2>4, MergeFragmentPointwise DEF RootInv
    <3>2. ~IsEmpty(root')
      <4>1. /\ Len(root.vector) \in Nat /\ Len(root.vector) # 0
            /\ root.begin \in Int /\ f.begin \in Int
            /\ BlockEnd(f) \in Int /\ BlockEnd(root) = root.begin + Len(root.vector)
        BY <2>4, BlockType DEF RootInv, IsEmpty
      <4>2. BlockEnd(root') = root'.begin + Len(root'.vector) /\ Len(root'.vector) \in Nat
        BY <3>1, BlockType
      <4>3. root'.begin < BlockEnd(root')
        BY <3>1, <4>1 DEF MergedPointwise
      <4>4. root'.begin \in Int
        BY <3>1, <4>1 DEF MergedPointwise
      <4> QED
        BY <4>2, <4>3, <4>4 DEF IsEmpty
    <3> QED
      BY <1>1, <2>2, <2>4, <3>1, <3>2
  <2> QED
    BY <2>3, <2>4
<1> QED
  BY <1>2, <1>3

(* The new root is backed, by what backed the old one or came with f.      *)
LEMMA AcceptBacks ==
  ASSUME RootInv, NEW f, WellFormed(f), ~IsEmpty(f), Accept(f)
  PROVE  RootBacked'
<1> SUFFICES ASSUME NEW p \in root'.begin .. (BlockEnd(root') - 1), IsVerified(root', p)
             PROVE  <<p, Sample(root', p)>> \in vouched'
  BY DEF RootBacked, BlockEnd, IsVerified, Sample
<1>1. /\ \A q \in f.begin .. (BlockEnd(f) - 1) :
           IsVerified(f, q) => <<q, Sample(f, q)>> \in vouched'
      /\ vouched \subseteq vouched'
  BY DEF Accept
<1>2. \A q \in root.begin .. (BlockEnd(root) - 1) :
        IsVerified(root, q) => <<q, Sample(root, q)>> \in vouched'
  BY <1>1 DEF RootInv, RootBacked
<1>3. CASE root' = root
  BY <1>2, <1>3
<1>4. CASE root' = f
  BY <1>1, <1>4
<1>5. CASE root # NoBlock /\ MergedPointwise(root, f, root')
  <2>1. /\ Sample(root', p) =
             IF Holds(root, p) /\ ~(Holds(f, p) /\ IsVerified(f, p) /\ ~IsVerified(root, p))
             THEN Sample(root, p) ELSE Sample(f, p)
        /\ IsVerified(root', p) =
             \/ Holds(root, p) /\ IsVerified(root, p)
             \/ Holds(f, p) /\ IsVerified(f, p)
    BY <1>5 DEF MergedPointwise
  <2>2. /\ root.begin \in Int /\ BlockEnd(root) \in Int
        /\ f.begin \in Int /\ BlockEnd(f) \in Int
        /\ WellFormed(root') /\ root'.begin \in Int /\ BlockEnd(root') \in Int
    BY BlockType, AcceptMerges DEF RootInv
  <2>3. CASE Holds(root, p) /\ IsVerified(root, p)
    <3>1. Sample(root', p) = Sample(root, p)
      BY <2>1, <2>3, Zenon
    <3>2. p \in root.begin .. (BlockEnd(root) - 1)
      BY <2>2, <2>3 DEF Holds
    <3> QED
      BY <1>2, <2>3, <3>1, <3>2, Zenon
  <2>4. CASE ~(Holds(root, p) /\ IsVerified(root, p))
    <3>1. Holds(f, p) /\ IsVerified(f, p) /\ Sample(root', p) = Sample(f, p)
      BY <2>1, <2>4, Zenon
    <3>2. p \in f.begin .. (BlockEnd(f) - 1)
      BY <2>2, <3>1 DEF Holds
    <3> QED
      BY <1>1, <3>1, <3>2, Zenon
  <2> QED
    BY <2>3, <2>4
<1> QED
  BY <1>3, <1>4, <1>5, AcceptMerges

Stays ==
  root' # NoBlock =>
    \A p \in root.begin .. (BlockEnd(root) - 1) :
      IsVerified(root, p) =>
        Holds(root', p) /\ IsVerified(root', p) /\ Sample(root', p) = Sample(root, p)

LEMMA SameRootStays ==
  ASSUME RootInv, root' = root
  PROVE  Stays
<1>1. root.begin \in Int /\ BlockEnd(root) \in Int
  BY BlockType DEF RootInv
<1>2. \A p \in root.begin .. (BlockEnd(root) - 1) : Holds(root, p)
  BY <1>1 DEF Holds
<1> QED
  BY <1>2, Zenon DEF Stays

LEMMA AcceptKeeps ==
  ASSUME RootInv, NEW f, WellFormed(f), ~IsEmpty(f), Accept(f)
  PROVE  Stays
<1>1. /\ root.begin \in Int /\ BlockEnd(root) \in Int
      /\ f.begin \in Int /\ BlockEnd(f) \in Int
  BY BlockType DEF RootInv
<1>2. CASE root' = root
  BY <1>2, SameRootStays
<1>3. CASE root = NoBlock
  <2>1. root.begin .. (BlockEnd(root) - 1) = {}
    BY <1>3 DEF NoBlock, BlockEnd
  <2> QED
    BY <2>1, Zenon DEF Stays
<1>4. CASE MergedPointwise(root, f, root')
  <2> SUFFICES ASSUME NEW p \in root.begin .. (BlockEnd(root) - 1), IsVerified(root, p)
               PROVE  /\ Holds(root', p) /\ IsVerified(root', p)
                      /\ Sample(root', p) = Sample(root, p)
    BY Zenon DEF Stays
  <2>1. Holds(root, p) /\ Holds(root', p) /\ p \in root'.begin .. (BlockEnd(root') - 1)
    BY <1>1, <1>4 DEF MergedPointwise, Holds
  <2> QED
    BY <1>4, <2>1, Zenon DEF MergedPointwise
<1> QED
  BY <1>2, <1>3, <1>4, AcceptMerges

-----------------------------------------------------------------------------
LEMMA AcceptInv ==
  ASSUME RootInv, NEW f, WellFormed(f), ~IsEmpty(f), Accept(f)
  PROVE  RootInv' /\ Stays
BY AcceptMerges, AcceptBacks, AcceptKeeps DEF RootInv, WellFormed, IsEmpty

LEMMA AcceptVerifiedBlock ==
  ASSUME RootInv, NEW over \in Overlaps, NEW data \in Reads(over), AcceptVerified(over, data),
         NEW f, f = Verified(over, data)
  PROVE  WellFormed(f) /\ ~IsEmpty(f) /\ Accept(f)
<1>1. Accept(f)
  BY DEF AcceptVerified
<1>2. cursor \in 0 .. Frames /\ cursor < Frames
  BY <1>1 DEF Accept, RootInv
<1>3. data \in Seq(Values) /\ Len(data) > 0 /\ BatchBegin(over) * FrameWords \in Int
  BY <1>2, BatchFits
<1> QED
  BY <1>1, <1>3, VerifiedBatch DEF Verified

LEMMA AcceptVotedBlock ==
  ASSUME RootInv, NEW over \in Overlaps, NEW data \in Reads(over), NEW missed,
         NEW f, f = Voted(over, data, missed),
         Accept(f)
  PROVE  WellFormed(f) /\ ~IsEmpty(f)
<1>1. cursor \in 0 .. Frames /\ cursor < Frames
  BY DEF Accept, RootInv
<1>2. data \in Seq(Values) /\ Len(data) > 0 /\ BatchBegin(over) * FrameWords \in Int
  BY <1>1, BatchFits
<1> QED
  BY <1>2, VotedBatch DEF Voted

LEMMA NextInv ==
  ASSUME RootInv, [Next]_vars
  PROVE  RootInv' /\ Stays
<1>1. ASSUME NEW over \in Overlaps, NEW data \in Reads(over), AcceptVerified(over, data)
      PROVE  RootInv' /\ Stays
  BY <1>1, AcceptVerifiedBlock, AcceptInv
<1>2. ASSUME NEW over \in Overlaps, NEW data \in Reads(over), AcceptVoted(over, data)
      PROVE  RootInv' /\ Stays
  <2>1. PICK missed \in SUBSET (1 .. Len(data)) : Accept(Voted(over, data, missed))
    BY <1>2 DEF AcceptVoted
  <2> QED
    BY <2>1, AcceptVotedBlock, AcceptInv
<1>3. ASSUME root' = root, vouched' = vouched, cursor' \in 0 .. Frames
      PROVE  RootInv' /\ Stays
  <2>1. Stays
    BY <1>3, SameRootStays
  <2> QED
    BY <1>3, <2>1 DEF RootInv, RootBacked, WellFormed, IsEmpty, BlockEnd, IsVerified, Sample
<1>4. CASE ServeFromRoot \/ Bypass
  <2>1. root' = root /\ vouched' = vouched /\ cursor' \in 0 .. Frames
    BY <1>4, FragmentsAssumption DEF ServeFromRoot, Bypass, store, history, RootInv
  <2> QED
    BY <1>3, <2>1
<1>5. CASE Seek
  <2>1. root' = NoBlock /\ cursor' \in 0 .. Frames
    BY <1>5, FragmentsAssumption DEF Seek
  <2>2. WellFormed(NoBlock) /\ BlockEnd(NoBlock) = 0 /\ NoBlock.begin = 0
    BY EmptySeq DEF WellFormed, NoBlock, Block, BlockEnd
  <2>3. RootBacked'
    BY <2>1, <2>2 DEF RootBacked, BlockEnd
  <2>4. Stays
    BY <2>1 DEF Stays
  <2> QED
    BY <2>1, <2>2, <2>3, <2>4 DEF RootInv, WellFormed
<1>6. CASE Rewind
  <2>1. root' = root /\ vouched' = vouched /\ cursor' \in 0 .. Frames
    BY <1>6, FragmentsAssumption DEF Rewind, store, history
  <2> QED
    BY <1>3, <2>1
<1>7. CASE UNCHANGED vars
  <2>1. root' = root /\ vouched' = vouched /\ cursor' \in 0 .. Frames
    BY <1>7 DEF vars, store, history, RootInv
  <2> QED
    BY <1>3, <2>1
<1> QED
  BY <1>1, <1>2, <1>4, <1>5, <1>6, <1>7 DEF Next

(* The root is well formed and backed in every reachable state.            *)
THEOREM RootInvariant == Spec => []RootInv
<1>1. Init => RootInv
  <2> SUFFICES ASSUME Init PROVE RootInv
    OBVIOUS
  <2>1. root = NoBlock /\ cursor = 0
    BY DEF Init
  <2>2. WellFormed(NoBlock) /\ BlockEnd(NoBlock) = 0 /\ NoBlock.begin = 0
    BY EmptySeq DEF WellFormed, NoBlock, Block, BlockEnd
  <2>3. RootBacked
    BY <2>1, <2>2 DEF RootBacked
  <2> QED
    BY <2>1, <2>2, <2>3, FragmentsAssumption DEF RootInv
<1>2. RootInv /\ [Next]_vars => RootInv'
  BY NextInv
<1> QED
  BY <1>1, <1>2, PTL DEF Spec

(* Every verified sample of the root came verified in some batch, with     *)
(* that value, since the last seek.                                        *)
THEOREM RootIsBacked == Spec => []RootBacked
<1>1. RootInv => RootBacked
  BY DEF RootInv
<1> QED
  BY <1>1, RootInvariant, PTL

(* A verified sample of the root keeps value and flag until a seek.        *)
THEOREM VerifiedStays == Spec => VerifiedRootStays
<1>1. RootInv /\ [Next]_vars => Stays
  BY NextInv
<1>2. RootInv /\ [Next]_vars =>
        [root' # NoBlock =>
           \A p \in root.begin .. (BlockEnd(root) - 1) :
             IsVerified(root, p) =>
               Holds(root', p) /\ IsVerified(root', p) /\ Sample(root', p) = Sample(root, p)]_vars
  BY <1>1 DEF Stays
<1> QED
  BY <1>2, RootInvariant, PTL DEF Spec, VerifiedRootStays

(* Whatever batch is accepted, verified or voted, merge_fragment keeps its *)
(* promise.                                                                *)
THEOREM MergesArePointwise == Spec => RootMergesPointwise
<1>1. ASSUME RootInv, NEW over \in Overlaps, NEW data \in Reads(over), ~panicked', root # NoBlock
      PROVE  /\ MergedOnAccept(Verified(over, data))
             /\ \A missed \in SUBSET (1 .. Len(data)) : MergedOnAccept(Voted(over, data, missed))
  <2>1. MergedOnAccept(Verified(over, data))
    <3> SUFFICES ASSUME Accept(Verified(over, data))
                 PROVE  MergedPointwise(root, Verified(over, data), root')
      BY DEF MergedOnAccept
    <3>1. AcceptVerified(over, data)
      BY DEF AcceptVerified
    <3> QED BY <1>1, <3>1, AcceptVerifiedBlock, AcceptMerges
  <2>2. ASSUME NEW missed \in SUBSET (1 .. Len(data))
        PROVE  MergedOnAccept(Voted(over, data, missed))
    <3> SUFFICES ASSUME Accept(Voted(over, data, missed))
                 PROVE  MergedPointwise(root, Voted(over, data, missed), root')
      BY DEF MergedOnAccept
    <3> QED BY <1>1, AcceptVotedBlock, AcceptMerges
  <2> QED BY <2>1, <2>2
<1>2. RootInv =>
        [root # NoBlock /\ ~panicked' =>
           \A overlap \in Overlaps : \A data \in Reads(overlap) :
             /\ MergedOnAccept(Verified(overlap, data))
             /\ \A missed \in SUBSET (1 .. Len(data)) :
                  MergedOnAccept(Voted(overlap, data, missed))]_vars
  BY <1>1
<1> QED
  BY <1>2, RootInvariant, PTL DEF Spec, RootMergesPointwise

-----------------------------------------------------------------------------
(* The list of fragments: sound blocks, apart. *)
ListInv ==
  /\ panicked \in BOOLEAN
  /\ fragments \in Seq(Sound(vouched \cup seenTwice, seen)) /\ ListApart(fragments)

LEMMA AcceptKeepsList ==
  ASSUME ListInv, NEW f, WellFormed(f), Accept(f)
  PROVE  ListInv'
<1> DEFINE C0 == vouched \cup seenTwice
           C == vouched' \cup seenTwice'
           O == seen'
<1>1. /\ vouched' = vouched \cup {<<p, Sample(f, p)>> : p \in
                                    {q \in f.begin .. (BlockEnd(f) - 1) : IsVerified(f, q)}}
      /\ seen' = seen \cup Facts(f) /\ seenTwice' = seenTwice \cup (seen \cap Facts(f))
      /\ fragments' = TryMergeFragment(fragments, f)
  BY DEF Accept
<1>2. panicked' \in BOOLEAN
  BY DEF Accept, ListInv
<1>3. Extends(C, O, C0, seen, f)
  BY <1>1 DEF Extends
<1>4. fragments \in Seq(Sound(C0, seen)) /\ ListApart(fragments)
  BY DEF ListInv
<1> HIDE DEF C0, C, O
<1>5. fragments' \in Seq(Sound(C, O)) /\ ListApart(fragments')
  BY <1>1, <1>3, <1>4, FragmentAdded
<1>6. Sound(vouched \cup seenTwice, seen)' = Sound(C, O)
  BY DEF C, O, Sound, Block, BlockEnd, Sample, IsVerified
<1> QED
  BY <1>2, <1>5, <1>6 DEF ListInv, ListApart, BlockEnd

LEMMA NextKeepsList ==
  ASSUME RootInv, ListInv, [Next]_vars
  PROVE  ListInv'
<1>1. ASSUME NEW over \in Overlaps, NEW data \in Reads(over), AcceptVerified(over, data)
      PROVE  ListInv'
  BY <1>1, AcceptVerifiedBlock, AcceptKeepsList
<1>2. ASSUME NEW over \in Overlaps, NEW data \in Reads(over), AcceptVoted(over, data)
      PROVE  ListInv'
  <2>1. PICK missed \in SUBSET (1 .. Len(data)) : Accept(Voted(over, data, missed))
    BY <1>2 DEF AcceptVoted
  <2> QED
    BY <2>1, AcceptVotedBlock, AcceptKeepsList
<1>3. CASE ServeFromRoot \/ Bypass \/ Rewind \/ UNCHANGED vars
  <2>1. /\ fragments' = fragments /\ panicked' = panicked
        /\ vouched' = vouched /\ seen' = seen /\ seenTwice' = seenTwice
    BY <1>3 DEF ServeFromRoot, Bypass, Rewind, vars, store, history
  <2> QED
    BY <2>1 DEF ListInv, ListApart, BlockEnd, Sound, Block, Sample, IsVerified
<1>4. CASE Seek
  <2>1. fragments' = <<>> /\ panicked' = panicked
    BY <1>4 DEF Seek
  <2> QED
    BY <2>1 DEF ListInv, ListApart
<1> QED
  BY <1>1, <1>2, <1>3, <1>4 DEF Next

(* Whatever is read, in whatever order, the fragments are sound blocks,    *)
(* sorted and apart.                                                       *)
THEOREM ListInvariant == Spec => []ListInv
<1>1. Init => ListInv
  <2> SUFFICES ASSUME Init PROVE ListInv
    OBVIOUS
  <2>1. fragments = <<>> /\ panicked = FALSE
    BY DEF Init
  <2>2. fragments \in Seq(Sound(vouched \cup seenTwice, seen))
    BY <2>1, EmptySeq
  <2>3. ListApart(<<>>)
    BY DEF ListApart
  <2> QED
    BY <2>1, <2>2, <2>3 DEF ListInv
<1>2. RootInv /\ ListInv /\ [Next]_vars => ListInv'
  BY NextKeepsList
<1> QED
  BY <1>1, <1>2, RootInvariant, PTL DEF Spec

(* consolidate_fragments leaves no two fragments that overlap or touch.    *)
THEOREM NoFragmentsTouch == Spec => []FragmentsApart
<1>1. ListInv => FragmentsApart
  <2> SUFFICES ASSUME ListInv, NEW i \in 1 .. (Len(fragments) - 1)
               PROVE  BlockEnd(fragments[i]) < fragments[i + 1].begin
    BY DEF FragmentsApart
  <2>1. Len(fragments) \in Nat /\ ListApart(fragments)
    BY DEF ListInv
  <2>2. i \in 1 .. Len(fragments) /\ i + 1 \in 1 .. Len(fragments) /\ i < i + 1
    BY <2>1
  <2> QED
    BY <2>1, <2>2 DEF ListApart
<1> QED
  BY <1>1, ListInvariant, PTL

(* No merge of fragments lends a flag to a sample that was neither         *)
(* verified when it came nor came twice.                                   *)
THEOREM FlagsAreEarned == Spec => []FragmentsBacked
<1>1. ListInv => FragmentsBacked
  <2> SUFFICES ASSUME ListInv, NEW i \in DOMAIN fragments,
                      NEW p \in fragments[i].begin .. (BlockEnd(fragments[i]) - 1),
                      IsVerified(fragments[i], p)
               PROVE  <<p, Sample(fragments[i], p)>> \in vouched \cup seenTwice
    BY DEF FragmentsBacked
  <2>1. fragments[i] \in Sound(vouched \cup seenTwice, seen)
    BY DEF ListInv
  <2> QED
    BY <2>1, Zenon DEF Sound
<1> QED
  BY <1>1, ListInvariant, PTL

(* Samples and flags stay in step in every block the reader keeps.         *)
THEOREM BlocksStayWellFormed == Spec => []TypeOK
<1>1. RootInv /\ ListInv => TypeOK
  <2> SUFFICES ASSUME RootInv, ListInv PROVE TypeOK
    OBVIOUS
  <2>1. \A i \in DOMAIN fragments : WellFormed(fragments[i])
    BY SoundType DEF ListInv
  <2> QED
    BY <2>1 DEF TypeOK, RootInv, ListInv
<1> QED
  BY <1>1, RootInvariant, ListInvariant, PTL

-----------------------------------------------------------------------------
(* The root in sectors *)

LEMMA ScaledOrder ==
  ASSUME NEW w \in Nat \ {0}, NEW a \in Int, NEW b \in Int
  PROVE  /\ a * w \in Int
         /\ a <= b => a * w <= b * w
         /\ a < b => a * w + w <= b * w
         /\ (a * w <= b * w) <=> (a <= b)
         /\ (a * w < b * w) <=> (a < b)
<1>1. \A x \in Nat : x * w >= 0 /\ (x >= 1 => x * w >= w)
  OBVIOUS
<1>2. b * w = a * w + (b - a) * w /\ a * w = b * w + (a - b) * w
  OBVIOUS
<1>3. CASE a <= b
  BY <1>1, <1>2, <1>3
<1>4. CASE b < a
  BY <1>1, <1>2, <1>4
<1> QED BY <1>3, <1>4

LEMMA ScaledDivides ==
  ASSUME NEW w \in Nat \ {0}, NEW a \in Int
  PROVE  (a * w) \div w = a
OBVIOUS

LEMMA FrameHalves ==
  /\ FrameWords \in Nat \ {0} /\ HalfWords \in Nat \ {0}
  /\ FrameWords = 2 * HalfWords
  /\ \A b \in Int : b * FrameWords = (2 * b) * HalfWords
<1>1. FrameWords \in Nat \ {0} /\ HalfWords \in Nat \ {0} /\ FrameWords = 2 * HalfWords
  BY FragmentsAssumption DEF HalfWords
<1> QED BY <1>1

(* Samples of a half lie in a stretch of halves if the half does, and none *)
(* of them does otherwise; so with a stretch of sectors.                   *)
Stretch(b, e) == (b * HalfWords) .. (e * HalfWords - 1)
Spans(b, e)   == (b * FrameWords) .. (e * FrameWords - 1)

LEMMA HalvesOfStretch ==
  ASSUME NEW b \in Int, NEW e \in Int, NEW h \in Int
  PROVE  /\ HalfSamples(h) # {} /\ HalfSamples(h) \subseteq Int
         /\ h \in b .. (e - 1) => HalfSamples(h) \subseteq Stretch(b, e)
         /\ h \notin b .. (e - 1) => HalfSamples(h) \cap Stretch(b, e) = {}
<1> DEFINE H == HalfWords
           x == h * H
           y == b * H
           z == e * H
<1>1. H \in Nat \ {0}
  BY FrameHalves
<1>2. /\ x \in Int /\ y \in Int /\ z \in Int
      /\ (h + 1) * H = x + H
  BY <1>1
<1>3. /\ b <= h => y <= x
      /\ h < b => x + H <= y
      /\ h < e => x + H <= z
      /\ e <= h => z <= x
  <2> HIDE DEF H
  <2> QED BY <1>1, ScaledOrder
<1>4. HalfSamples(h) = x .. (x + H - 1) /\ Stretch(b, e) = y .. (z - 1)
  BY <1>1, <1>2 DEF HalfSamples, Stretch
<1> HIDE DEF H, x, y, z
<1>5. x \in x .. (x + H - 1)
  BY <1>1, <1>2
<1>6. /\ HalfSamples(h) # {} /\ HalfSamples(h) \subseteq Int
      /\ h \in b .. (e - 1) <=> b <= h /\ h < e
  <2>1. x .. (x + H - 1) # {} /\ x .. (x + H - 1) \subseteq Int
    BY <1>1, <1>2, <1>5
  <2>2. h \in b .. (e - 1) <=> b <= h /\ h < e
    OBVIOUS
  <2> QED BY <1>4, <2>1, <2>2, Zenon
<1>7. CASE b <= h /\ h < e
  <2>1. x .. (x + H - 1) \subseteq y .. (z - 1)
    BY <1>1, <1>2, <1>3, <1>7
  <2> QED BY <1>4, <1>6, <1>7, <2>1, Zenon
<1>8. CASE h < b \/ e <= h
  <2>1. (x .. (x + H - 1)) \cap (y .. (z - 1)) = {}
    BY <1>1, <1>2, <1>3, <1>8
  <2>2. ~(b <= h /\ h < e)
    BY <1>8
  <2> QED BY <1>4, <1>6, <2>1, <2>2, Zenon
<1>9. (b <= h /\ h < e) \/ h < b \/ e <= h
  OBVIOUS
<1> QED BY <1>7, <1>8, <1>9, Zenon

LEMMA HalvesOfSpan ==
  ASSUME NEW b \in Int, NEW e \in Int, NEW h \in Int
  PROVE  /\ HalfSamples(h) # {} /\ HalfSamples(h) \subseteq Int
         /\ h \in (2 * b) .. (2 * e - 1) => HalfSamples(h) \subseteq Spans(b, e)
         /\ h \notin (2 * b) .. (2 * e - 1) => HalfSamples(h) \cap Spans(b, e) = {}
<1>1. 2 * b \in Int /\ 2 * e \in Int /\ Spans(b, e) = Stretch(2 * b, 2 * e)
  BY FrameHalves DEF Spans, Stretch
<1> QED BY <1>1, HalvesOfStretch

(* A block of the sectors from b to the one before e.                      *)
Aligned(r, b, e) ==
  /\ b \in Int /\ e \in Int /\ b <= e
  /\ r.begin = b * FrameWords /\ BlockEnd(r) = e * FrameWords
AllVerified(r, b, e) ==
  {h \in (2 * b) .. (2 * e - 1) : \A p \in HalfSamples(h) : IsVerified(r, p)}
(* no half has some of its samples verified, and some not                  *)
Uniform(r, b, e) ==
  \A h \in (2 * b) .. (2 * e - 1) :
    h \in AllVerified(r, b, e) \/ \A p \in HalfSamples(h) : ~IsVerified(r, p)

LEMMA AlignedInSectors ==
  ASSUME NEW r, NEW b, NEW e, Aligned(r, b, e)
  PROVE  /\ InSectors(r) = [begin |-> b, end |-> e, verified |-> AllVerified(r, b, e)]
         /\ \A p \in Int : Holds(r, p) <=> p \in Spans(b, e)
<1>1. r.begin \div FrameWords = b /\ BlockEnd(r) \div FrameWords = e
  BY ScaledDivides, FrameHalves DEF Aligned
<1>2. b * FrameWords \in Int /\ e * FrameWords \in Int
  BY FrameHalves DEF Aligned
<1>3. \A p \in Int : Holds(r, p) <=> p \in Spans(b, e)
  BY <1>2 DEF Aligned, Holds, Spans
<1> QED BY <1>1, <1>3, Zenon DEF InSectors, AllVerified

(* What merging does to the halves that are verified.                      *)
LEMMA MergedHalves ==
  ASSUME NEW r, NEW rb, NEW re, Aligned(r, rb, re), rb < re,
         NEW f, NEW fb, NEW fe, Aligned(f, fb, fe), fb < fe,
         fb <= re, rb <= fe,
         NEW m, MergedPointwise(r, f, m)
  PROVE  /\ Aligned(m, Keeper!Smaller(rb, fb), Keeper!Larger(re, fe))
         /\ LET mb == Keeper!Smaller(rb, fb)
                me == Keeper!Larger(re, fe)
            IN /\ AllVerified(r, rb, re) \subseteq AllVerified(m, mb, me)
               /\ AllVerified(f, fb, fe) \subseteq AllVerified(m, mb, me)
               /\ AllVerified(m, mb, me)
                    \subseteq AllVerified(r, rb, re) \cup ((2 * fb) .. (2 * fe - 1))
               /\ Uniform(f, fb, fe) =>
                    AllVerified(m, mb, me) = AllVerified(r, rb, re) \cup AllVerified(f, fb, fe)
<1> DEFINE mb == Keeper!Smaller(rb, fb)
           me == Keeper!Larger(re, fe)
<1>1. /\ rb \in Int /\ re \in Int /\ fb \in Int /\ fe \in Int
      /\ r.begin = rb * FrameWords /\ BlockEnd(r) = re * FrameWords
      /\ f.begin = fb * FrameWords /\ BlockEnd(f) = fe * FrameWords
  BY DEF Aligned
<1>2. /\ (fb < rb <=> f.begin < r.begin)
      /\ (fe > re <=> BlockEnd(f) > BlockEnd(r))
  BY <1>1, FrameHalves, ScaledOrder
<1>3. /\ mb \in Int /\ me \in Int /\ mb <= me
      /\ mb = IF fb < rb THEN fb ELSE rb
      /\ me = IF fe > re THEN fe ELSE re
  BY <1>1 DEF Keeper!Smaller, Keeper!Larger
<1>4. /\ m.begin = IF f.begin < r.begin THEN f.begin ELSE r.begin
      /\ BlockEnd(m) = IF BlockEnd(f) > BlockEnd(r) THEN BlockEnd(f) ELSE BlockEnd(r)
  BY DEF MergedPointwise
<1>5. m.begin = mb * FrameWords /\ BlockEnd(m) = me * FrameWords
  BY <1>1, <1>2, <1>3, <1>4
<1>6. Aligned(m, mb, me)
  BY <1>3, <1>5 DEF Aligned
<1>7. \A h \in Int : /\ h \in (2 * mb) .. (2 * me - 1) <=>
                          \/ h \in (2 * rb) .. (2 * re - 1)
                          \/ h \in (2 * fb) .. (2 * fe - 1)
  BY <1>1, <1>3
<1>8. /\ \A p \in Int : Holds(r, p) <=> p \in Spans(rb, re)
      /\ \A p \in Int : Holds(f, p) <=> p \in Spans(fb, fe)
      /\ \A p \in Int : Holds(m, p) <=> p \in Spans(mb, me)
  BY <1>6, AlignedInSectors
<1>9. \A p \in Int : Holds(m, p) =>
        (IsVerified(m, p) <=> \/ Holds(r, p) /\ IsVerified(r, p)
                              \/ Holds(f, p) /\ IsVerified(f, p))
  <2>1. m.begin \in Int /\ BlockEnd(m) \in Int
    BY <1>3, <1>5, FrameHalves
  <2>2. \A p \in Int : Holds(m, p) => p \in m.begin .. (BlockEnd(m) - 1)
    BY <2>1 DEF Holds
  <2> QED BY <2>2, Zenon DEF MergedPointwise
<1> HIDE DEF mb, me
<1>10. ASSUME NEW h \in (2 * mb) .. (2 * me - 1)
       PROVE  /\ h \in AllVerified(r, rb, re) => h \in AllVerified(m, mb, me)
              /\ h \in AllVerified(f, fb, fe) => h \in AllVerified(m, mb, me)
              /\ h \in AllVerified(m, mb, me) /\ h \notin (2 * fb) .. (2 * fe - 1)
                   => h \in AllVerified(r, rb, re)
              /\ h \in AllVerified(m, mb, me) /\ Uniform(f, fb, fe)
                   => h \in AllVerified(r, rb, re) \/ h \in AllVerified(f, fb, fe)
  <2>1. h \in Int
    BY <1>3
  <2>2. /\ HalfSamples(h) # {} /\ HalfSamples(h) \subseteq Int
        /\ HalfSamples(h) \subseteq Spans(mb, me)
        /\ h \in (2 * rb) .. (2 * re - 1) => HalfSamples(h) \subseteq Spans(rb, re)
        /\ h \notin (2 * rb) .. (2 * re - 1) => HalfSamples(h) \cap Spans(rb, re) = {}
        /\ h \in (2 * fb) .. (2 * fe - 1) => HalfSamples(h) \subseteq Spans(fb, fe)
        /\ h \notin (2 * fb) .. (2 * fe - 1) => HalfSamples(h) \cap Spans(fb, fe) = {}
    BY <1>1, <1>3, <2>1, HalvesOfSpan
  <2>3. \A p \in HalfSamples(h) :
          /\ IsVerified(m, p) <=> \/ p \in Spans(rb, re) /\ IsVerified(r, p)
                                  \/ p \in Spans(fb, fe) /\ IsVerified(f, p)
    BY <1>8, <1>9, <2>2, Zenon
  <2>4. h \in (2 * rb) .. (2 * re - 1) \/ h \in (2 * fb) .. (2 * fe - 1)
    BY <1>7, <2>1
  <2>5. h \in AllVerified(r, rb, re) => h \in AllVerified(m, mb, me)
    BY <2>2, <2>3, Zenon DEF AllVerified
  <2>6. h \in AllVerified(f, fb, fe) => h \in AllVerified(m, mb, me)
    BY <2>2, <2>3, Zenon DEF AllVerified
  <2>7. ASSUME h \in AllVerified(m, mb, me), h \notin (2 * fb) .. (2 * fe - 1)
        PROVE  h \in AllVerified(r, rb, re)
    BY <2>2, <2>3, <2>4, <2>7, Zenon DEF AllVerified
  <2>8. ASSUME h \in AllVerified(m, mb, me), Uniform(f, fb, fe), h \notin AllVerified(f, fb, fe)
        PROVE  h \in AllVerified(r, rb, re)
    <3>1. \A p \in HalfSamples(h) : ~(p \in Spans(fb, fe) /\ IsVerified(f, p))
      BY <2>2, <2>8, Zenon DEF Uniform
    <3>2. \A p \in HalfSamples(h) : p \in Spans(rb, re) /\ IsVerified(r, p)
      BY <2>3, <2>8, <3>1, Zenon DEF AllVerified
    <3>3. h \in (2 * rb) .. (2 * re - 1)
      BY <2>2, <3>2, Zenon
    <3> QED BY <3>2, <3>3, Zenon DEF AllVerified
  <2> QED BY <2>5, <2>6, <2>7, <2>8
<1>11. /\ AllVerified(r, rb, re) \subseteq (2 * mb) .. (2 * me - 1)
       /\ AllVerified(f, fb, fe) \subseteq (2 * mb) .. (2 * me - 1)
       /\ AllVerified(m, mb, me) \subseteq (2 * mb) .. (2 * me - 1)
  <2>1. /\ (2 * rb) .. (2 * re - 1) \subseteq (2 * mb) .. (2 * me - 1)
        /\ (2 * fb) .. (2 * fe - 1) \subseteq (2 * mb) .. (2 * me - 1)
    BY <1>1, <1>3
  <2> QED BY <2>1, Zenon DEF AllVerified
<1>12. /\ AllVerified(r, rb, re) \subseteq AllVerified(m, mb, me)
       /\ AllVerified(f, fb, fe) \subseteq AllVerified(m, mb, me)
  BY <1>10, <1>11, Zenon
<1>13. AllVerified(m, mb, me) \subseteq AllVerified(r, rb, re) \cup ((2 * fb) .. (2 * fe - 1))
  BY <1>10, <1>11, Zenon
<1>14. Uniform(f, fb, fe) =>
         AllVerified(m, mb, me) = AllVerified(r, rb, re) \cup AllVerified(f, fb, fe)
  BY <1>10, <1>11, Zenon
<1> QED BY <1>6, <1>12, <1>13, <1>14 DEF mb, me

(* A batch is of whole sectors, around the frame at the cursor.            *)
LEMMA BatchAligned ==
  ASSUME cursor \in 0 .. Frames, cursor < Frames, NEW over \in Overlaps, NEW data \in Reads(over),
         NEW f, f.begin = BatchBegin(over) * FrameWords, f.vector = data
  PROVE  /\ Aligned(f, BatchBegin(over), BatchEnd(over)) /\ BatchBegin(over) < BatchEnd(over)
         /\ BatchBegin(over) \in 0 .. cursor /\ BatchEnd(over) \in (cursor + 1) .. Frames
         /\ Len(data) = BatchEnd(over) * FrameWords - BatchBegin(over) * FrameWords
<1> DEFINE b == BatchBegin(over)
           e == BatchEnd(over)
           n == (e - b) * FrameWords
<1>1. b \in 0 .. cursor /\ e \in (cursor + 1) .. Frames
  BY FragmentsAssumption DEF BatchBegin, BatchEnd
<1>2. data \in [1 .. n -> Values]
  BY DEF Reads
<1> HIDE DEF b, e
<1>3. /\ n = e * FrameWords - b * FrameWords /\ n \in Nat
      /\ e * FrameWords \in Int /\ b * FrameWords \in Int
  BY <1>1, FrameHalves
<1> HIDE DEF n
<1>4. Len(data) = n
  BY <1>2, <1>3
<1>5. BlockEnd(f) = e * FrameWords
  BY <1>3, <1>4 DEF BlockEnd, b
<1> QED BY <1>1, <1>3, <1>4, <1>5 DEF Aligned, b, e

LEMMA BlockFields ==
  ASSUME NEW b, NEW v, NEW w, NEW f, f = [begin |-> b, vector |-> v, flags |-> w]
  PROVE  f.begin = b /\ f.vector = v /\ f.flags = w
  OBVIOUS

(* mark_edges leaves all halves but the first and the last one verified.   *)
LEMMA MatchedHalves ==
  ASSUME cursor \in 0 .. Frames, cursor < Frames, NEW over \in Overlaps, NEW data \in Reads(over),
         NEW f, f = Verified(over, data)
  PROVE  /\ f.begin = BatchBegin(over) * FrameWords /\ f.vector = data
         /\ AllVerified(f, BatchBegin(over), BatchEnd(over))
              = Keeper!InnerHalves(BatchBegin(over), BatchEnd(over))
         /\ Uniform(f, BatchBegin(over), BatchEnd(over))
<1> DEFINE b == BatchBegin(over)
           e == BatchEnd(over)
           g == FromSamplesVerified(data, b * FrameWords)
           n == Len(data)
           H == HalfWords
           w == [i \in 1 .. Len(g.flags) |->
                   g.flags[i] /\ i > H /\ ~(Len(g.flags) > H /\ i > Len(g.flags) - H)]
<1>1. g = [begin |-> b * FrameWords, vector |-> data, flags |-> [i \in 1 .. n |-> TRUE]]
  BY DEF FromSamplesVerified
<1>2. f = [g EXCEPT !.flags = w]
  BY DEF Verified, MarkEdges, HalfWords
<1>3. n \in Nat /\ data \in Seq(Values)
  BY BatchFits
<1>4. Len(g.flags) = n /\ \A i \in 1 .. n : g.flags[i] = TRUE
  BY <1>1, <1>3
<1> HIDE DEF g
<1>5. f = [begin |-> b * FrameWords, vector |-> data, flags |-> w]
  <2> HIDE DEF w
  <2> QED BY <1>1, <1>2
<1>6. f.begin = b * FrameWords /\ f.vector = data /\ f.flags = w
  <2> HIDE DEF w
  <2> QED BY <1>5, BlockFields
<1>7. /\ b \in Int /\ e \in Int /\ b < e
      /\ n = e * FrameWords - b * FrameWords
  BY <1>6, BatchAligned
<1> DEFINE y == b * FrameWords
           z == e * FrameWords
<1>8. /\ y \in Int /\ z \in Int /\ H \in Nat \ {0} /\ y + 2 * H <= z
      /\ (2 * b + 1) * H = y + H /\ (2 * e - 1) * H = z - H
  <2>1. /\ b * FrameWords \in Int /\ e * FrameWords \in Int
        /\ b * FrameWords + FrameWords <= e * FrameWords
    BY <1>7, FrameHalves, ScaledOrder
  <2>2. (2 * b + 1) * H = (2 * b) * H + H /\ (2 * e - 1) * H = (2 * e) * H - H
    BY <1>7, FrameHalves
  <2> QED BY <1>7, <2>1, <2>2, FrameHalves
<1>9. Stretch(2 * b + 1, 2 * e - 1) = (y + H) .. (z - H - 1)
  BY <1>8 DEF Stretch
<1>10. n = z - y
  BY <1>7
<1> HIDE DEF n, H, y, z
<1>11. \A i \in 1 .. n : w[i] <=> i > H /\ i <= n - H
  <2>1. \A i \in 1 .. n : w[i] <=> i > H /\ ~(n > H /\ i > n - H)
    BY <1>4, Zenon
  <2>2. \A i \in 1 .. n : i > H /\ ~(n > H /\ i > n - H) <=> i > H /\ i <= n - H
    BY <1>3, <1>8, <1>10
  <2> HIDE DEF w
  <2> QED BY <2>1, <2>2, Zenon
<1>12. \A p \in y .. (z - 1) : IsVerified(f, p) <=> p \in Stretch(2 * b + 1, 2 * e - 1)
  <2> SUFFICES ASSUME NEW p \in y .. (z - 1)
               PROVE  IsVerified(f, p) <=> p \in Stretch(2 * b + 1, 2 * e - 1)
    OBVIOUS
  <2>1. p - y + 1 \in 1 .. n
    BY <1>8, <1>10
  <2>2. IsVerified(f, p) <=> w[p - y + 1]
    <3> HIDE DEF w
    <3> QED BY <1>6, Zenon DEF IsVerified, y
  <2>3. w[p - y + 1] <=> p - y + 1 > H /\ p - y + 1 <= n - H
    BY <1>11, <2>1
  <2>4. p \in (y + H) .. (z - H - 1) <=> p - y + 1 > H /\ p - y + 1 <= n - H
    BY <1>8, <1>10
  <2> QED BY <1>9, <2>2, <2>3, <2>4, Zenon
<1>13. ASSUME NEW h \in (2 * b) .. (2 * e - 1)
       PROVE  /\ h \in AllVerified(f, b, e) <=> h \in (2 * b + 1) .. (2 * e - 2)
              /\ h \in AllVerified(f, b, e) \/ \A p \in HalfSamples(h) : ~IsVerified(f, p)
  <2>1. /\ h \in Int /\ 2 * b + 1 \in Int /\ 2 * e - 1 \in Int
        /\ (2 * e - 1) - 1 = 2 * e - 2
    BY <1>7
  <2>2. HalfSamples(h) \subseteq y .. (z - 1)
    BY <1>7, <2>1, HalvesOfSpan DEF Spans, y, z
  <2>3. /\ HalfSamples(h) # {}
        /\ h \in (2 * b + 1) .. (2 * e - 2)
             => HalfSamples(h) \subseteq Stretch(2 * b + 1, 2 * e - 1)
        /\ h \notin (2 * b + 1) .. (2 * e - 2)
             => HalfSamples(h) \cap Stretch(2 * b + 1, 2 * e - 1) = {}
    BY <2>1, HalvesOfStretch
  <2> QED BY <1>12, <2>2, <2>3, Zenon DEF AllVerified
<1>14. (2 * b + 1) .. (2 * e - 2) \subseteq (2 * b) .. (2 * e - 1)
  BY <1>7
<1>15. AllVerified(f, b, e) = (2 * b + 1) .. (2 * e - 2)
  <2>1. AllVerified(f, b, e) \subseteq (2 * b) .. (2 * e - 1)
    BY Zenon DEF AllVerified
  <2> QED BY <1>13, <1>14, <2>1, Zenon
<1>16. Uniform(f, b, e)
  BY <1>13, Zenon DEF Uniform
<1> QED BY <1>6, <1>15, <1>16 DEF Keeper!InnerHalves

(* The root is always of whole sectors.                                    *)
RootAligned == \E b, e : Aligned(root, b, e)
KeptInv == RootInv /\ RootAligned /\ panicked \in BOOLEAN

LEMMA NoBlockInSectors ==
  /\ Aligned(NoBlock, 0, 0) /\ InSectors(NoBlock) = Keeper!EmptyRoot
<1>1. NoBlock.begin = 0 /\ BlockEnd(NoBlock) = 0
  BY EmptySeq DEF NoBlock, BlockEnd
<1>2. Aligned(NoBlock, 0, 0)
  BY <1>1, FrameHalves DEF Aligned
<1>3. AllVerified(NoBlock, 0, 0) = {}
  <2>1. (2 * 0) .. (2 * 0 - 1) = {}
    OBVIOUS
  <2> QED BY <2>1, Zenon DEF AllVerified
<1> QED BY <1>2, <1>3, AlignedInSectors DEF Keeper!EmptyRoot

(* A batch that is accepted, in sectors.                                   *)
LEMMA AcceptKept ==
  ASSUME KeptInv, NEW over \in Overlaps, NEW data \in Reads(over),
         NEW f, WellFormed(f), ~IsEmpty(f), f.begin = BatchBegin(over) * FrameWords,
         f.vector = data, Accept(f)
  PROVE  /\ RootAligned' /\ panicked' \in BOOLEAN
         /\ panicked' => Keeper!Panic
         /\ ~panicked' => Keeper!Merge(BatchBegin(over), BatchEnd(over),
                            Keeper!Halves(BatchBegin(over), BatchEnd(over))
                              \cap InSectors(root').verified)
         /\ (/\ ~panicked' /\ Uniform(f, BatchBegin(over), BatchEnd(over))
             /\ AllVerified(f, BatchBegin(over), BatchEnd(over))
                  = Keeper!InnerHalves(BatchBegin(over), BatchEnd(over)))
              => Keeper!Merge(BatchBegin(over), BatchEnd(over),
                              Keeper!InnerHalves(BatchBegin(over), BatchEnd(over)))
         /\ BatchBegin(over) \in 0 .. cursor /\ BatchEnd(over) \in (cursor + 1) .. Frames
<1> DEFINE fb == BatchBegin(over)
           fe == BatchEnd(over)
<1>1. /\ ~panicked /\ cursor \in 0 .. Frames /\ cursor < Frames
      /\ ~Covers(root, CursorAt, CursorAt + FrameWords)
      /\ IF MergePanics(root, f)
         THEN panicked' = TRUE /\ UNCHANGED <<root, cursor>>
         ELSE root' = MergeFragment(root, f) /\ cursor' = cursor + 1 /\ UNCHANGED panicked
  BY DEF KeptInv, RootInv, Accept
<1>2. /\ Aligned(f, fb, fe) /\ fb < fe /\ fb \in 0 .. cursor /\ fe \in (cursor + 1) .. Frames
  BY <1>1, BatchAligned
<1>3. PICK rb, re : Aligned(root, rb, re)
  BY DEF KeptInv, RootAligned
<1>4. /\ rb \in Int /\ re \in Int /\ rb <= re /\ fb \in Int /\ fe \in Int
      /\ cursor \in Int /\ Frames \in Nat \ {0}
      /\ root.begin = rb * FrameWords /\ BlockEnd(root) = re * FrameWords
      /\ f.begin = fb * FrameWords /\ BlockEnd(f) = fe * FrameWords
  BY <1>1, <1>2, <1>3, FragmentsAssumption DEF Aligned
<1>5. InSectors(root) = [begin |-> rb, end |-> re, verified |-> AllVerified(root, rb, re)]
  BY <1>3, AlignedInSectors
<1>6. InSectors(f) = [begin |-> fb, end |-> fe, verified |-> AllVerified(f, fb, fe)]
  BY <1>2, AlignedInSectors
<1>7. IsEmpty(root) <=> rb = re
  <2>1. BlockEnd(root) = root.begin + Len(root.vector) /\ Len(root.vector) \in Nat
    BY BlockType DEF KeptInv, RootInv
  <2>2. rb = re <=> rb * FrameWords = re * FrameWords
    BY <1>4, FrameHalves, ScaledOrder
  <2>3. rb * FrameWords \in Int
    BY <1>4, FrameHalves
  <2> QED BY <1>4, <2>1, <2>2, <2>3 DEF IsEmpty
<1>8. ~Keeper!Covers(InSectors(root), cursor)
  <2>1. CursorAt = cursor * FrameWords /\ CursorAt + FrameWords = (cursor + 1) * FrameWords
    BY <1>4, FrameHalves DEF CursorAt
  <2>2. ~(rb * FrameWords <= cursor * FrameWords /\ (cursor + 1) * FrameWords <= re * FrameWords)
    BY <1>1, <1>4, <2>1 DEF Covers
  <2>3. /\ rb <= cursor => rb * FrameWords <= cursor * FrameWords
        /\ cursor + 1 <= re => (cursor + 1) * FrameWords <= re * FrameWords
    BY <1>4, FrameHalves, ScaledOrder
  <2> QED BY <1>5, <2>2, <2>3 DEF Keeper!Covers
<1>9. /\ re * FrameWords < fb * FrameWords <=> re < fb
      /\ fe * FrameWords < rb * FrameWords <=> fe < rb
  BY <1>4, FrameHalves, ScaledOrder
<1>10. MergePanics(root, f) <=> rb # re /\ (re < fb \/ fe < rb)
  BY <1>4, <1>7, <1>9 DEF MergePanics, Apart
<1> HIDE DEF fb, fe
<1>11. CASE MergePanics(root, f)
  <2>1. Keeper!Separated(InSectors(root), cursor, cursor + 1)
    BY <1>2, <1>4, <1>5, <1>10, <1>11 DEF Keeper!Separated, Keeper!IsEmpty
  <2>2. panicked' = TRUE /\ root' = root /\ cursor' = cursor
    BY <1>1, <1>11
  <2>3. RootAligned'
    BY <1>3, <2>2 DEF RootAligned, Aligned, BlockEnd
  <2>4. InSectors(root)' = InSectors(root)
    BY <2>2
  <2>5. Keeper!Panic
    BY <1>1, <2>1, <2>2, <2>4 DEF Keeper!Panic
  <2> QED BY <1>2, <2>2, <2>3, <2>5 DEF fb, fe
<1>12. CASE ~MergePanics(root, f)
  <2>1. /\ root' = MergeFragment(root, f) /\ cursor' = cursor + 1
        /\ panicked' = panicked /\ ~panicked'
    BY <1>1, <1>12
  <2>2. ~Keeper!Separated(InSectors(root), fb, fe)
    BY <1>4, <1>5, <1>10, <1>12 DEF Keeper!Separated, Keeper!IsEmpty
  <2>3. ASSUME NEW v, InSectors(root') = Keeper!MergeFragment(InSectors(root), fb, fe, v)
        PROVE  Keeper!Merge(fb, fe, v)
    <3>1. InSectors(root)' = InSectors(root')
      OBVIOUS
    <3>2. fb <= cursor /\ cursor < fe
      BY <1>2, <1>4
    <3> QED BY <1>1, <1>8, <2>1, <2>2, <2>3, <3>1, <3>2 DEF Keeper!Merge
  <2>4. CASE rb = re
    <3>1. root' = f
      BY <1>7, <2>1, <2>4 DEF MergeFragment, IsEmpty
    <3>2. RootAligned'
      BY <1>2, <3>1 DEF RootAligned, Aligned, BlockEnd
    <3>3. \A v : Keeper!MergeFragment(InSectors(root), fb, fe, v)
                   = [begin |-> fb, end |-> fe, verified |-> v]
      BY <1>5, <2>4 DEF Keeper!MergeFragment, Keeper!IsEmpty
    <3>4. InSectors(root') = Keeper!MergeFragment(InSectors(root), fb, fe, AllVerified(f, fb, fe))
      BY <1>6, <3>1, <3>3
    <3>5. AllVerified(f, fb, fe) = Keeper!Halves(fb, fe) \cap InSectors(root').verified
      <4>1. InSectors(root').verified = AllVerified(f, fb, fe)
        BY <1>6, <3>1
      <4>2. AllVerified(f, fb, fe) \subseteq Keeper!Halves(fb, fe)
        BY Zenon DEF AllVerified, Keeper!Halves
      <4> QED BY <4>1, <4>2, Zenon
    <3>6. Keeper!Merge(fb, fe, AllVerified(f, fb, fe))
      BY <2>3, <3>4
    <3>7. Keeper!Merge(fb, fe, Keeper!Halves(fb, fe) \cap InSectors(root').verified)
      BY <3>5, <3>6, Zenon
    <3>8. AllVerified(f, fb, fe) = Keeper!InnerHalves(fb, fe)
            => Keeper!Merge(fb, fe, Keeper!InnerHalves(fb, fe))
      BY <3>6, Zenon
    <3> QED BY <1>1, <1>2, <2>1, <3>2, <3>7, <3>8 DEF fb, fe, KeptInv
  <2>5. CASE rb # re
    <3> DEFINE mb == Keeper!Smaller(rb, fb)
               me == Keeper!Larger(re, fe)
    <3>1. MergedPointwise(root, f, root')
      BY <1>7, <1>12, <2>1, <2>5, MergeFragmentPointwise DEF KeptInv, RootInv
    <3>2. rb < re /\ fb < fe /\ fb <= re /\ rb <= fe
      BY <1>2, <1>4, <1>10, <1>12, <2>5
    <3>3. /\ Aligned(root', mb, me)
          /\ AllVerified(root, rb, re) \subseteq AllVerified(root', mb, me)
          /\ AllVerified(f, fb, fe) \subseteq AllVerified(root', mb, me)
          /\ AllVerified(root', mb, me)
               \subseteq AllVerified(root, rb, re) \cup ((2 * fb) .. (2 * fe - 1))
          /\ Uniform(f, fb, fe) =>
               AllVerified(root', mb, me) = AllVerified(root, rb, re) \cup AllVerified(f, fb, fe)
      BY <1>2, <1>3, <3>1, <3>2, MergedHalves
    <3> HIDE DEF mb, me
    <3>4. RootAligned'
      BY <3>3 DEF RootAligned, Aligned, BlockEnd
    <3>5. InSectors(root') = [begin |-> mb, end |-> me, verified |-> AllVerified(root', mb, me)]
      BY <3>3, AlignedInSectors
    <3>6. \A v : Keeper!MergeFragment(InSectors(root), fb, fe, v)
                   = [begin |-> mb, end |-> me, verified |-> AllVerified(root, rb, re) \cup v]
      BY <1>5, <2>5 DEF Keeper!MergeFragment, Keeper!IsEmpty, mb, me
    <3> DEFINE v == Keeper!Halves(fb, fe) \cap InSectors(root').verified
    <3>7. AllVerified(root', mb, me) = AllVerified(root, rb, re) \cup v
      <4>1. InSectors(root').verified = AllVerified(root', mb, me)
        BY <3>5
      <4> QED BY <3>3, <4>1, Zenon DEF Keeper!Halves
    <3>8. Keeper!Merge(fb, fe, v)
      <4> HIDE DEF v
      <4> QED BY <2>3, <3>5, <3>6, <3>7
    <3>9. ASSUME AllVerified(f, fb, fe) = Keeper!InnerHalves(fb, fe), Uniform(f, fb, fe)
          PROVE  Keeper!Merge(fb, fe, Keeper!InnerHalves(fb, fe))
      BY <2>3, <3>3, <3>5, <3>6, <3>9
    <3> QED BY <1>1, <1>2, <2>1, <3>4, <3>8, <3>9 DEF fb, fe, KeptInv
  <2> QED BY <2>4, <2>5
<1> QED BY <1>11, <1>12

LEMMA VotedHasBatch ==
  ASSUME KeptInv, NEW over \in Overlaps, NEW data \in Reads(over), AcceptVoted(over, data)
  PROVE  \E f : /\ WellFormed(f) /\ ~IsEmpty(f) /\ Accept(f)
                /\ f.begin = BatchBegin(over) * FrameWords /\ f.vector = data
<1>1. PICK missed \in SUBSET (1 .. Len(data)) : Accept(Voted(over, data, missed))
  BY DEF AcceptVoted
<1> DEFINE f == Voted(over, data, missed)
<1>2. WellFormed(f) /\ ~IsEmpty(f)
  BY <1>1, AcceptVotedBlock DEF KeptInv
<1>3. f.begin = BatchBegin(over) * FrameWords /\ f.vector = data
  BY DEF Voted
<1> HIDE DEF f
<1>4. Accept(f)
  BY <1>1 DEF f
<1> QED BY <1>2, <1>3, <1>4

(* A step of a batch is a merge around the cursor, or the panic.           *)
LEMMA BatchStepKept ==
  ASSUME KeptInv, NEW over \in Overlaps, NEW data \in Reads(over),
         AcceptVerified(over, data) \/ AcceptVoted(over, data)
  PROVE  RootAligned' /\ panicked' \in BOOLEAN /\ Keeper!Next
<1>1. PICK f : /\ WellFormed(f) /\ ~IsEmpty(f) /\ Accept(f)
               /\ f.begin = BatchBegin(over) * FrameWords /\ f.vector = data
  <2>1. CASE AcceptVerified(over, data)
    <3> DEFINE f == Verified(over, data)
    <3>1. WellFormed(f) /\ ~IsEmpty(f) /\ Accept(f)
      BY <2>1, AcceptVerifiedBlock DEF KeptInv
    <3>2. cursor \in 0 .. Frames /\ cursor < Frames
      BY <3>1 DEF Accept, KeptInv, RootInv
    <3>3. f.begin = BatchBegin(over) * FrameWords /\ f.vector = data
      BY <3>2, MatchedHalves
    <3> QED BY <3>1, <3>3
  <2>2. CASE AcceptVoted(over, data)
    BY <2>2, VotedHasBatch
  <2> QED BY <2>1, <2>2
<1>2. /\ RootAligned' /\ panicked' \in BOOLEAN
      /\ panicked' => Keeper!Panic
      /\ ~panicked' => Keeper!Merge(BatchBegin(over), BatchEnd(over),
                         Keeper!Halves(BatchBegin(over), BatchEnd(over))
                           \cap InSectors(root').verified)
      /\ BatchBegin(over) \in 0 .. cursor /\ BatchEnd(over) \in (cursor + 1) .. Frames
  BY <1>1, AcceptKept
<1>3. (Frames - 1) + 1 = Frames
  BY FragmentsAssumption
<1> QED BY <1>2, <1>3 DEF Keeper!Next

LEMMA NextKept ==
  ASSUME KeptInv, [Next]_vars
  PROVE  KeptInv' /\ [Keeper!Next]_(Keeper!vars)
<1>1. RootInv'
  BY NextInv DEF KeptInv
<1>2. ASSUME NEW over \in Overlaps, NEW data \in Reads(over),
         AcceptVerified(over, data) \/ AcceptVoted(over, data)
      PROVE  KeptInv' /\ [Keeper!Next]_(Keeper!vars)
  BY <1>1, <1>2, BatchStepKept DEF KeptInv
<1>3. cursor \in Int
  BY FragmentsAssumption DEF KeptInv, RootInv
<1>4. ASSUME root' = root, panicked' = panicked, ~panicked, cursor' \in Int
      PROVE  KeptInv' /\ [Keeper!Next]_(Keeper!vars)
  <2>1. RootAligned'
    BY <1>4 DEF KeptInv, RootAligned, Aligned, BlockEnd
  <2>2. InSectors(root)' = InSectors(root)
    BY <1>4
  <2>3. Keeper!Move
    BY <1>4, <2>2 DEF Keeper!Move
  <2> QED BY <1>1, <1>4, <2>1, <2>3 DEF KeptInv, Keeper!Next
<1>5. CASE ServeFromRoot \/ Bypass
  <2>1. root' = root /\ panicked' = panicked /\ ~panicked /\ cursor' \in Int
    BY <1>3, <1>5 DEF ServeFromRoot, Bypass, store
  <2> QED BY <1>4, <2>1
<1>6. CASE Rewind
  <2>1. root' = root /\ panicked' = panicked /\ ~panicked /\ cursor' \in Int
    BY <1>6 DEF Rewind, store
  <2> QED BY <1>4, <2>1
<1>7. CASE Seek
  <2>1. root' = NoBlock /\ panicked' = panicked /\ ~panicked /\ cursor' \in Int
    BY <1>7, FragmentsAssumption DEF Seek
  <2>2. RootAligned' /\ InSectors(root)' = Keeper!EmptyRoot
    BY <2>1, NoBlockInSectors DEF RootAligned, Aligned, BlockEnd
  <2>3. Keeper!Forget
    BY <2>1, <2>2 DEF Keeper!Forget
  <2> QED BY <1>1, <2>1, <2>2, <2>3 DEF KeptInv, Keeper!Next
<1>8. CASE UNCHANGED vars
  <2>1. root' = root /\ panicked' = panicked /\ cursor' = cursor
    BY <1>8 DEF vars, store
  <2>2. RootAligned'
    BY <2>1 DEF KeptInv, RootAligned, Aligned, BlockEnd
  <2> QED BY <1>1, <2>1, <2>2 DEF KeptInv, Keeper!vars
<1> QED BY <1>2, <1>5, <1>6, <1>7, <1>8 DEF Next

LEMMA KeptInvariant == Spec => []KeptInv
<1>1. Init => KeptInv
  <2> SUFFICES ASSUME Init PROVE KeptInv
    OBVIOUS
  <2>1. RootInv
    <3>1. root = NoBlock /\ cursor = 0
      BY DEF Init
    <3>2. WellFormed(NoBlock) /\ BlockEnd(NoBlock) = 0 /\ NoBlock.begin = 0
      BY EmptySeq DEF WellFormed, NoBlock, Block, BlockEnd
    <3>3. RootBacked
      BY <3>1, <3>2 DEF RootBacked
    <3> QED BY <3>1, <3>2, <3>3, FragmentsAssumption DEF RootInv
  <2>2. RootAligned
    BY NoBlockInSectors DEF Init, RootAligned
  <2> QED BY <2>1, <2>2 DEF Init, KeptInv
<1>2. KeptInv /\ [Next]_vars => KeptInv'
  BY NextKept
<1> QED BY <1>1, <1>2, PTL DEF Spec

(* merge_fragment and clear, sample by sample, keep the root as ReadLoop   *)
(* assumes it is kept: a gapless stretch of sectors that grows around the  *)
(* cursor.                                                                 *)
THEOREM RootIsKeptInSectors == Spec => RootKeptInSectors
<1>1. Init => Keeper!Init
  BY NoBlockInSectors DEF Init, Keeper!Init
<1>2. KeptInv /\ [Next]_vars => [Keeper!Next]_(Keeper!vars)
  BY NextKept
<1> QED BY <1>1, <1>2, KeptInvariant, PTL DEF Spec, RootKeptInSectors, Keeper!Spec

MergesInnerHalves(over) ==
  Keeper!Merge(BatchBegin(over), BatchEnd(over),
               Keeper!InnerHalves(BatchBegin(over), BatchEnd(over)))

(* Of a batch that was recognised or read twice the root comes to vouch    *)
(* for exactly the halves mark_edges leaves, and for no half in part.      *)
MatchVouchesInside ==
  [][\A overlap \in Overlaps : \A data \in Reads(overlap) :
       AcceptVerified(overlap, data) /\ ~panicked' => MergesInnerHalves(overlap)]_vars
THEOREM MatchesVouchInside == Spec => MatchVouchesInside
<1>1. ASSUME KeptInv, NEW over \in Overlaps, NEW data \in Reads(over),
             AcceptVerified(over, data), ~panicked'
      PROVE  MergesInnerHalves(over)
  <2> DEFINE f == Verified(over, data)
  <2>1. WellFormed(f) /\ ~IsEmpty(f) /\ Accept(f)
    BY <1>1, AcceptVerifiedBlock DEF KeptInv
  <2>2. cursor \in 0 .. Frames /\ cursor < Frames
    BY <1>1, <2>1 DEF Accept, KeptInv, RootInv
  <2>3. /\ f.begin = BatchBegin(over) * FrameWords /\ f.vector = data
        /\ AllVerified(f, BatchBegin(over), BatchEnd(over))
             = Keeper!InnerHalves(BatchBegin(over), BatchEnd(over))
        /\ Uniform(f, BatchBegin(over), BatchEnd(over))
    BY <1>1, <2>2, MatchedHalves
  <2> HIDE DEF f
  <2> QED BY <1>1, <2>1, <2>3, AcceptKept DEF MergesInnerHalves
<1>2. KeptInv =>
        [\A overlap \in Overlaps : \A data \in Reads(overlap) :
           AcceptVerified(overlap, data) /\ ~panicked' => MergesInnerHalves(overlap)]_vars
  BY <1>1
<1> QED BY <1>2, KeptInvariant, PTL DEF Spec, MatchVouchesInside
=============================================================================
