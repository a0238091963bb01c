----------------------------- MODULE Stage1Proofs -----------------------------
(***************************************************************************)
(* Stage 1 for batches of any length, discs of any length and content and  *)
(* drives that misread and shift in any way the constants allow: what the  *)
(* two searches find and what they have ruled out when they find nothing,  *)
(* and what the recorded offsets do to the overlap.                        *)
(***************************************************************************)
EXTENDS Stage1, SortIndexProofs, DynOverlapProofs, FiniteSetTheorems

-----------------------------------------------------------------------------
(* The inductive invariant *)

DriveGave(b, d) ==
  \E misread \in Misread : \A i \in Places(b) :
    b.samples[i] = IF b.begin + i - 1 \in misread THEN Click
                   ELSE d[b.begin + i - 1 + b.shift]

(* a batch that the drive gave, or a vote made of what it gave             *)
SoundBatch(b, d) ==
  /\ b \in Blocks /\ Indexable(b) /\ b.shift \in Shifts
  /\ Len(b.samples) > 0 /\ EndOf(b) <= Sectors * FrameWords
  /\ DriveGave(b, d)

BatchesSound ==
  /\ disc \in Discs
  /\ cache \in Seq(Blocks) /\ Len(cache) <= CacheLimit
  /\ \A k \in DOMAIN cache : SoundBatch(cache[k], disc)
  /\ new \in Blocks /\ Indexable(new)
  /\ pc = "read" => new = NoBatch
  /\ pc # "read" => SoundBatch(new, disc)

IndexesSound ==
  /\ indexed \in 0 .. Len(new.samples)
  /\ pc # "index" => indexed = 0
  /\ IndexDescribesBlock

(* a spot the search for b in c may stand at: its candidate holds the      *)
(* sample that is tried                                                    *)
SpotFits(s, c, b, tries) ==
  /\ s \in [block : 1 .. Len(c) + 1, try : DOMAIN tries, candidate : Nat]
  /\ s.block \in DOMAIN c =>
       /\ s.candidate \in 0 .. Len(c[s.block].samples)
       /\ s.candidate # 0 =>
            c[s.block].samples[s.candidate] = b.samples[tries[s.try] + 1]

TriesOf(pass, b) == IF pass = "isort" THEN IsortTries(b) ELSE OverlapTries(b)

HitAt(pass, a, i, b, j) ==
  IF pass = "isort" THEN MatchesFrom(a, i, b, j, MinWordsSearch)
                    ELSE MatchesSomewhere(a, b, OffsetTo(a, i, b, j), MinWordsOverlap)

SpotSound ==
  IF pc \in Searching THEN SpotFits(spot, cache, new, TriesOf(pc, new)) ELSE spot = NoSpot

(* the place j of the k-th block is no match for the t-th position         *)
Rules(pass, c, b, k, t, j) ==
  LET i == TriesOf(pass, b)[t] + 1 IN
    c[k].samples[j] = b.samples[i] => ~HitAt(pass, b, i, c[k], j)

(* the search has been there *)
Before(s, k, t) == k < s.block \/ (k = s.block /\ t < s.try)
Passed(s, k, t, j) == Before(s, k, t) \/ (k = s.block /\ t = s.try /\ j > s.candidate)

PassedRules(pass, s, c, b) ==
  \A k \in DOMAIN c : Overlapping(b, c[k]) =>
    \A t \in DOMAIN TriesOf(pass, b), j \in Places(c[k]) :
      Passed(s, k, t, j) => Rules(pass, c, b, k, t, j)

AllRules(pass, c, b) ==
  \A k \in DOMAIN c : Overlapping(b, c[k]) =>
    \A t \in DOMAIN TriesOf(pass, b), j \in Places(c[k]) : Rules(pass, c, b, k, t, j)

Searched ==
  /\ pc \in Searching => PassedRules(pc, spot, cache, new)
  /\ pc \in {"overlap", "unknown"} => AllRules("isort", cache, new)
  /\ pc = "unknown" => AllRules("overlap", cache, new)

(* until it is full, a ring is filled from its start                       *)
RingsSound ==
  /\ dyn \in Dynamic /\ log \in Seq(Int) /\ offset \in Int
  /\ setBy \in {"start", "jitter", "caller"}
  /\ dyn.stage1.count < RingSize => dyn.stage1.index = dyn.stage1.count
  /\ RingsHoldLatest /\ OverlapCovers

Phases == Searching \cup {"read", "recognised", "unknown", "index"}

SearchInv ==
  /\ pc \in Phases
  /\ BatchesSound /\ IndexesSound /\ SpotSound /\ Searched /\ FoundIsRun

-----------------------------------------------------------------------------
(* Batches and the spots of a search *)

LEMMA BatchFacts ==
  ASSUME NEW b, NEW d, SoundBatch(b, d)
  PROVE  /\ b.begin \in Nat /\ b.samples \in Seq(Values) /\ Len(b.samples) \in Nat \ {0}
         /\ Places(b) = 1 .. Len(b.samples)
         /\ \A t \in 1 .. 4 : IsortTries(b)[t] + 1 \in Places(b)
         /\ \A t \in 1 .. 3 : OverlapTries(b)[t] + 1 \in Places(b)
         /\ DOMAIN IsortTries(b) = 1 .. 4 /\ Len(IsortTries(b)) = 4
         /\ DOMAIN OverlapTries(b) = 1 .. 3 /\ Len(OverlapTries(b)) = 3
<1> DEFINE n == Len(b.samples)
<1>1. b.begin \in Nat /\ b.samples \in Seq(Values)
  BY DEF SoundBatch, Blocks
<1>2. n \in Nat \ {0}
  BY <1>1 DEF SoundBatch
<1>3. Places(b) = 1 .. n
  BY DEF Places
<1> HIDE DEF n
<1>4. /\ 0 + 1 \in 1 .. n /\ (n \div 4) + 1 \in 1 .. n
      /\ (n \div 2) + 1 \in 1 .. n /\ ((3 * n) \div 4) + 1 \in 1 .. n
  BY <1>2
<1>5. IsortTries(b) = <<0, n \div 4, n \div 2, (3 * n) \div 4>>
  BY DEF IsortTries, n
<1>6. OverlapTries(b) = <<0, n \div 4, n \div 2>>
  BY DEF OverlapTries, n
<1>7. \A t \in 1 .. 4 : IsortTries(b)[t] + 1 \in 1 .. n
  BY <1>4, <1>5
<1>8. \A t \in 1 .. 3 : OverlapTries(b)[t] + 1 \in 1 .. n
  BY <1>4, <1>6
<1>9. DOMAIN IsortTries(b) = 1 .. 4 /\ Len(IsortTries(b)) = 4
  BY <1>5
<1>10. DOMAIN OverlapTries(b) = 1 .. 3 /\ Len(OverlapTries(b)) = 3
  BY <1>6
<1> QED BY <1>1, <1>2, <1>3, <1>7, <1>8, <1>9, <1>10 DEF n

(* What the drive gives for a range that lies within the disc is a sound   *)
(* batch.                                                                  *)
LEMMA DriveGivesSound ==
  ASSUME disc \in Discs, NEW begin \in Nat, NEW end \in Nat, begin < end,
         end <= Sectors * FrameWords, NEW shift \in Shifts, NEW misread \in Misread
  PROVE  LET b == DriveGives(begin, end, shift, misread) IN
           /\ SoundBatch(b, disc) /\ Describes(b, 0)
           /\ b.begin = begin /\ Len(b.samples) = end - begin
<1> DEFINE samples == [i \in 1 .. end - begin |->
                         IF begin + i - 1 \in misread THEN Click
                         ELSE disc[begin + i - 1 + shift]]
           b == Unindexed(begin, samples, shift)
<1>1. DriveGives(begin, end, shift, misread) = b
  BY DEF DriveGives
<1>2. \A i \in 1 .. end - begin : samples[i] \in Values
  <2> SUFFICES ASSUME NEW i \in 1 .. end - begin PROVE samples[i] \in Values
    OBVIOUS
  <2>1. Sectors * FrameWords \in Nat /\ begin + i - 1 \in 0 .. Sectors * FrameWords - 1
    <3>1. Sectors \in Nat /\ FrameWords \in Nat
      BY Stage1Assumption, DynOverlapAssumption
    <3>2. Sectors * FrameWords \in Nat
      BY <3>1
    <3> QED BY <3>2
  <2>2. disc[begin + i - 1 + shift] \in Values /\ Click \in Values
    BY <2>1, Stage1Assumption
  <2> QED BY <2>2
<1>3. samples \in Seq(Values) /\ Len(samples) = end - begin
  <2>1. end - begin \in Nat
    OBVIOUS
  <2>2. samples \in [1 .. end - begin -> Values]
    BY <1>2
  <2> HIDE DEF samples
  <2> QED BY <2>1, <2>2
<1>4. \A i \in 1 .. end - begin :
        samples[i] = IF begin + i - 1 \in misread THEN Click ELSE disc[begin + i - 1 + shift]
  OBVIOUS
<1> HIDE DEF samples
<1>5. Indexable(b) /\ Describes(b, 0)
  BY <1>3, UnindexedDescribes
<1>6. /\ b.begin = begin /\ b.samples = samples /\ b.shift = shift
      /\ b.heads = [v \in Values |-> 0] /\ b.links = [i \in 1 .. end - begin |-> 0]
  BY <1>3 DEF Unindexed
<1>7. b \in Blocks
  <2>1. [i \in 1 .. end - begin |-> 0] \in Seq(Nat) /\ [v \in Values |-> 0] \in [Values -> Nat]
    <3>1. end - begin \in Nat
      OBVIOUS
    <3>2. [i \in 1 .. end - begin |-> 0] \in [1 .. end - begin -> Nat]
      OBVIOUS
    <3> QED BY <3>1, <3>2
  <2> QED BY <1>3, <1>6, <2>1 DEF Blocks, Unindexed
<1>8. DriveGave(b, disc)
  BY <1>3, <1>4, <1>6 DEF DriveGave, Places
<1>9. EndOf(b) = end
  BY <1>3, <1>6 DEF EndOf
<1> HIDE DEF b
<1> QED BY <1>1, <1>3, <1>5, <1>6, <1>7, <1>8, <1>9 DEF SoundBatch

(* A batch begins and ends on the disc and holds something (read_c_block). *)
LEMMA RangeOfBatch ==
  ASSUME dyn \in Dynamic, NEW target \in 0 .. Sectors - 1
  PROVE  LET begin == FirstSector(target) * FrameWords
             end == EndSector(target) * FrameWords
         IN  begin \in Nat /\ end \in Nat /\ begin < end /\ end <= Sectors * FrameWords
<1> DEFINE f == FirstSector(target)
           e == EndSector(target)
<1>1. /\ Sectors \in Nat \ {0} /\ BatchSectors \in Nat \ {0} /\ MinSectors \in Nat
      /\ FrameWords \in Nat \ {0}
  BY Stage1Assumption, DynOverlapAssumption
<1>2. OverlapSectors(dyn) \in Nat
  <2>1. dyn.overlap + FrameWords - 1 \in Nat
    BY <1>1 DEF Dynamic
  <2> QED BY <1>1, <2>1, DivNat DEF OverlapSectors
<1>3. Reach \in Nat
  BY <1>1, <1>2 DEF Reach, Larger
<1>4. f \in Nat /\ e \in Nat /\ f < e /\ e <= Sectors
  BY <1>1, <1>3 DEF FirstSector, EndSector, Larger, Smaller
<1> HIDE DEF f, e
<1>5. ASSUME NEW x \in Nat, NEW y \in Nat, x <= y
      PROVE  x * FrameWords \in Nat /\ x * FrameWords <= y * FrameWords
  <2>1. PICK z \in Nat : y = x + z
    <3>1. y - x \in Nat /\ y = x + (y - x)
      BY <1>5
    <3> QED BY <3>1
  <2>2. y * FrameWords = x * FrameWords + z * FrameWords
    BY <1>1, <2>1
  <2>3. z * FrameWords \in Nat /\ x * FrameWords \in Nat
    BY <1>1
  <2> QED BY <2>2, <2>3
<1>6. ASSUME NEW x \in Nat, NEW y \in Nat, x < y
      PROVE  x * FrameWords < y * FrameWords
  <2>1. PICK z \in Nat : y = x + 1 + z
    <3>1. y - x - 1 \in Nat /\ y = x + 1 + (y - x - 1)
      BY <1>6
    <3> QED BY <3>1
  <2>2. y * FrameWords = x * FrameWords + FrameWords + z * FrameWords
    BY <1>1, <2>1
  <2>3. z * FrameWords \in Nat /\ x * FrameWords \in Nat
    BY <1>1
  <2> QED BY <1>1, <2>2, <2>3
<1> QED BY <1>1, <1>4, <1>5, <1>6 DEF f, e

(* Where a search of a block at a position begins: at the last place of    *)
(* the sample that is tried.                                               *)
LEMMA SpotAtFits ==
  ASSUME cache \in Seq(Blocks),
         \A q \in DOMAIN cache : SoundBatch(cache[q], disc),
         IndexDescribesBlock,
         NEW b, SoundBatch(b, disc),
         NEW tries \in {IsortTries(b), OverlapTries(b)},
         NEW k \in 1 .. Len(cache) + 1, NEW t \in DOMAIN tries
  PROVE  LET s == SpotAt(k, t, b, tries) IN
           /\ SpotFits(s, cache, b, tries) /\ s.block = k /\ s.try = t
           /\ k \in DOMAIN cache =>
                \A j \in Places(cache[k]) :
                  j > s.candidate => cache[k].samples[j] # b.samples[tries[t] + 1]
<1> DEFINE s == SpotAt(k, t, b, tries)
           v == b.samples[tries[t] + 1]
<1>1. s.block = k /\ s.try = t /\ s \in [block : {k}, try : {t}, candidate : {s.candidate}]
  BY DEF SpotAt
<1>2. v \in Values
  <2>1. tries[t] + 1 \in Places(b)
    BY BatchFacts
  <2>2. tries[t] + 1 \in 1 .. Len(b.samples) /\ b.samples \in Seq(Values)
    BY <2>1, BatchFacts
  <2> QED BY <2>2
<1>3. CASE k \notin DOMAIN cache
  <2>1. s.candidate = 0
    BY <1>3 DEF SpotAt
  <2> QED BY <1>1, <1>3, <2>1 DEF SpotFits
<1>4. CASE k \in DOMAIN cache
  <2> DEFINE c == cache[k]
             n == Len(c.samples)
  <2>1. s.candidate = c.heads[v]
    BY <1>4 DEF SpotAt
  <2>2. Indexable(c) /\ n \in 0 .. n /\ Describes(c, n) /\ Places(c) = 1 .. n
    <3>1. SoundBatch(c, disc)
      BY <1>4
    <3> QED BY <1>4, <3>1, BatchFacts DEF SoundBatch, IndexDescribesBlock
  <2>3. c.heads[v] \in Nat
    BY <1>2, <2>2 DEF Indexable
  <2> HIDE DEF s, v, c, n
  <2>4. /\ c.heads[v] # 0 => c.heads[v] <= n /\ c.samples[c.heads[v]] = v
        /\ \A j \in c.heads[v] + 1 .. n : c.samples[j] # v
    BY <1>2, <2>2, HeadsLead DEF n
  <2>5. n \in Nat /\ s.candidate \in 0 .. n
    <3>1. n \in Nat
      BY <2>2
    <3> QED BY <2>1, <2>3, <2>4, <3>1
  <2>6. SpotFits(s, cache, b, tries)
    <3>1. cache[s.block].samples[s.candidate] = b.samples[tries[s.try] + 1] <=>
            c.samples[s.candidate] = v
      BY <1>1 DEF c, v
    <3>2. Len(cache[s.block].samples) = n
      BY <1>1 DEF c, n
    <3> QED BY <1>1, <1>4, <2>1, <2>3, <2>4, <2>5, <3>1, <3>2 DEF SpotFits
  <2>7. ASSUME NEW j \in Places(c), j > s.candidate
        PROVE  c.samples[j] # v
    <3>1. j \in c.heads[v] + 1 .. n
      BY <2>1, <2>2, <2>3, <2>5, <2>7
    <3> QED BY <2>4, <3>1
  <2> QED BY <1>1, <2>6, <2>7 DEF s, v, c
<1> QED BY <1>3, <1>4

-----------------------------------------------------------------------------
(* The invariant holds at first and is preserved *)

LEMMA NoBatchFacts ==
  NoBatch \in Blocks /\ Indexable(NoBatch) /\ Describes(NoBatch, 0) /\ Len(NoBatch.samples) = 0
<1>1. Indexable(NoBatch) /\ Describes(NoBatch, 0)
  <2> DEFINE zero == 0
             none == <<>>
  <2>1. zero \in Int /\ none \in Seq(Values) /\ NoBatch = Unindexed(zero, none, zero)
    BY DEF NoBatch
  <2> HIDE DEF zero, none
  <2>2. Indexable(NoBatch) /\ Describes(NoBatch, 0)
    BY <2>1, UnindexedDescribes
  <2> QED BY <2>2
<1>2. NoBatch = [begin |-> 0, samples |-> <<>>, shift |-> 0,
                 heads |-> [v \in Values |-> 0], links |-> [i \in DOMAIN <<>> |-> 0]]
  BY DEF NoBatch, Unindexed
<1>3. [i \in DOMAIN <<>> |-> 0] \in Seq(Nat)
  <2>1. DOMAIN <<>> = 1 .. 0
    OBVIOUS
  <2>2. [i \in 1 .. 0 |-> 0] \in [1 .. 0 -> Nat]
    OBVIOUS
  <2> QED BY <2>1, <2>2
<1>4. NoBatch \in Blocks
  BY <1>2, <1>3 DEF Blocks
<1> QED BY <1>1, <1>2, <1>4

LEMMA SearchInit == Init => SearchInv
<1> SUFFICES ASSUME Init PROVE SearchInv
  OBVIOUS
<1>1. BatchesSound
  <2>1. Len(cache) = 0 /\ cache \in Seq(Blocks) /\ DOMAIN cache = {}
    BY DEF Init
  <2> QED BY <2>1, NoBatchFacts, Stage1Assumption DEF Init, BatchesSound
<1>2. IndexesSound
  BY NoBatchFacts DEF Init, IndexesSound, IndexDescribesBlock
<1>3. SpotSound /\ Searched /\ FoundIsRun /\ pc \in Phases
  BY DEF Init, SpotSound, Searched, FoundIsRun, Phases, Searching
<1> QED BY <1>1, <1>2, <1>3 DEF SearchInv

(* The batches at hand stay what the drive gave.                           *)
LEMMA BatchesStep ==
  ASSUME SearchInv, dyn \in Dynamic, [Next]_vars
  PROVE  BatchesSound'
<1> USE DEF SearchInv
<1>1. CASE UNCHANGED <<disc, cache, new, pc>>
  BY <1>1 DEF BatchesSound
<1>2. ASSUME NEW target \in 0 .. Sectors - 1, NEW s \in Shifts, NEW m \in Misread,
             ReadBatch(target, s, m)
      PROVE  BatchesSound'
  <2>1. SoundBatch(new', disc)
    BY <1>2, RangeOfBatch, DriveGivesSound DEF ReadBatch, BatchesSound
  <2> QED BY <1>2, <2>1 DEF ReadBatch, BatchesSound, SoundBatch
<1>3. CASE Seek
  <2>1. Len(cache') = 0 /\ cache' \in Seq(Blocks) /\ DOMAIN cache' = {} /\ CacheLimit >= 0
    BY <1>3, Stage1Assumption DEF Seek
  <2> QED BY <1>3, <2>1 DEF Seek, BatchesSound
<1>4. CASE UNCHANGED <<disc, cache, new>> /\ pc # "read" /\ pc' # "read"
  BY <1>4 DEF BatchesSound
<1>5. CASE Reject
  BY <1>5, NoBatchFacts DEF Reject, BatchesSound
<1>6. ASSUME NEW s \in Shifts, NEW m \in Misread, AcceptVote(s, m)
      PROVE  BatchesSound'
  <2>1. SoundBatch(new, disc)
    BY <1>6 DEF AcceptVote, BatchesSound
  <2>2. new.begin \in Nat /\ EndOf(new) \in Nat /\ new.begin < EndOf(new)
        /\ EndOf(new) <= Sectors * FrameWords
    BY <2>1, BatchFacts, SMTT(60) DEF EndOf, SoundBatch
  <2>3. SoundBatch(new', disc)
    BY <1>6, <2>2, DriveGivesSound DEF AcceptVote, BatchesSound
  <2> QED BY <1>6, <2>3 DEF AcceptVote, BatchesSound, SoundBatch
<1>7. CASE InsertNext
  <2> DEFINE n == indexed + 1
  <2>1. new' = Insert(new, n) /\ n \in 1 .. Len(new.samples) /\ pc # "read" /\ pc' = pc
        /\ cache' = cache /\ disc' = disc
    BY <1>7 DEF InsertNext, IndexesSound
  <2>2. SoundBatch(new, disc)
    BY <2>1 DEF BatchesSound
  <2>3. new \in Blocks /\ Indexable(new) /\ new.samples[n] \in Values
    BY <2>1, <2>2, BatchFacts DEF SoundBatch
  <2>4. Indexable(new')
    <3>1. Describes(new, indexed) /\ indexed \in 0 .. Len(new.samples) - 1
      BY <1>7 DEF InsertNext, IndexesSound, IndexDescribesBlock
    <3> QED BY <2>1, <2>3, <3>1, InsertDescribes
  <2>5. /\ new' \in [begin : {new.begin}, samples : {new.samples}, shift : {new.shift},
                     heads : [Values -> Nat], links : [1 .. Len(new.samples) -> Nat]]
    BY <2>1, <2>3, <2>4 DEF Insert, Indexable, Blocks
  <2>6. [1 .. Len(new.samples) -> Nat] \subseteq Seq(Nat)
    <3>1. Len(new.samples) \in Nat
      BY <2>2, BatchFacts
    <3> QED BY <3>1
  <2>7. new' \in Blocks
    BY <2>3, <2>5, <2>6 DEF Blocks
  <2>8. SoundBatch(new', disc)
    BY <2>2, <2>4, <2>5, <2>7 DEF SoundBatch, DriveGave, Places, EndOf
  <2> QED BY <2>1, <2>4, <2>7, <2>8 DEF BatchesSound
<1>8. CASE CacheBatch
  <2>1. /\ cache' = TrimCache(Append(cache, new)) /\ new' = NoBatch /\ pc' = "read"
        /\ SoundBatch(new, disc) /\ disc' = disc
    BY <1>8 DEF CacheBatch, BatchesSound
  <2> DEFINE longer == Append(cache, new)
  <2>2. longer \in Seq(Blocks) /\ Len(longer) <= CacheLimit + 1
        /\ \A k \in DOMAIN longer : SoundBatch(longer[k], disc)
    <3>1. /\ cache \in Seq(Blocks) /\ new \in Blocks /\ Len(cache) <= CacheLimit
          /\ \A k \in 1 .. Len(cache) : SoundBatch(cache[k], disc)
      BY DEF BatchesSound
    <3>2. /\ longer \in Seq(Blocks) /\ Len(longer) = Len(cache) + 1
          /\ \A k \in 1 .. Len(longer) :
               longer[k] = IF k = Len(longer) THEN new ELSE cache[k]
      BY <3>1
    <3>3. Len(cache) \in Nat /\ CacheLimit \in Nat
      BY <3>1, Stage1Assumption
    <3> HIDE DEF longer
    <3>4. \A k \in 1 .. Len(longer) : k = Len(longer) \/ k \in 1 .. Len(cache)
      BY <3>2, <3>3
    <3> QED BY <2>1, <3>1, <3>2, <3>3, <3>4
  <2> HIDE DEF longer
  <2>3. /\ TrimCache(longer) \in Seq(Blocks) /\ Len(TrimCache(longer)) <= CacheLimit
        /\ \A k \in DOMAIN TrimCache(longer) :
             \E l \in DOMAIN longer : TrimCache(longer)[k] = longer[l]
    BY <2>2, Stage1Assumption DEF TrimCache
  <2>4. \A k \in DOMAIN cache' : SoundBatch(cache'[k], disc)
    BY <2>1, <2>2, <2>3 DEF longer
  <2> QED BY <2>1, <2>3, <2>4, NoBatchFacts DEF BatchesSound, longer
<1> QED
  BY <1>1, <1>2, <1>3, <1>4, <1>5, <1>6, <1>7, <1>8
  DEF Next, Caller, Search, Rest, vars, CallerSetsOverlap, NextCandidate, Recognise,
      NextPosition, PassBlock, SearchExhausted, Candidate, AtBlock, Searching, Accept,
      AcceptSecondRead

(* Every index stays described, the one of the batch at hand as far as it  *)
(* has got.                                                                *)
LEMMA IndexesStep ==
  ASSUME SearchInv, dyn \in Dynamic, [Next]_vars
  PROVE  IndexesSound'
<1> USE DEF SearchInv
<1>1. CASE UNCHANGED <<cache, new, indexed>> /\ (pc' = "index" \/ pc # "index")
  BY <1>1 DEF IndexesSound, IndexDescribesBlock
<1>2. CASE UNCHANGED vars
  BY <1>2 DEF vars, IndexesSound, IndexDescribesBlock
<1>3. CASE indexed' = 0 /\ Describes(new', 0) /\ Len(new'.samples) \in Nat
           /\ \A k \in DOMAIN cache' : Describes(cache'[k], Len(cache'[k].samples))
  BY <1>3 DEF IndexesSound, IndexDescribesBlock
<1>4. ASSUME NEW target \in 0 .. Sectors - 1, NEW s \in Shifts, NEW m \in Misread,
             ReadBatch(target, s, m)
      PROVE  IndexesSound'
  <2>1. SoundBatch(new', disc) /\ Describes(new', 0)
    BY <1>4, RangeOfBatch, DriveGivesSound DEF ReadBatch, BatchesSound
  <2>2. indexed' = 0 /\ Len(new'.samples) \in Nat /\ cache' = cache
    BY <1>4, <2>1, BatchFacts DEF ReadBatch, IndexesSound
  <2> QED BY <1>3, <2>1, <2>2 DEF IndexesSound, IndexDescribesBlock
<1>5. CASE Seek
  <2>1. indexed' = 0 /\ new' = NoBatch /\ DOMAIN cache' = {}
    BY <1>5 DEF Seek, BatchesSound, IndexesSound
  <2> QED BY <1>3, <2>1, NoBatchFacts
<1>6. CASE Reject
  <2>1. indexed' = 0 /\ new' = NoBatch /\ cache' = cache
    BY <1>6 DEF Reject, IndexesSound
  <2> QED BY <1>3, <2>1, NoBatchFacts DEF IndexesSound, IndexDescribesBlock
<1>7. ASSUME NEW s \in Shifts, NEW m \in Misread, AcceptVote(s, m)
      PROVE  IndexesSound'
  <2>1. SoundBatch(new, disc)
    BY <1>7 DEF AcceptVote, BatchesSound
  <2>2. new.begin \in Nat /\ EndOf(new) \in Nat /\ new.begin < EndOf(new)
        /\ EndOf(new) <= Sectors * FrameWords
    BY <2>1, BatchFacts, SMTT(60) DEF EndOf, SoundBatch
  <2>3. SoundBatch(new', disc) /\ Describes(new', 0)
    BY <1>7, <2>2, DriveGivesSound DEF AcceptVote, BatchesSound
  <2>4. indexed' = 0 /\ Len(new'.samples) \in Nat /\ cache' = cache
    BY <1>7, <2>3, BatchFacts DEF AcceptVote, IndexesSound
  <2> QED BY <1>3, <2>3, <2>4 DEF IndexesSound, IndexDescribesBlock
<1>8. CASE InsertNext
  <2>1. /\ new' = Insert(new, indexed + 1) /\ indexed' = indexed + 1 /\ pc' = "index"
        /\ cache' = cache /\ indexed \in 0 .. Len(new.samples) - 1 /\ indexed \in Nat
        /\ Describes(new, indexed) /\ Indexable(new)
    BY <1>8 DEF InsertNext, IndexesSound, IndexDescribesBlock, BatchesSound
  <2>2. Describes(new', indexed')
    BY <2>1, InsertDescribes
  <2>3. new'.samples = new.samples
    BY <2>1 DEF Insert, Indexable
  <2>4. indexed' \in 0 .. Len(new'.samples)
    BY <2>1, <2>3
  <2> QED BY <2>1, <2>2, <2>4 DEF IndexesSound, IndexDescribesBlock
<1>9. CASE CacheBatch
  <2> DEFINE longer == Append(cache, new)
             whole(b) == Describes(b, Len(b.samples))
  <2>1. /\ cache' = TrimCache(longer) /\ new' = NoBatch /\ indexed' = 0
        /\ cache \in Seq(Blocks) /\ new \in Blocks /\ whole(new)
        /\ \A k \in 1 .. Len(cache) : whole(cache[k])
    BY <1>9 DEF CacheBatch, BatchesSound, IndexesSound, IndexDescribesBlock
  <2> HIDE DEF whole
  <2>2. longer \in Seq(Blocks) /\ \A k \in 1 .. Len(longer) : whole(longer[k])
    <3>1. /\ longer \in Seq(Blocks) /\ Len(longer) = Len(cache) + 1 /\ Len(cache) \in Nat
          /\ \A k \in 1 .. Len(longer) :
               longer[k] = IF k = Len(longer) THEN new ELSE cache[k]
      BY <2>1
    <3> HIDE DEF longer
    <3>2. \A k \in 1 .. Len(longer) : k = Len(longer) \/ k \in 1 .. Len(cache)
      BY <3>1
    <3> QED BY <2>1, <3>1, <3>2
  <2> HIDE DEF longer
  <2>3. \A k \in DOMAIN TrimCache(longer) :
          \E l \in 1 .. Len(longer) : TrimCache(longer)[k] = longer[l]
    BY <2>2, Stage1Assumption DEF TrimCache
  <2>4. \A k \in DOMAIN cache' : whole(cache'[k])
    BY <2>1, <2>2, <2>3
  <2> QED BY <1>3, <2>1, <2>4, NoBatchFacts DEF whole
<1> QED
  BY <1>1, <1>2, <1>4, <1>5, <1>6, <1>7, <1>8, <1>9
  DEF Next, Caller, Search, Rest, vars, CallerSetsOverlap, NextCandidate, Recognise,
      NextPosition, PassBlock, SearchExhausted, Candidate, AtBlock, Searching, Accept,
      AcceptSecondRead

(* A search that moves on to a position passes over nothing that matches:  *)
(* what lies behind the place at which it begins holds another sample.     *)
LEMMA SpotAtPassed ==
  ASSUME cache \in Seq(Blocks),
         \A q \in DOMAIN cache : SoundBatch(cache[q], disc),
         IndexDescribesBlock,
         NEW b, SoundBatch(b, disc), NEW pass,
         NEW k \in 1 .. Len(cache) + 1, NEW t \in DOMAIN TriesOf(pass, b),
         \A l \in DOMAIN cache : Overlapping(b, cache[l]) =>
           \A u \in DOMAIN TriesOf(pass, b), j \in Places(cache[l]) :
             l < k \/ (l = k /\ u < t) => Rules(pass, cache, b, l, u, j)
  PROVE  LET s == SpotAt(k, t, b, TriesOf(pass, b)) IN
           SpotFits(s, cache, b, TriesOf(pass, b)) /\ PassedRules(pass, s, cache, b)
<1> DEFINE tries == TriesOf(pass, b)
           s == SpotAt(k, t, b, tries)
<1>1. tries \in {IsortTries(b), OverlapTries(b)}
  BY DEF TriesOf
<1>2. /\ SpotFits(s, cache, b, tries) /\ s.block = k /\ s.try = t
      /\ k \in DOMAIN cache =>
           \A j \in Places(cache[k]) :
             j > s.candidate => cache[k].samples[j] # b.samples[tries[t] + 1]
  <2> HIDE DEF tries
  <2>1. t \in DOMAIN tries
    BY DEF tries
  <2> QED BY <1>1, <2>1, SpotAtFits
<1> HIDE DEF s
<1>3. ASSUME NEW l \in DOMAIN cache, Overlapping(b, cache[l]),
             NEW u \in DOMAIN tries, NEW j \in Places(cache[l]), Passed(s, l, u, j)
      PROVE  Rules(pass, cache, b, l, u, j)
  <2>1. CASE Before(s, l, u)
    BY <1>2, <1>3, <2>1 DEF Before
  <2>2. CASE l = k /\ u = t /\ j > s.candidate
    <3>1. cache[l].samples[j] # b.samples[tries[u] + 1]
      BY <1>2, <2>2
    <3> QED BY <3>1 DEF Rules
  <2> QED BY <1>2, <1>3, <2>1, <2>2 DEF Passed
<1> QED BY <1>2, <1>3 DEF PassedRules, s

LEMMA TriesFacts ==
  ASSUME NEW b, NEW d, SoundBatch(b, d), NEW pass \in Searching
  PROVE  /\ DOMAIN TriesOf(pass, b) = 1 .. Len(TriesOf(pass, b))
         /\ Len(TriesOf(pass, b)) \in {3, 4}
         /\ \A t \in DOMAIN TriesOf(pass, b) : TriesOf(pass, b)[t] + 1 \in Places(b)
<1>1. CASE pass = "isort"
  BY <1>1, BatchFacts DEF TriesOf
<1>2. CASE pass = "overlap"
  BY <1>2, BatchFacts DEF TriesOf
<1> QED BY <1>1, <1>2 DEF Searching

(* What the actions of a search know.                                      *)
LEMMA SearchingFacts ==
  ASSUME SearchInv, pc \in Searching
  PROVE  /\ cache \in Seq(Blocks) /\ DOMAIN cache = 1 .. Len(cache) /\ Len(cache) \in Nat
         /\ \A q \in DOMAIN cache : SoundBatch(cache[q], disc)
         /\ IndexDescribesBlock /\ SoundBatch(new, disc)
         /\ Tries = TriesOf(pc, new)
         /\ SpotFits(spot, cache, new, Tries) /\ PassedRules(pc, spot, cache, new)
         /\ spot.block \in 1 .. Len(cache) + 1 /\ spot.try \in 1 .. Len(Tries)
         /\ DOMAIN Tries = 1 .. Len(Tries) /\ Len(Tries) \in {3, 4} /\ spot.candidate \in Nat
         /\ pc = "overlap" => AllRules("isort", cache, new)
<1>1. /\ cache \in Seq(Blocks) /\ \A q \in DOMAIN cache : SoundBatch(cache[q], disc)
      /\ IndexDescribesBlock /\ SoundBatch(new, disc)
  BY DEF SearchInv, BatchesSound, IndexesSound, Searching
<1>2. Tries = TriesOf(pc, new)
  BY DEF Tries, TriesOf
<1>3. SpotFits(spot, cache, new, Tries) /\ PassedRules(pc, spot, cache, new)
      /\ (pc = "overlap" => AllRules("isort", cache, new))
  BY <1>2 DEF SearchInv, SpotSound, Searched
<1>4. DOMAIN Tries = 1 .. Len(Tries) /\ Len(Tries) \in {3, 4}
  BY <1>1, <1>2, TriesFacts
<1>5. spot.block \in 1 .. Len(cache) + 1 /\ spot.try \in 1 .. Len(Tries)
      /\ spot.candidate \in Nat
  BY <1>3, <1>4 DEF SpotFits
<1> QED BY <1>1, <1>2, <1>3, <1>4, <1>5

(* A candidate that is no match is passed, and with it every place up to   *)
(* the next candidate: the chain leaves out no place of the value.         *)
LEMMA NextCandidateStep ==
  ASSUME SearchInv, NextCandidate
  PROVE  SpotFits(spot', cache, new, Tries) /\ PassedRules(pc, spot', cache, new)
<1> DEFINE k == spot.block
           t == spot.try
           c == spot.candidate
           b == cache[k]
           v == new.samples[Tries[t] + 1]
<1>1. /\ pc \in Searching /\ k \in DOMAIN cache /\ c # 0 /\ Overlapping(new, b)
      /\ ~Hit /\ spot' = [spot EXCEPT !.candidate = b.links[c]]
  BY DEF NextCandidate, Candidate, AtBlock, Cached
<1>2. /\ SoundBatch(b, disc) /\ Describes(b, Len(b.samples)) /\ Indexable(b)
      /\ Len(b.samples) \in Nat /\ Places(b) = 1 .. Len(b.samples)
  <2>1. SoundBatch(b, disc) /\ Describes(b, Len(b.samples))
    BY <1>1, SearchingFacts DEF IndexDescribesBlock
  <2> QED BY <2>1, BatchFacts DEF SoundBatch
<1>3. c \in 1 .. Len(b.samples) /\ b.samples[c] = v /\ t \in DOMAIN Tries
  <2>1. SpotFits(spot, cache, new, Tries)
    BY <1>1, SearchingFacts
  <2> QED BY <1>1, <1>2, <2>1 DEF SpotFits
<1>4. /\ b.links[c] < c /\ b.links[c] \in Nat
      /\ b.links[c] # 0 => b.samples[b.links[c]] = v
      /\ \A j \in b.links[c] + 1 .. c - 1 : b.samples[j] # v
  <2> HIDE DEF b, c, v
  <2>1. Len(b.samples) \in 0 .. Len(b.samples)
    BY <1>2
  <2>2. b.links[c] \in Nat
    BY <1>2, <1>3 DEF Indexable
  <2> QED BY <1>2, <1>3, <2>1, <2>2, ChainMissesNone
<1>5. spot \in [block : {k}, try : {t}, candidate : {c}] /\ k \in 1 .. Len(cache) + 1
  <2>1. SpotFits(spot, cache, new, Tries)
    BY <1>1, SearchingFacts
  <2> QED BY <2>1 DEF SpotFits
<1>6. spot'.block = k /\ spot'.try = t /\ spot'.candidate = b.links[c]
      /\ spot' \in [block : {k}, try : {t}, candidate : {b.links[c]}]
  BY <1>1, <1>5
<1>7. Rules(pc, cache, new, k, t, c)
  <2>1. ~HitAt(pc, new, Tries[t] + 1, b, c)
    BY <1>1 DEF Hit, HitAt, TryPlace, Cached, Offset
  <2> QED BY <1>1, <2>1, SearchingFacts DEF Rules
<1> HIDE DEF k, t, c, b, v
<1>8. SpotFits(spot', cache, new, Tries)
  <2>1. b.links[c] \in 0 .. Len(b.samples)
    BY <1>2, <1>3, <1>4
  <2> QED BY <1>3, <1>4, <1>5, <1>6, <2>1 DEF SpotFits, b, v
<1>9. ASSUME NEW l \in DOMAIN cache, Overlapping(new, cache[l]),
             NEW u \in DOMAIN Tries, NEW j \in Places(cache[l]), Passed(spot', l, u, j)
      PROVE  Rules(pc, cache, new, l, u, j)
  <2>0. PassedRules(pc, spot, cache, new) /\ Tries = TriesOf(pc, new)
    BY <1>1, SearchingFacts
  <2>1. CASE Passed(spot, l, u, j)
    BY <1>9, <2>0, <2>1 DEF PassedRules
  <2>2. CASE l = k /\ u = t /\ j = c
    BY <1>7, <2>2
  <2>3. CASE l = k /\ u = t /\ j \in b.links[c] + 1 .. c - 1
    <3>1. b.samples[j] # v
      BY <1>4, <2>3
    <3> QED BY <2>0, <2>3, <3>1 DEF Rules, b, v
  <2>4. Passed(spot, l, u, j) \/ (l = k /\ u = t /\ j <= c /\ j > b.links[c])
    <3>1. j \in Int /\ spot.block = k /\ spot.try = t /\ spot.candidate = c /\ c \in Int
      BY <1>3, <1>5, <1>9 DEF Places
    <3> QED BY <1>6, <1>9, <3>1 DEF Passed, Before
  <2>5. j \in Int /\ c \in Int /\ b.links[c] \in Int
    BY <1>3, <1>4, <1>9 DEF Places
  <2> QED BY <2>1, <2>2, <2>3, <2>4, <2>5
<1> QED BY <1>1, <1>8, <1>9, SearchingFacts DEF PassedRules

(* At the end of a chain the whole position is passed, and after the last  *)
(* position the block.                                                     *)
LEMMA NextPositionStep ==
  ASSUME SearchInv, NextPosition
  PROVE  SpotFits(spot', cache, new, Tries) /\ PassedRules(pc, spot', cache, new)
<1> DEFINE last == ~(spot.try < Len(Tries))
           k == IF last THEN spot.block + 1 ELSE spot.block
           t == IF last THEN 1 ELSE spot.try + 1
<1>1. /\ pc \in Searching /\ spot.block \in DOMAIN cache /\ spot.candidate = 0
      /\ spot' = SpotAt(k, t, new, Tries)
  BY DEF NextPosition, AtBlock
<1>2. k \in 1 .. Len(cache) + 1 /\ t \in DOMAIN Tries
  BY <1>1, SearchingFacts
<1>3. ASSUME NEW l \in DOMAIN cache, Overlapping(new, cache[l]),
             NEW u \in DOMAIN Tries, NEW j \in Places(cache[l]),
             l < k \/ (l = k /\ u < t)
      PROVE  Rules(pc, cache, new, l, u, j)
  <2>1. PassedRules(pc, spot, cache, new) /\ Tries = TriesOf(pc, new)
    BY <1>1, SearchingFacts
  <2>2. /\ l \in 1 .. Len(cache) /\ u \in 1 .. Len(Tries) /\ j \in Int /\ j > 0
        /\ spot.block \in Int /\ spot.try \in 1 .. Len(Tries) /\ Len(Tries) \in Int
    BY <1>1, <1>3, SearchingFacts DEF Places
  <2>3. Passed(spot, l, u, j)
    BY <1>1, <1>3, <2>2 DEF Passed, Before
  <2> QED BY <1>3, <2>1, <2>3 DEF PassedRules
<1> HIDE DEF k, t
<1>4. Tries = TriesOf(pc, new) /\ SoundBatch(new, disc)
  BY <1>1, SearchingFacts
<1>5. SpotFits(spot', cache, new, TriesOf(pc, new)) /\ PassedRules(pc, spot', cache, new)
  BY <1>1, <1>2, <1>3, <1>4, SearchingFacts, SpotAtPassed
<1> QED BY <1>4, <1>5

LEMMA PassBlockStep ==
  ASSUME SearchInv, PassBlock
  PROVE  SpotFits(spot', cache, new, Tries) /\ PassedRules(pc, spot', cache, new)
<1> DEFINE k == spot.block + 1
           one == 1
<1>1. /\ pc \in Searching /\ spot.block \in DOMAIN cache
      /\ ~Overlapping(new, cache[spot.block]) /\ spot' = SpotAt(k, one, new, Tries)
  BY DEF PassBlock, AtBlock, Cached
<1>2. k \in 1 .. Len(cache) + 1 /\ one \in DOMAIN Tries
  BY <1>1, SearchingFacts
<1>3. ASSUME NEW l \in DOMAIN cache, Overlapping(new, cache[l]),
             NEW u \in DOMAIN Tries, NEW j \in Places(cache[l]),
             l < k \/ (l = k /\ u < one)
      PROVE  Rules(pc, cache, new, l, u, j)
  <2>1. PassedRules(pc, spot, cache, new) /\ Tries = TriesOf(pc, new)
    BY <1>1, SearchingFacts
  <2>2. /\ l \in 1 .. Len(cache) /\ u \in 1 .. Len(Tries) /\ spot.block \in Int
    BY <1>1, <1>3, SearchingFacts
  <2>3. l < spot.block
    BY <1>1, <1>3, <2>2
  <2> QED BY <1>3, <2>1, <2>3 DEF PassedRules, Passed, Before
<1> HIDE DEF k, one
<1>4. Tries = TriesOf(pc, new) /\ SoundBatch(new, disc)
  BY <1>1, SearchingFacts
<1>5. SpotFits(spot', cache, new, TriesOf(pc, new)) /\ PassedRules(pc, spot', cache, new)
  BY <1>1, <1>2, <1>3, <1>4, SearchingFacts, SpotAtPassed
<1> QED BY <1>4, <1>5

(* A search that begins has nothing behind it.                             *)
LEMMA FirstSpot ==
  ASSUME cache \in Seq(Blocks),
         \A q \in DOMAIN cache : SoundBatch(cache[q], disc),
         IndexDescribesBlock,
         NEW b, SoundBatch(b, disc), NEW pass \in Searching
  PROVE  LET s == SpotAt(1, 1, b, TriesOf(pass, b)) IN
           SpotFits(s, cache, b, TriesOf(pass, b)) /\ PassedRules(pass, s, cache, b)
<1> DEFINE one == 1
<1>1. one \in 1 .. Len(cache) + 1 /\ one \in DOMAIN TriesOf(pass, b)
  BY TriesFacts
<1>2. \A l \in DOMAIN cache, u \in DOMAIN TriesOf(pass, b) : ~(l < one) /\ ~(u < one)
  BY TriesFacts
<1> HIDE DEF one
<1>3. LET s == SpotAt(one, one, b, TriesOf(pass, b)) IN
        SpotFits(s, cache, b, TriesOf(pass, b)) /\ PassedRules(pass, s, cache, b)
  BY <1>1, <1>2, SpotAtPassed
<1> QED BY <1>3 DEF one

(* A search that has run out of blocks has ruled out every place of every  *)
(* block.                                                                  *)
LEMMA ExhaustedRules ==
  ASSUME SearchInv, SearchExhausted
  PROVE  AllRules(pc, cache, new)
<1>1. pc \in Searching /\ spot.block \notin DOMAIN cache
  BY DEF SearchExhausted
<1>2. \A l \in DOMAIN cache : l < spot.block
  BY <1>1, SearchingFacts
<1>3. PassedRules(pc, spot, cache, new)
  BY <1>1, SearchingFacts
<1> QED BY <1>2, <1>3 DEF AllRules, PassedRules, Passed, Before

LEMMA SearchExhaustedStep ==
  ASSUME SearchInv, SearchExhausted
  PROVE  SpotSound' /\ Searched'
<1>0. UNCHANGED <<disc, cache, new>> /\ pc \in Searching
  BY DEF SearchExhausted
<1>1. AllRules(pc, cache, new)
  BY ExhaustedRules
<1>2. CASE pc = "isort" /\ cache # <<>>
  <2>1. pc' = "overlap" /\ spot' = SpotAt(1, 1, new, TriesOf("overlap", new))
    BY <1>2 DEF SearchExhausted, TriesOf
  <2>2. /\ SpotFits(spot', cache, new, TriesOf("overlap", new))
        /\ PassedRules("overlap", spot', cache, new)
    BY <1>0, <2>1, SearchingFacts, FirstSpot DEF Searching
  <2>3. AllRules("isort", cache, new)
    BY <1>1, <1>2
  <2> QED BY <1>0, <2>1, <2>2, <2>3 DEF SpotSound, Searched, Searching
<1>3. CASE ~(pc = "isort" /\ cache # <<>>)
  <2>1. pc' = "unknown" /\ spot' = NoSpot
    BY <1>3 DEF SearchExhausted
  <2>2. AllRules("isort", cache, new) /\ AllRules("overlap", cache, new)
    <3>1. CASE pc = "overlap"
      BY <1>1, <3>1, SearchingFacts DEF Searching
    <3>2. CASE cache = <<>>
      <4>1. DOMAIN cache = {}
        BY <3>2
      <4> QED BY <4>1 DEF AllRules
    <3> QED BY <1>0, <1>3, <3>1, <3>2 DEF Searching
  <2> QED BY <1>0, <2>1, <2>2 DEF SpotSound, Searched, Searching
<1> QED BY <1>2, <1>3

(* The search stands where it may, and all it has passed is ruled out.     *)
LEMMA SearchedStep ==
  ASSUME SearchInv, dyn \in Dynamic, [Next]_vars
  PROVE  SpotSound' /\ Searched'
<1>0. SpotSound /\ Searched /\ pc \in Phases
  BY DEF SearchInv
<1>1. CASE UNCHANGED <<cache, new, pc, spot>>
  BY <1>0, <1>1 DEF SpotSound, Searched, SpotFits, PassedRules, AllRules
<1>2. CASE spot' = NoSpot /\ pc' \notin Searching \cup {"unknown"}
  BY <1>2 DEF SpotSound, Searched, Searching
<1>3. ASSUME NEW target \in 0 .. Sectors - 1, NEW s \in Shifts, NEW m \in Misread,
             ReadBatch(target, s, m)
      PROVE  SpotSound' /\ Searched'
  <2>1. SoundBatch(new', disc)
    BY <1>3, RangeOfBatch, DriveGivesSound DEF ReadBatch, SearchInv, BatchesSound
  <2>2. cache' = cache /\ pc' = "isort" /\ spot' = SpotAt(1, 1, new', TriesOf("isort", new'))
    BY <1>3 DEF ReadBatch, TriesOf
  <2>3. /\ cache \in Seq(Blocks) /\ \A q \in DOMAIN cache : SoundBatch(cache[q], disc)
        /\ IndexDescribesBlock
    BY DEF SearchInv, BatchesSound, IndexesSound
  <2>4. /\ SpotFits(spot', cache, new', TriesOf("isort", new'))
        /\ PassedRules("isort", spot', cache, new')
    BY <2>1, <2>2, <2>3, FirstSpot DEF Searching
  <2> QED BY <2>2, <2>4 DEF SpotSound, Searched, Searching
<1>4. ASSUME UNCHANGED <<cache, new, pc>>, pc \in Searching,
             SpotFits(spot', cache, new, Tries), PassedRules(pc, spot', cache, new)
      PROVE  SpotSound' /\ Searched'
  <2>1. Tries = TriesOf(pc, new) /\ (pc = "overlap" => AllRules("isort", cache, new))
    BY <1>4, SearchingFacts
  <2> QED BY <1>4, <2>1 DEF SpotSound, Searched, Searching
<1>5. CASE NextCandidate
  BY <1>4, <1>5, NextCandidateStep DEF NextCandidate, Candidate, AtBlock
<1>6. CASE NextPosition
  BY <1>4, <1>6, NextPositionStep DEF NextPosition, AtBlock
<1>7. CASE PassBlock
  BY <1>4, <1>7, PassBlockStep DEF PassBlock, AtBlock
<1>8. CASE SearchExhausted
  BY <1>8, SearchExhaustedStep
<1>9. CASE Recognise
  BY <1>2, <1>9 DEF Recognise, Searching
<1>10. CASE Seek
  BY <1>0, <1>2, <1>10 DEF Seek, SpotSound, Searching, found
<1>11. CASE Rest
  <2>1. pc \in {"recognised", "unknown", "index"} /\ spot' = spot /\ pc' \in {"index", "read"}
    BY <1>11 DEF Rest, Accept, Reject, InsertNext, CacheBatch, AcceptSecondRead, AcceptVote, found
  <2> QED BY <1>0, <1>2, <2>1 DEF SpotSound, Searching
<1>12. ASSUME NEW words \in Overlaps, CallerSetsOverlap(words) PROVE SpotSound' /\ Searched'
  BY <1>1, <1>12 DEF CallerSetsOverlap, found
<1> QED
  BY <1>1, <1>3, <1>5, <1>6, <1>7, <1>8, <1>9, <1>10, <1>11, <1>12
  DEF Next, Caller, Search, vars

-----------------------------------------------------------------------------
(* What a recognised batch was found by *)

(* A candidate that matches is a run of the least length that agrees.      *)
LEMMA HitIsRun ==
  ASSUME SearchInv, Candidate, Hit
  PROVE  /\ Overlapping(new, Cached) /\ spot.block \in DOMAIN cache
         /\ Offset \in Int
         /\ Agree(new, Cached, Offset, Smaller(MinWordsSearch, MinWordsOverlap))
<1> DEFINE i == TryPlace
           j == spot.candidate
           b == Cached
           m == Smaller(MinWordsSearch, MinWordsOverlap)
<1>1. pc \in Searching /\ spot.block \in DOMAIN cache /\ j # 0 /\ Overlapping(new, b)
  BY DEF Candidate, AtBlock
<1>2. /\ SoundBatch(b, disc) /\ SoundBatch(new, disc)
      /\ i \in Places(new) /\ j \in Places(b) /\ b.samples[j] = new.samples[i]
  <2>1. SoundBatch(b, disc) /\ SoundBatch(new, disc) /\ SpotFits(spot, cache, new, Tries)
    BY <1>1, SearchingFacts DEF Cached
  <2>2. i \in Places(new)
    <3>1. Tries = TriesOf(pc, new) /\ spot.try \in DOMAIN Tries
      BY <1>1, SearchingFacts
    <3> QED BY <1>1, <2>1, <3>1, TriesFacts DEF TryPlace
  <2>3. j \in 0 .. Len(b.samples) /\ b.samples[j] = new.samples[i]
    BY <1>1, <2>1 DEF SpotFits, Cached, TryPlace
  <2>4. Len(b.samples) \in Nat /\ Places(b) = 1 .. Len(b.samples)
    BY <2>1, BatchFacts
  <2> QED BY <1>1, <2>1, <2>2, <2>3, <2>4
<1>3. /\ Indexable(b) /\ Indexable(new) /\ b.begin \in Int /\ new.begin \in Int
      /\ i \in Int /\ j \in Int
  <2> HIDE DEF i, j, b
  <2>1. Indexable(b) /\ Indexable(new)
    BY <1>2 DEF SoundBatch
  <2>2. /\ b.begin \in Nat /\ new.begin \in Nat
        /\ i \in 1 .. Len(new.samples) /\ j \in 1 .. Len(b.samples)
    BY <1>2, BatchFacts
  <2> QED BY <2>1, <2>2
<1>4. Offset = OffsetTo(new, i, b, j) /\ Offset \in Int
  BY <1>3 DEF Offset, OffsetTo
<1>5. m \in Nat /\ m <= MinWordsSearch /\ m <= MinWordsOverlap
      /\ MinWordsSearch \in Nat \ {0} /\ MinWordsOverlap \in Nat \ {0}
  BY DynOverlapAssumption, MaxWordsOverlapNat DEF Smaller
<1> HIDE DEF i, j, b, m
<1>6. ASSUME NEW n \in Nat, m <= n, Agree(new, b, Offset, n)
      PROVE  Agree(new, b, Offset, m)
  <2>1. \A k \in 0 .. m - 1 : k \in 0 .. n - 1
    BY <1>5, <1>6
  <2> QED BY <1>6, <2>1 DEF Agree
<1>7. Agree(new, b, Offset, m)
  <2>1. CASE pc = "isort"
    <3>1. MatchesFrom(new, i, b, j, MinWordsSearch)
      BY <2>1 DEF Hit, i, j, b
    <3>2. Agree(new, b, Offset, MinWordsSearch)
      BY <1>2, <1>3, <1>4, <1>5, <3>1, MatchIsRun
    <3> QED BY <1>5, <1>6, <3>2
  <2>2. CASE pc # "isort"
    <3>1. MatchesSomewhere(new, b, Offset, MinWordsOverlap)
      BY <2>2 DEF Hit, b
    <3>2. Agree(new, b, Offset, MinWordsOverlap)
      BY <1>3, <1>4, <1>5, <3>1, MatchMeansRun
    <3> QED BY <1>5, <1>6, <3>2
  <2> QED BY <2>1, <2>2
<1> QED BY <1>1, <1>4, <1>7 DEF b, m

LEMMA FoundStep ==
  ASSUME SearchInv, [Next]_vars
  PROVE  FoundIsRun'
<1>0. FoundIsRun
  BY DEF SearchInv
<1>1. CASE Recognise
  <2>1. /\ Overlapping(new, cache[spot.block]) /\ spot.block \in DOMAIN cache
        /\ Agree(new, cache[spot.block], Offset, Smaller(MinWordsSearch, MinWordsOverlap))
    BY <1>1, HitIsRun DEF Recognise, Cached
  <2> QED BY <1>1, <2>1 DEF Recognise, FoundIsRun
<1>2. CASE UNCHANGED <<cache, new, pc, offset>>
  BY <1>0, <1>2 DEF FoundIsRun
<1>3. CASE pc' # "recognised"
  BY <1>3 DEF FoundIsRun
<1>4. [Next]_vars => \/ Recognise \/ UNCHANGED <<cache, new, pc, offset>>
                     \/ pc' # "recognised"
  BY DEF Next, Caller, Search, Rest, vars, found, ReadBatch, CallerSetsOverlap, Seek,
         NextCandidate, NextPosition, PassBlock, SearchExhausted, Candidate, AtBlock,
         Searching, Accept, AcceptSecondRead, AcceptVote, Reject, InsertNext, CacheBatch
<1> QED BY <1>1, <1>2, <1>3, <1>4

-----------------------------------------------------------------------------
(* The offsets and the overlap *)

RingHolds(r, entries) ==
  /\ r.count = Smaller(Len(entries), RingSize)
  /\ r.count < RingSize => r.index = r.count
  /\ \A i \in 1 .. r.count : r.offsets[(r.index - i) % RingSize] = entries[i]

Logged(entries, shift) ==
  SubSeq(<<shift>> \o entries, 1, Smaller(Len(entries) + 1, RingSize + Interval - 1))

LEMMA LoggedFacts ==
  ASSUME NEW entries \in Seq(Int), NEW shift \in Int
  PROVE  LET more == Logged(entries, shift) IN
           /\ more \in Seq(Int) /\ Len(more) \in Nat
           /\ Len(more) = Smaller(Len(entries) + 1, RingSize + Interval - 1)
           /\ more[1] = shift
           /\ \A i \in 2 .. Len(more) : more[i] = entries[i - 1] /\ i - 1 \in 1 .. Len(entries)
<1> DEFINE all == <<shift>> \o entries
           n == Smaller(Len(entries) + 1, RingSize + Interval - 1)
<1>1. Len(entries) \in Nat /\ RingSize \in Nat \ {0} /\ Interval \in Nat \ {0}
  BY DynOverlapAssumption
<1>2. n \in 1 .. Len(entries) + 1
  BY <1>1 DEF Smaller
<1>3. /\ all \in Seq(Int) /\ Len(all) = Len(entries) + 1
      /\ \A i \in 1 .. Len(entries) + 1 : all[i] = IF i = 1 THEN shift ELSE entries[i - 1]
  BY <1>1
<1> HIDE DEF all, n
<1>4. /\ SubSeq(all, 1, n) \in Seq(Int) /\ Len(SubSeq(all, 1, n)) = n
      /\ \A i \in 1 .. n : SubSeq(all, 1, n)[i] = all[i]
  BY <1>1, <1>2, <1>3
<1>5. Logged(entries, shift) = SubSeq(all, 1, n)
  BY DEF Logged, all, n
<1> QED BY <1>1, <1>2, <1>3, <1>4, <1>5, SMTT(60) DEF n

(* k places back from x on a ring of n                                     *)
Back(x, k, n) == IF k <= x THEN x - k ELSE x - k + n

LEMMA BackOne ==
  ASSUME NEW n \in Nat \ {0}, NEW x \in 0 .. n - 1, NEW y,
         y = IF x + 1 = n THEN 0 ELSE x + 1
  PROVE  Back(y, 1, n) = x
BY DEF Back

(* the place that follows x on a ring of n                                 *)
PlaceAfter(x, n) == IF x + 1 = n THEN 0 ELSE x + 1

LEMMA BackMore ==
  ASSUME NEW n \in Nat \ {0}, NEW x \in 0 .. n - 1, NEW y \in 0 .. n - 1, NEW i \in 2 .. n,
         y = PlaceAfter(x, n)
  PROVE  /\ Back(y, i, n) = Back(x, i - 1, n)
         /\ Back(x, i - 1, n) \in 0 .. n - 1 /\ Back(x, i - 1, n) # x
<1>1. CASE x + 1 = n
  BY <1>1 DEF Back, PlaceAfter
<1>2. CASE x + 1 # n
  BY <1>2 DEF Back, PlaceAfter
<1> QED BY <1>1, <1>2

LEMMA BackUsed ==
  ASSUME NEW n \in Nat \ {0}, NEW x \in 0 .. n - 1, NEW c \in 0 .. n, c < n => x = c,
         NEW i \in 1 .. c
  PROVE  Back(x, i, n) \in 0 .. c - 1
BY DEF Back

(* One more offset in the ring: the latest ones stay the latest.           *)
LEMMA RingHoldsOneMore ==
  ASSUME NEW r \in Ring, NEW entries \in Seq(Int), NEW shift \in Int, RingHolds(r, entries)
  PROVE  RingHolds(Add(r, shift), Logged(entries, shift))
<1> DEFINE more == Logged(entries, shift)
           q == Add(r, shift)
           N == RingSize
<1>1. /\ N \in Nat \ {0} /\ Interval \in Nat \ {0} /\ Len(entries) \in Nat
      /\ r.index \in 0 .. N - 1 /\ r.count \in 0 .. N
      /\ r.offsets \in [0 .. N - 1 -> Int]
  BY DynOverlapAssumption DEF Ring
<1>2. /\ q.offsets = [r.offsets EXCEPT ![r.index] = shift]
      /\ q.index = IF r.index + 1 = N THEN 0 ELSE r.index + 1
      /\ q.count = Smaller(r.count + 1, N)
  BY <1>1, RingSlots DEF Add
<1>3. /\ Len(more) \in Nat /\ more[1] = shift
      /\ Len(more) = Smaller(Len(entries) + 1, N + Interval - 1)
      /\ \A i \in 2 .. Len(more) : more[i] = entries[i - 1] /\ i - 1 \in 1 .. Len(entries)
  BY LoggedFacts
<1>4. /\ r.count = Smaller(Len(entries), N) /\ (r.count < N => r.index = r.count)
      /\ \A i \in 1 .. r.count : r.offsets[(r.index - i) % N] = entries[i]
  BY DEF RingHolds
<1>5. /\ \A i \in 1 .. N : /\ (r.index - i) % N = Back(r.index, i, N)
                           /\ (q.index - i) % N = Back(q.index, i, N)
      /\ q.index \in 0 .. N - 1
  <2>1. q.index \in 0 .. N - 1
    BY SMTT(60), <1>1, <1>2
  <2> HIDE DEF q, N
  <2> QED BY <1>1, <2>1, RingSlots DEF Back
<1> HIDE DEF q, more, N
<1>6. q.count = Smaller(Len(more), N)
  BY <1>1, <1>2, <1>3, <1>4 DEF Smaller
<1>7. q.count < N => q.index = q.count
  BY <1>1, <1>2, <1>4 DEF Smaller
<1>8. ASSUME NEW i \in 1 .. q.count
      PROVE  q.offsets[(q.index - i) % N] = more[i]
  <2>1. q.count \in 0 .. N
    BY <1>1, <1>2, SMTT(60) DEF Smaller
  <2>2. i \in 1 .. N /\ i <= q.count /\ i - 1 <= r.count
    BY <1>1, <1>2, <2>1 DEF Smaller
  <2>3. i <= Len(more)
    BY <1>3, <1>6, <2>1, <2>2 DEF Smaller
  <2>4. (q.index - i) % N = Back(q.index, i, N)
    BY <1>5, <2>2
  <2>5. CASE i = 1
    <3>1. Back(q.index, i, N) = r.index
      BY <1>1, <1>2, <2>5, BackOne
    <3>2. q.offsets[r.index] = shift
      BY <1>1, <1>2
    <3> QED BY <1>3, <2>4, <2>5, <3>1, <3>2
  <2>6. CASE i # 1
    <3>1. i \in 2 .. N /\ i - 1 \in 1 .. N /\ i - 1 \in 1 .. r.count
      BY <1>1, <2>2, <2>6
    <3> DEFINE slot == Back(r.index, i - 1, N)
    <3>2. Back(q.index, i, N) = slot /\ slot \in 0 .. N - 1 /\ slot # r.index
      <4>1. q.index = PlaceAfter(r.index, N)
        BY <1>2 DEF PlaceAfter
      <4>2. /\ N \in Nat \ {0} /\ i \in 2 .. N
            /\ r.index \in 0 .. N - 1 /\ q.index \in 0 .. N - 1
        BY <1>1, <1>5, <3>1
      <4>3. /\ Back(q.index, i, N) = Back(r.index, i - 1, N)
            /\ Back(r.index, i - 1, N) \in 0 .. N - 1 /\ Back(r.index, i - 1, N) # r.index
        BY <4>1, <4>2, BackMore, SMTT(60)
      <4> QED BY <4>3
    <3>3. (r.index - (i - 1)) % N = slot
      BY <1>5, <3>1
    <3> HIDE DEF slot
    <3>5. q.offsets[slot] = r.offsets[slot]
      BY <1>1, <1>2, <3>2
    <3>6. r.offsets[slot] = entries[i - 1]
      BY <1>4, <3>1, <3>3
    <3>7. more[i] = entries[i - 1]
      <4>1. i \in 2 .. Len(more)
        BY <1>3, <2>3, <3>1
      <4> QED BY <1>3, <4>1
    <3> QED BY <2>4, <3>2, <3>5, <3>6, <3>7
  <2> QED BY <2>5, <2>6
<1> QED BY <1>6, <1>7, <1>8 DEF RingHolds, q, more, N

(* An overlap that is computed from a ring covers all that the ring holds. *)
LEMMA OverlapCoversLog ==
  ASSUME NEW r \in Ring, NEW s \in Ring, NEW entries \in Seq(Int), RingHolds(r, entries)
  PROVE  \A i \in 1 .. Smaller(Len(entries), RingSize) :
           OverlapOf(r, s) >= Smaller(MaxWordsOverlap, Abs(entries[i]) + MinWordsOverlap)
<1> SUFFICES ASSUME NEW i \in 1 .. r.count
             PROVE  OverlapOf(r, s) >= Smaller(MaxWordsOverlap, Abs(entries[i]) + MinWordsOverlap)
  BY DEF RingHolds
<1> DEFINE slot == (r.index - i) % RingSize
<1>1. /\ RingSize \in Nat \ {0} /\ r.index \in 0 .. RingSize - 1 /\ r.count \in 0 .. RingSize
  BY DynOverlapAssumption DEF Ring
<1>2. i \in 1 .. RingSize
  BY <1>1
<1>3. slot = Back(r.index, i, RingSize)
  BY <1>1, <1>2, RingSlots DEF Back
<1>4. r.offsets[slot] = entries[i] /\ (r.count < RingSize => r.index = r.count)
  BY DEF RingHolds
<1> HIDE DEF slot
<1>5. slot \in Used(r)
  BY <1>1, <1>3, <1>4, BackUsed DEF Used
<1>6. OverlapOf(r, s) >= Smaller(MaxWordsOverlap, Abs(r.offsets[slot]) + MinWordsOverlap)
  BY <1>5, OverlapOfCovers
<1> QED BY <1>4, <1>6

LEMMA RingsInit == Init => RingsSound
<1> SUFFICES ASSUME Init PROVE RingsSound
  OBVIOUS
<1>1. EmptyRing \in Ring /\ EmptyRing.count = 0 /\ EmptyRing.index = 0
  BY EmptyRingIsRing DEF EmptyRing
<1>2. /\ MinWordsOverlap \in Nat /\ MinWordsSearch \in Nat /\ Interval \in Nat \ {0}
      /\ MinWordsOverlap <= MaxWordsOverlap /\ RingSize \in Nat \ {0}
  BY DynOverlapAssumption, MaxWordsOverlapNat
<1>3. /\ dyn \in Dynamic /\ dyn.stage1 = EmptyRing /\ dyn.stage2 = EmptyRing
      /\ dyn.overlap = MinWordsOverlap
  <2>1. 0 \in 0 .. Interval - 1
    BY <1>2
  <2> QED BY <1>1, <1>2, <2>1 DEF Init, NewDynamic, Dynamic
<1>4. log = <<>> /\ Len(log) = 0 /\ log \in Seq(Int) /\ offset = 0 /\ setBy = "start"
  BY DEF Init
<1>5. RingsHoldLatest
  BY <1>1, <1>2, <1>3, <1>4 DEF RingsHoldLatest, Smaller
<1>6. OverlapCovers
  BY <1>2, <1>3, <1>4 DEF OverlapCovers
<1> QED BY <1>1, <1>2, <1>3, <1>4, <1>5, <1>6 DEF RingsSound

LEMMA RecordStep ==
  ASSUME RingsSound, NEW shift \in Int, Record(shift)
  PROVE  /\ dyn' \in Dynamic /\ (log \in Seq(Int))' /\ (setBy \in {"start", "jitter", "caller"})'
         /\ (dyn.stage1.count < RingSize => dyn.stage1.index = dyn.stage1.count)'
         /\ RingsHoldLatest' /\ OverlapCovers'
<1>0. /\ dyn \in Dynamic /\ log \in Seq(Int) /\ setBy \in {"start", "jitter", "caller"}
      /\ RingsHoldLatest /\ OverlapCovers
      /\ dyn.stage1.count < RingSize => dyn.stage1.index = dyn.stage1.count
  BY DEF RingsSound
<1>1. CASE shift = 0
  BY <1>0, <1>1 DEF Record, history, RingsHoldLatest, OverlapCovers
<1>2. CASE shift # 0
  <2>1. /\ dyn' = RecordJitter(dyn, shift, 1) /\ log' = Logged(log, shift)
        /\ setBy' = IF dyn.measurements + 1 >= Interval THEN "jitter" ELSE setBy
    BY <1>2 DEF Record, Logged
  <2>2. dyn' \in Dynamic
    BY <1>0, <2>1, RecordJitterDynamic
  <2>3. /\ dyn'.stage1 = Add(dyn.stage1, shift) /\ dyn'.stage2 = EmptyRing
        /\ dyn.measurements + 1 < Interval =>
             /\ dyn'.measurements = dyn.measurements + 1
             /\ dyn'.overlap = dyn.overlap /\ dyn'.search = dyn.search
        /\ dyn.measurements + 1 >= Interval =>
             /\ dyn'.measurements = 0
             /\ dyn'.overlap = OverlapOf(dyn'.stage1, dyn'.stage2)
             /\ dyn'.search = Larger(dyn'.overlap, MinWordsSearch)
    BY <1>0, <2>1, RecordJitterFields DEF RingsHoldLatest
  <2>4. /\ log' \in Seq(Int) /\ Len(log') \in Nat
        /\ Len(log') = Smaller(Len(log) + 1, RingSize + Interval - 1)
        /\ \A i \in 2 .. Len(log') : log'[i] = log[i - 1] /\ i - 1 \in 1 .. Len(log)
    BY <1>0, <2>1, LoggedFacts
  <2>5. RingHolds(dyn'.stage1, log') /\ dyn'.stage1 \in Ring /\ dyn'.stage2 \in Ring
    <3>1. RingHolds(dyn.stage1, log) /\ dyn.stage1 \in Ring
      BY <1>0 DEF RingHolds, RingsHoldLatest, Dynamic
    <3>2. dyn'.stage1 \in Ring /\ dyn'.stage2 \in Ring
      BY <2>2 DEF Dynamic
    <3> QED BY <1>0, <2>1, <2>3, <3>1, <3>2, RingHoldsOneMore
  <2>6. RingsHoldLatest' /\ (dyn.stage1.count < RingSize => dyn.stage1.index = dyn.stage1.count)'
    BY <2>3, <2>5 DEF RingsHoldLatest, RingHolds
  <2>7. setBy' \in {"start", "jitter", "caller"}
    BY <1>0, <2>1
  <2>8. /\ dyn.measurements \in Nat /\ Interval \in Nat \ {0} /\ RingSize \in Nat \ {0}
        /\ Len(log) \in Nat /\ MinWordsSearch <= MinWordsOverlap
        /\ MinWordsSearch \in Nat /\ MinWordsOverlap \in Nat /\ MaxWordsOverlap \in Nat
    BY <1>0, DynOverlapAssumption, MaxWordsOverlapNat DEF Dynamic
  <2>9. OverlapCovers'
    <3>1. CASE dyn.measurements + 1 >= Interval
      <4>1. dyn'.overlap \in MinWordsOverlap .. MaxWordsOverlap
        BY <2>3, <2>5, <3>1, OverlapOfCovers
      <4>2. dyn'.search = dyn'.overlap
        BY <2>3, <2>8, <3>1, <4>1 DEF Larger
      <4>3. \A i \in 1 .. Smaller(Len(log'), RingSize) :
              dyn'.overlap >= Smaller(MaxWordsOverlap, Abs(log'[i]) + MinWordsOverlap)
        BY <2>3, <2>4, <2>5, <3>1, OverlapCoversLog
      <4>4. \A i \in 1 .. Smaller(Len(log') - dyn'.measurements, RingSize) :
              dyn'.overlap >= Smaller(MaxWordsOverlap,
                                Abs(log'[dyn'.measurements + i]) + MinWordsOverlap)
        <5>1. dyn'.measurements = 0 /\ Len(log') - 0 = Len(log')
          BY <2>3, <2>4, <3>1
        <5>2. \A i \in 1 .. Smaller(Len(log'), RingSize) : 0 + i = i
          BY <2>4, <2>8 DEF Smaller
        <5> QED BY <4>3, <5>1, <5>2
      <4>5. dyn'.overlap >= MinWordsOverlap /\ dyn'.overlap <= MaxWordsOverlap
        BY <4>1, <2>8
      <4> QED BY <4>2, <4>4, <4>5 DEF OverlapCovers
    <3>2. CASE dyn.measurements + 1 < Interval
      <4>1. /\ dyn'.measurements = dyn.measurements + 1 /\ setBy' = setBy
            /\ dyn'.overlap = dyn.overlap /\ dyn'.search = dyn.search
        BY <2>1, <2>3, <2>8, <3>2
      <4>2. ASSUME setBy = "jitter",
                   NEW i \in 1 .. Smaller(Len(log') - dyn'.measurements, RingSize)
            PROVE  dyn'.overlap >= Smaller(MaxWordsOverlap,
                                     Abs(log'[dyn'.measurements + i]) + MinWordsOverlap)
        <5> DEFINE m == dyn.measurements
                   k == m + i
        <5>0. /\ Len(log') <= Len(log) + 1
              /\ i \in 1 .. RingSize /\ i <= Len(log') - (dyn.measurements + 1)
          <6>1. Len(log') <= Len(log) + 1
            BY <2>4, <2>8 DEF Smaller
          <6> QED BY <2>4, <2>8, <4>1, <6>1, SMTT(60) DEF Smaller
        <5>1. /\ i \in 1 .. Smaller(Len(log) - dyn.measurements, RingSize)
              /\ dyn'.measurements + i = k + 1 /\ k + 1 \in 2 .. Len(log') /\ (k + 1) - 1 = k
          <6> DEFINE l == Len(log)
          <6>1. m \in Nat /\ l \in Nat /\ i \in Nat /\ RingSize \in Nat /\ Len(log') \in Nat
            BY <2>4, <2>8, <5>0
          <6>2. 1 <= i /\ i <= RingSize /\ i <= l - m /\ m + 1 + i <= Len(log')
            BY SMTT(60), <2>4, <2>8, <5>0
          <6>3. dyn'.measurements = m + 1
            BY <4>1
          <6> HIDE DEF m, l
          <6>4. i \in 1 .. Smaller(l - m, RingSize)
            BY <6>1, <6>2 DEF Smaller
          <6>5. dyn'.measurements + i = k + 1 /\ k + 1 \in 2 .. Len(log') /\ (k + 1) - 1 = k
            BY <6>1, <6>2, <6>3
          <6> QED BY <6>4, <6>5 DEF m, l
        <5>2. log'[dyn'.measurements + i] = log[k]
          <6> HIDE DEF k
          <6> QED BY <2>4, <5>1
        <5>3. dyn.overlap >= Smaller(MaxWordsOverlap, Abs(log[k]) + MinWordsOverlap)
          BY <1>0, <4>2, <5>1 DEF OverlapCovers
        <5> QED BY <4>1, <5>2, <5>3
      <4> QED BY <1>0, <4>1, <4>2 DEF OverlapCovers
    <3> QED BY <2>8, <3>1, <3>2
  <2> QED BY <2>2, <2>4, <2>6, <2>7, <2>9
<1> QED BY <1>1, <1>2

(* Whatever is recorded or set, the rings hold the latest offsets and the  *)
(* overlap what was computed from them.                                    *)
LEMMA RingsStep ==
  ASSUME RingsSound, FoundIsRun, SearchInv, [Next]_vars
  PROVE  RingsSound'
<1>0. /\ dyn \in Dynamic /\ log \in Seq(Int) /\ setBy \in {"start", "jitter", "caller"}
      /\ RingsHoldLatest /\ OverlapCovers /\ offset \in Int
      /\ dyn.stage1.count < RingSize => dyn.stage1.index = dyn.stage1.count
  BY DEF RingsSound
<1>1. CASE UNCHANGED <<dyn, history>> /\ offset' \in Int
  BY <1>0, <1>1 DEF RingsSound, RingsHoldLatest, OverlapCovers, history
<1>2. CASE Recognise
  BY <1>0, <1>1, <1>2, HitIsRun DEF Recognise
<1>3. CASE Accept
  BY <1>0, <1>3, RecordStep DEF Accept, RingsSound
<1>4. ASSUME NEW s \in SecondShifts, AcceptSecondRead(s)
      PROVE  RingsSound'
  BY <1>0, <1>4, RecordStep, Stage1Assumption DEF AcceptSecondRead, RingsSound, found
<1>5. ASSUME NEW words \in Overlaps, CallerSetsOverlap(words)
      PROVE  RingsSound'
  <2>1. /\ dyn' = [dyn EXCEPT !.overlap = Larger(words, MinWordsOverlap)] /\ setBy' = "caller"
        /\ log' = log /\ offset' = offset
    BY <1>5 DEF CallerSetsOverlap, SetOverlap, found
  <2>2. Larger(words, MinWordsOverlap) \in Nat /\ Larger(words, MinWordsOverlap) >= MinWordsOverlap
    BY Stage1Assumption, MaxWordsOverlapNat DEF Larger
  <2>3. dyn' \in Dynamic /\ dyn'.stage1 = dyn.stage1 /\ dyn'.stage2 = dyn.stage2
        /\ dyn'.overlap >= MinWordsOverlap
    BY <1>0, <2>1, <2>2 DEF Dynamic
  <2> QED BY <1>0, <2>1, <2>3 DEF RingsSound, RingsHoldLatest, OverlapCovers
<1> QED
  BY <1>0, <1>1, <1>2, <1>3, <1>4, <1>5
  DEF Next, Caller, Search, Rest, vars, found, history, ReadBatch, Seek, NextCandidate,
      NextPosition, PassBlock, SearchExhausted, AcceptVote, Reject, InsertNext, CacheBatch

-----------------------------------------------------------------------------
(* What holds for every behaviour *)

Inv == SearchInv /\ RingsSound

LEMMA InvInductive == Spec => []Inv
<1>1. Init => Inv
  BY SearchInit, RingsInit DEF Inv
<1>2. Inv /\ [Next]_vars => Inv'
  <2> SUFFICES ASSUME Inv, [Next]_vars PROVE Inv'
    OBVIOUS
  <2>1. SearchInv /\ RingsSound /\ dyn \in Dynamic /\ FoundIsRun
    BY DEF Inv, RingsSound, SearchInv
  <2>2. BatchesSound' /\ IndexesSound' /\ (SpotSound' /\ Searched') /\ FoundIsRun'
    BY <2>1, BatchesStep, IndexesStep, SearchedStep, FoundStep
  <2>3. (pc \in Phases)'
    BY <2>1 DEF SearchInv, Phases, Searching, Next, Caller, Search, Rest, vars, found, ReadBatch,
       CallerSetsOverlap, Seek, NextCandidate, NextPosition, PassBlock, SearchExhausted,
       Recognise, Accept, AcceptSecondRead, AcceptVote, Reject, InsertNext, CacheBatch
  <2>4. RingsSound'
    BY <2>1, RingsStep
  <2> QED BY <2>2, <2>3, <2>4 DEF Inv, SearchInv
<1> QED BY <1>1, <1>2, PTL DEF Spec

LEMMA InvMeansTypes == Inv => TypeOK
<1> SUFFICES ASSUME Inv PROVE TypeOK
  OBVIOUS
<1>1. BatchesSound /\ IndexesSound /\ SpotSound /\ pc \in Phases /\ RingsSound
  BY DEF Inv, SearchInv
<1>2. /\ disc \in Discs /\ cache \in Seq(Blocks) /\ Len(cache) <= CacheLimit
      /\ new \in Blocks /\ indexed \in 0 .. Len(new.samples) /\ pc \in Phases
      /\ dyn \in Dynamic /\ offset \in Int /\ log \in Seq(Int)
      /\ setBy \in {"start", "jitter", "caller"}
  BY <1>1 DEF BatchesSound, IndexesSound, RingsSound
<1>3. CASE pc \in Searching
  <2>1. /\ SpotFits(spot, cache, new, Tries) /\ spot.block \in 1 .. Len(cache) + 1
        /\ spot.try \in DOMAIN Tries
    BY <1>1, <1>3, SearchingFacts DEF Inv
  <2>2. AtBlock => spot.candidate \in 0 .. Len(Cached.samples)
    BY <2>1 DEF AtBlock, SpotFits, Cached
  <2> QED BY <1>2, <2>1, <2>2 DEF TypeOK, Phases
<1>4. CASE pc \notin Searching
  <2>1. spot.block = 1 /\ Len(cache) \in Nat
    BY <1>1, <1>2, <1>4 DEF SpotSound, NoSpot
  <2> QED BY <1>2, <1>4, <2>1 DEF TypeOK, Phases, AtBlock
<1> QED BY <1>3, <1>4

(* Every variable of stage 1 keeps its type, and the search stays at       *)
(* positions of the batch and places of the cached one.                    *)
THEOREM Stage1Types == Spec => []TypeOK
BY InvInductive, InvMeansTypes, PTL

(* The index of every cached batch leads through all its places.           *)
THEOREM IndexesDescribe == Spec => []IndexDescribesBlock
<1>1. Inv => IndexDescribesBlock
  BY DEF Inv, SearchInv, IndexesSound
<1> QED BY <1>1, InvInductive, PTL

(* No batch is recognised without a run of the least length that agrees at *)
(* the offset reported.                                                    *)
THEOREM RecognisedIsRun == Spec => []FoundIsRun
<1>1. Inv => FoundIsRun
  BY DEF Inv, SearchInv
<1> QED BY <1>1, InvInductive, PTL

LEMMA RulesMeanMissed == Inv => MissedMeansNone
<1> SUFFICES ASSUME Inv, pc = "unknown",
                    NEW k \in DOMAIN cache, Overlapping(new, cache[k]),
                    NEW t \in 1 .. 4, NEW j \in Places(cache[k]),
                    cache[k].samples[j] = new.samples[IsortTries(new)[t] + 1]
             PROVE  LET i == IsortTries(new)[t] + 1 IN
                      /\ ~MatchesFrom(new, i, cache[k], j, MinWordsSearch)
                      /\ t <= 3 => ~Agree(new, cache[k], OffsetTo(new, i, cache[k], j),
                                          MinWordsOverlap)
  BY DEF MissedMeansNone
<1> DEFINE i == IsortTries(new)[t] + 1
           b == cache[k]
<1>1. SoundBatch(new, disc) /\ SoundBatch(b, disc)
  BY DEF Inv, SearchInv, BatchesSound
<1>2. AllRules("isort", cache, new) /\ AllRules("overlap", cache, new)
  BY DEF Inv, SearchInv, Searched
<1>3. ~MatchesFrom(new, i, b, j, MinWordsSearch)
  <2>1. TriesOf("isort", new) = IsortTries(new) /\ t \in DOMAIN IsortTries(new)
    BY <1>1, BatchFacts DEF TriesOf
  <2>2. Rules("isort", cache, new, k, t, j)
    BY <1>2, <2>1 DEF AllRules
  <2> QED BY <2>1, <2>2 DEF Rules, HitAt
<1>4. ASSUME t <= 3
      PROVE  ~Agree(new, b, OffsetTo(new, i, b, j), MinWordsOverlap)
  <2>1. t \in 1 .. 3 /\ TriesOf("overlap", new) = OverlapTries(new)
    BY <1>4 DEF TriesOf
  <2>2. t \in DOMAIN TriesOf("overlap", new)
    BY <1>1, <2>1, BatchFacts
  <2>3. OverlapTries(new)[t] = IsortTries(new)[t]
    <3>1. t = 1 \/ t = 2 \/ t = 3
      BY <2>1
    <3> DEFINE u == Len(new.samples) \div 4
               v == Len(new.samples) \div 2
               w == (3 * Len(new.samples)) \div 4
    <3>2. OverlapTries(new) = <<0, u, v>> /\ IsortTries(new) = <<0, u, v, w>>
      BY DEF OverlapTries, IsortTries
    <3> HIDE DEF u, v, w
    <3> QED BY <3>1, <3>2
  <2>4. Rules("overlap", cache, new, k, t, j)
    BY <1>2, <2>2 DEF AllRules
  <2>5. ~MatchesSomewhere(new, b, OffsetTo(new, i, b, j), MinWordsOverlap)
    BY <2>1, <2>3, <2>4 DEF Rules, HitAt
  <2>6. /\ Indexable(new) /\ Indexable(b) /\ MinWordsOverlap \in Nat \ {0}
        /\ OffsetTo(new, i, b, j) \in Int
    <3>1. i \in Places(new) /\ Places(new) = 1 .. Len(new.samples)
          /\ Places(b) = 1 .. Len(b.samples) /\ new.begin \in Nat /\ b.begin \in Nat
      BY <1>1, BatchFacts
    <3>2. i \in Int /\ j \in Int /\ new.begin \in Int /\ b.begin \in Int
      BY <3>1
    <3> HIDE DEF i, b
    <3> QED BY <1>1, <3>2, MaxWordsOverlapNat DEF SoundBatch, OffsetTo
  <2> HIDE DEF i, b
  <2> QED BY <2>5, <2>6, MatchMeansRun
<1> QED BY <1>3, <1>4

(* A batch that is not recognised has no match at any position tried, in   *)
(* no cached batch.                                                        *)
THEOREM MissedHasNone == Spec => []MissedMeansNone
BY InvInductive, RulesMeanMissed, PTL

(* the offsets in a run whose samples were misread, at most n of them      *)
FewOf(A, n) == A \in SUBSET (0 .. LeastRun - 1) /\ Cardinality(A) <= n
AgreeBut(p, q, A, B) ==
  \A l \in 0 .. LeastRun - 1 : (l \notin A /\ l \notin B) => disc[p + l] = disc[q + l]

(* Where neither of two sets of misread samples reaches, two runs agree:   *)
(* they differ in no more places than both sets have together.             *)
LEMMA FewDiffer ==
  ASSUME NEW p \in Int, NEW q \in Int, NEW n \in Nat, NEW A, NEW B,
         FewOf(A, n), FewOf(B, n), AgreeBut(p, q, A, B)
  PROVE  ~(Cardinality(Differing(p, q)) > 2 * n)
<1> DEFINE D == Differing(p, q)
<1>1. IsFiniteSet(0 .. LeastRun - 1)
  <2>1. LeastRun - 1 \in Int
    BY DynOverlapAssumption, MaxWordsOverlapNat DEF LeastRun, Smaller
  <2> QED BY <2>1, FS_Interval
<1>2. /\ A \in SUBSET (0 .. LeastRun - 1) /\ B \in SUBSET (0 .. LeastRun - 1)
      /\ Cardinality(A) <= n /\ Cardinality(B) <= n
  BY DEF FewOf
<1>3. IsFiniteSet(A) /\ IsFiniteSet(B)
  BY <1>1, <1>2, FS_Subset
<1>4. D \in SUBSET (A \cup B)
  BY DEF AgreeBut, Differing
<1> HIDE DEF D
<1>5. /\ IsFiniteSet(A \cup B) /\ IsFiniteSet(A \cap B)
      /\ Cardinality(A \cup B) = Cardinality(A) + Cardinality(B) - Cardinality(A \cap B)
  <2>1. A \cap B \in SUBSET A
    OBVIOUS
  <2> QED BY <1>3, <2>1, FS_Union, FS_Subset
<1>6. IsFiniteSet(D) /\ Cardinality(D) <= Cardinality(A \cup B)
  BY <1>4, <1>5, FS_Subset
<1>7. /\ Cardinality(A) \in Nat /\ Cardinality(B) \in Nat /\ Cardinality(D) \in Nat
      /\ Cardinality(A \cap B) \in Nat /\ Cardinality(A \cup B) \in Nat
  BY <1>3, <1>5, <1>6, FS_CardinalityType
<1>8. Cardinality(D) <= 2 * n
  BY <1>2, <1>5, <1>6, <1>7
<1> QED BY <1>7, <1>8 DEF D

(* the sample that b holds of the position p is what the drive gave        *)
Gave(b, misread, p) ==
  Get(b, p) = IF p \in misread THEN Click ELSE disc[p + b.shift]

LEMMA GetsWhatWasGiven ==
  ASSUME NEW b, SoundBatch(b, disc)
  PROVE  \E misread \in Misread : \A p \in Int : Has(b, p) => Gave(b, misread, p)
<1>1. PICK misread \in Misread : \A i \in Places(b) :
        b.samples[i] = IF b.begin + i - 1 \in misread THEN Click
                       ELSE disc[b.begin + i - 1 + b.shift]
  BY DEF SoundBatch, DriveGave
<1>2. b.begin \in Nat /\ Len(b.samples) \in Nat /\ Places(b) = 1 .. Len(b.samples)
  BY BatchFacts
<1>3. ASSUME NEW p \in Int, Has(b, p) PROVE Gave(b, misread, p)
  <2>1. b.begin <= p /\ p < b.begin + Len(b.samples)
    BY <1>3 DEF Has, EndOf
  <2>2. p - b.begin + 1 \in Places(b) /\ b.begin + (p - b.begin + 1) - 1 = p
    BY <1>2, <2>1
  <2>3. Get(b, p) = b.samples[p - b.begin + 1]
    BY DEF Get
  <2> QED BY <1>1, <2>2, <2>3 DEF Gave
<1> QED BY <1>3

(* the positions p .. p + r belong to b, and to the reading range          *)
RunIn(b, p, r) ==
  /\ p .. p + r \subseteq 0 .. Sectors * FrameWords - 1
  /\ \A l \in 0 .. r : Has(b, p + l)
  /\ (p + b.shift) .. (p + b.shift + r) \subseteq Source(b)

LEMMA RunInBatch ==
  ASSUME NEW b, SoundBatch(b, disc), NEW p \in Int, NEW r \in Nat,
         \A l \in 0 .. r : Has(b, p + l)
  PROVE  RunIn(b, p, r)
<1>1. /\ b.begin \in Nat /\ Len(b.samples) \in Nat /\ b.shift \in Int
      /\ EndOf(b) = b.begin + Len(b.samples) /\ EndOf(b) <= Sectors * FrameWords
      /\ Sectors * FrameWords \in Int
  <2>1. b.begin \in Nat /\ Len(b.samples) \in Nat
    BY BatchFacts
  <2>2. b.shift \in Int
    BY Stage1Assumption DEF SoundBatch
  <2>3. EndOf(b) = b.begin + Len(b.samples)
    BY DEF EndOf
  <2>4. EndOf(b) <= Sectors * FrameWords
    BY DEF SoundBatch
  <2>5. Sectors * FrameWords \in Int
    BY Stage1Assumption, DynOverlapAssumption
  <2> QED BY <2>1, <2>2, <2>3, <2>4, <2>5
<1>2. b.begin <= p /\ p + r < EndOf(b)
  <2>1. 0 \in 0 .. r /\ r \in 0 .. r /\ p + 0 = p
    OBVIOUS
  <2>2. Has(b, p) /\ Has(b, p + r)
    BY <2>1
  <2> QED BY <2>2 DEF Has
<1> DEFINE e == EndOf(b)
           N == Sectors * FrameWords
<1>3. p .. p + r \subseteq 0 .. N - 1
  <2> HIDE DEF e, N
  <2>1. b.begin \in Nat /\ e \in Int /\ N \in Int /\ e <= N /\ p + r < e /\ b.begin <= p
    BY <1>1, <1>2 DEF e, N
  <2> QED BY <2>1
<1>4. (p + b.shift) .. (p + b.shift + r) \subseteq Source(b)
  <2>1. Source(b) = (b.begin + b.shift) .. (e - 1 + b.shift)
    BY DEF Source
  <2> HIDE DEF e
  <2>2. e \in Int /\ p + r < e /\ b.begin <= p
    BY <1>1, <1>2 DEF e
  <2> QED BY <1>1, <2>1, <2>2
<1> QED BY <1>3, <1>4 DEF RunIn

LEMMA RunMeansJitter == Inv => JitterIsTheDrives
<1> SUFFICES ASSUME Inv, pc = "recognised", NEW n \in 0 .. LeastRun, FewMisread(n),
                    \A k \in DOMAIN cache :
                      Overlapping(new, cache[k]) => RunsDiffer(new, cache[k], 2 * n)
             PROVE  \E k \in DOMAIN cache :
                      Overlapping(new, cache[k]) /\ offset = new.shift - cache[k].shift
  BY DEF JitterIsTheDrives
<1>1. PICK k \in DOMAIN cache :
        Overlapping(new, cache[k]) /\ Agree(new, cache[k], offset, LeastRun)
  BY DEF Inv, SearchInv, FoundIsRun, LeastRun
<1> DEFINE b == cache[k]
           r == LeastRun - 1
<1>2. SoundBatch(new, disc) /\ SoundBatch(b, disc) /\ offset \in Int /\ disc \in Discs
  BY DEF Inv, SearchInv, BatchesSound, RingsSound
<1>3. PICK i \in Places(new) : \A l \in 0 .. r :
        /\ i + l \in Places(new)
        /\ Has(b, new.begin + i + l - 1 + offset)
        /\ Get(b, new.begin + i + l - 1 + offset) = new.samples[i + l]
  BY <1>1 DEF Agree
<1>4. RunsDiffer(new, b, 2 * n)
  BY <1>1
<1> HIDE DEF b
<1>5. LeastRun \in Nat \ {0} /\ r \in Nat /\ n \in Nat
  BY DynOverlapAssumption, MaxWordsOverlapNat DEF LeastRun, Smaller
<1>6. /\ new.begin \in Int /\ Places(new) = 1 .. Len(new.samples) /\ Len(new.samples) \in Nat
      /\ new.shift \in Int /\ b.shift \in Int
  <2>1. new.shift \in Int /\ b.shift \in Int
    BY <1>2, Stage1Assumption DEF SoundBatch
  <2> QED BY <1>2, <2>1, BatchFacts
<1>7. i \in Int
  BY <1>6
<1> DEFINE x == new.begin + i - 1
           y == x + offset
           p == x + new.shift
           q == y + b.shift
<1>8. x \in Int /\ y \in Int /\ p \in Int /\ q \in Int
  <2>1. x \in Int
    BY <1>6, <1>7
  <2> HIDE DEF x
  <2> QED BY <1>2, <1>6, <2>1
<1>9. ASSUME NEW l \in 0 .. r
      PROVE  Has(new, x + l) /\ Has(b, y + l) /\ Get(b, y + l) = Get(new, x + l)
  <2>1. i + l \in 1 .. Len(new.samples) /\ l \in Int
    BY <1>3, <1>6
  <2>2. new.begin + i + l - 1 + offset = y + l /\ x + l = new.begin + (i + l) - 1
    <3> DEFINE c == new.begin
    <3>1. c \in Int /\ x = c + i - 1
      BY <1>6
    <3> HIDE DEF c, x
    <3>2. c + i + l - 1 + offset = x + offset + l /\ x + l = c + (i + l) - 1
      BY <1>2, <1>7, <2>1, <3>1
    <3> QED BY <3>2 DEF c
  <2> HIDE DEF x, y
  <2>3. Has(b, y + l) /\ Get(b, y + l) = new.samples[i + l]
    BY <1>3, <2>2
  <2>4. Has(new, x + l) /\ Get(new, x + l) = new.samples[i + l]
    <3> DEFINE j == i + l
               z == x + l
    <3>1. j \in 1 .. Len(new.samples) /\ z = new.begin + j - 1
      BY <2>1, <2>2
    <3> HIDE DEF j, z
    <3>2. new.begin <= z /\ z < new.begin + Len(new.samples) /\ z - new.begin + 1 = j
      BY <1>6, <3>1
    <3>3. Has(new, z) /\ Get(new, z) = new.samples[j]
      BY <3>2 DEF Has, Get, EndOf
    <3> QED BY <3>3 DEF j, z
  <2> QED BY <2>3, <2>4
<1> HIDE DEF r, x, y, p, q
<1>10. RunIn(new, x, r) /\ RunIn(b, y, r)
  BY <1>2, <1>5, <1>8, <1>9, RunInBatch
<1>11. PICK misread \in Misread : \A z \in Int : Has(new, z) => Gave(new, misread, z)
  BY <1>2, GetsWhatWasGiven
<1>12. PICK other \in Misread : \A z \in Int : Has(b, z) => Gave(b, other, z)
  BY <1>2, GetsWhatWasGiven
<1> DEFINE A == {l \in 0 .. LeastRun - 1 : x + l \in misread}
           B == {l \in 0 .. LeastRun - 1 : y + l \in other}
<1>13. FewOf(A, n) /\ FewOf(B, n)
  <2>1. x \in 0 .. Sectors * FrameWords - 1 /\ y \in 0 .. Sectors * FrameWords - 1
    <3>1. x \in x .. x + r /\ y \in y .. y + r
      BY <1>5, <1>8
    <3> QED BY <1>10, <3>1 DEF RunIn
  <2>2. Cardinality(A) <= n /\ Cardinality(B) <= n
    BY <2>1 DEF FewMisread
  <2> QED BY <2>2 DEF FewOf
<1>14. AgreeBut(p, q, A, B)
  <2> SUFFICES ASSUME NEW l \in 0 .. LeastRun - 1, l \notin A, l \notin B
               PROVE  disc[p + l] = disc[q + l]
    BY DEF AgreeBut
  <2>1. x + l \notin misread /\ y + l \notin other /\ x + l \in Int /\ y + l \in Int
    BY <1>8
  <2>2. l \in 0 .. r /\ l \in Int
    BY DEF r
  <2>3. Get(new, x + l) = disc[x + l + new.shift] /\ Get(b, y + l) = disc[y + l + b.shift]
    BY <1>9, <1>11, <1>12, <2>1, <2>2 DEF Gave
  <2>4. x + l + new.shift = p + l
    <3> DEFINE s == new.shift
    <3>1. s \in Int /\ p = x + s
      BY <1>6 DEF p
    <3> HIDE DEF s
    <3> QED BY <1>8, <2>2, <3>1 DEF s
  <2>5. y + l + b.shift = q + l
    <3> DEFINE s == b.shift
    <3>1. s \in Int /\ q = y + s
      BY <1>6 DEF q
    <3> HIDE DEF s
    <3> QED BY <1>8, <2>2, <3>1 DEF s
  <2> QED BY <1>9, <2>2, <2>3, <2>4, <2>5
<1> HIDE DEF A, B
<1>15. ~(Cardinality(Differing(p, q)) > 2 * n)
  BY <1>5, <1>8, <1>13, <1>14, FewDiffer
<1>16. p = q
  <2>1. r = LeastRun - 1 /\ p = x + new.shift /\ q = y + b.shift
    BY DEF r, p, q
  <2>2. /\ p .. (p + LeastRun - 1) = (x + new.shift) .. (x + new.shift + r)
        /\ q .. (q + LeastRun - 1) = (y + b.shift) .. (y + b.shift + r)
    BY <1>5, <1>6, <1>8, <2>1
  <2>3. Run(p) \subseteq Source(new) /\ Run(q) \subseteq Source(b)
    BY <1>10, <2>2 DEF Run, RunIn
  <2>4. p \in Source(new) /\ q \in Source(b)
    <3>1. p \in Run(p) /\ q \in Run(q)
      BY <1>5, <1>8 DEF Run
    <3> QED BY <2>3, <3>1
  <2> QED BY <1>4, <1>15, <2>1, <2>3, <2>4 DEF RunsDiffer
<1>17. offset = new.shift - b.shift
  <2>1. x + new.shift = (x + offset) + b.shift
    BY <1>16 DEF p, q, y
  <2> QED BY <1>2, <1>6, <1>8, <2>1
<1> QED BY <1>1, <1>17 DEF b

(* A batch is recognised at the offset between the drive's two shifts, if  *)
(* no run of the music that the two batches cover comes again in all but   *)
(* 2n samples and the drive misreads at most n samples of a run.           *)
THEOREM RecordedIsTheDrives == Spec => []JitterIsTheDrives
BY InvInductive, RunMeansJitter, PTL

(* The ring holds the latest offsets, each once.                           *)
THEOREM LatestAreHeld == Spec => []RingsHoldLatest
<1>1. Inv => RingsHoldLatest
  BY DEF Inv, RingsSound
<1> QED BY <1>1, InvInductive, PTL

(* The overlap covers the offsets it was computed from and keeps its       *)
(* limits unless the caller sets it.                                       *)
THEOREM OverlapIsEnough == Spec => []OverlapCovers
<1>1. Inv => OverlapCovers
  BY DEF Inv, RingsSound
<1> QED BY <1>1, InvInductive, PTL

-----------------------------------------------------------------------------
(* The measure of a search *)

(* The links lead only to earlier places, so that no chain is a circle.    *)
LEMMA LinkLeadsBack ==
  ASSUME NEW b, NEW n \in Nat, Describes(b, n), NEW i \in 1 .. n
  PROVE  b.links[i] < i
<1> DEFINE S == PlacesOf(b, b.samples[i], i - 1)
           p == b.links[i]
<1>1. IsLast(p, S)
  BY DEF Describes
<1>2. \A j \in S : j \in 1 .. i - 1
  BY DEF PlacesOf
<1> HIDE DEF S, p
<1>3. p = 0 \/ p \in 1 .. i - 1
  BY <1>1, <1>2 DEF IsLast
<1> QED BY <1>3 DEF p

LEMMA SearchStepAdvances == Inv /\ [Next]_vars => [SearchAdvances]_vars
<1> SUFFICES ASSUME Inv, Next, pc \in Searching PROVE SearchAdvances
  BY DEF SearchAdvances
<1>0. TypeOK /\ IndexDescribesBlock
  BY InvMeansTypes DEF Inv, SearchInv, IndexesSound
<1>spot. SpotFits(spot, cache, new, Tries) /\ \A q \in DOMAIN cache : SoundBatch(cache[q], disc)
  BY SearchingFacts DEF Inv
<1>1. CASE Recognise
  BY <1>1 DEF Recognise, SearchAdvances
<1>2. CASE NextCandidate
  <2>1. AtBlock /\ spot.candidate # 0 /\ spot.block \in DOMAIN cache
    BY <1>2 DEF NextCandidate, Candidate, AtBlock
  <2>2. Len(Cached.samples) \in Nat
    BY <1>spot, <2>1, BatchFacts DEF Cached
  <2>3. spot.candidate \in 1 .. Len(Cached.samples)
    BY <1>0, <2>1, <2>2 DEF TypeOK
  <2>4. Cached.links[spot.candidate] < spot.candidate
    BY <1>0, <2>1, <2>2, <2>3, LinkLeadsBack DEF IndexDescribesBlock, Cached
  <2>5. UNCHANGED <<pc, new, cache>> /\ spot' = [spot EXCEPT !.candidate = Cached.links[@]]
    BY <1>2 DEF NextCandidate
  <2>6. spot \in [block : 1 .. Len(cache) + 1, try : DOMAIN Tries, candidate : Nat]
    BY <1>spot DEF SpotFits
  <2>7. /\ spot'.block = spot.block /\ spot'.try = spot.try
        /\ spot'.candidate = Cached.links[spot.candidate]
    BY <2>5, <2>6
  <2> QED BY <2>1, <2>4, <2>5, <2>7 DEF SearchAdvances
<1>3. CASE NextPosition
  <2>1. spot.block \in DOMAIN cache /\ UNCHANGED <<pc, new, cache>>
    BY <1>3 DEF NextPosition, AtBlock
  <2>2. CASE spot.try < Len(Tries)
    <3>1. spot'.block = spot.block /\ spot'.try = spot.try + 1
      BY <1>3, <2>2 DEF NextPosition, SpotAt
    <3> QED BY <2>1, <2>2, <3>1 DEF SearchAdvances
  <2>3. CASE ~(spot.try < Len(Tries))
    <3>1. spot'.block = spot.block + 1
      BY <1>3, <2>3 DEF NextPosition, SpotAt
    <3> QED BY <2>1, <3>1 DEF SearchAdvances
  <2> QED BY <2>2, <2>3
<1>4. CASE PassBlock
  <2>1. spot.block \in DOMAIN cache /\ UNCHANGED <<pc, new, cache>>
    BY <1>4 DEF PassBlock, AtBlock
  <2>2. spot'.block = spot.block + 1
    BY <1>4 DEF PassBlock, SpotAt
  <2> QED BY <2>1, <2>2 DEF SearchAdvances
<1>5. CASE SearchExhausted
  BY <1>5 DEF SearchExhausted, SearchAdvances
<1>6. ~Caller /\ ~Rest
  BY DEF Caller, Rest, Searching, ReadBatch, CallerSetsOverlap, Seek, Accept, Reject, InsertNext,
         CacheBatch, AcceptSecondRead, AcceptVote
<1> QED BY <1>1, <1>2, <1>3, <1>4, <1>5, <1>6 DEF Next, Search

(* Each comparison leaves less of the search to do.                        *)
THEOREM SearchesGetOn == Spec => SearchesAdvance
<1>1. Inv /\ [Next]_vars => [SearchAdvances]_vars
  BY SearchStepAdvances
<1> QED BY <1>1, InvInductive, PTL DEF Spec, SearchesAdvance
=============================================================================
