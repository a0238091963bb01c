------------------------------- MODULE Stage1 -------------------------------
(***************************************************************************)
(* Stage 1 of a verified read (src/paranoia.rs, with src/isort.rs and      *)
(* src/overlap.rs), sample by sample: a batch is looked for in the cached  *)
(* ones, first with the sort index (verify_with_isort, find_match), then   *)
(* with find_overlap; the offset at which it is found is recorded and      *)
(* decides how far the next batch reaches back; the batch is indexed and   *)
(* cached.  Where ReadLoop leaves open whether a batch is recognised and   *)
(* what that does to the overlap, this module computes it.                 *)
(*                                                                         *)
(* A step of a search is one candidate, or the move to the next position   *)
(* or block.  What becomes of a batch that is not recognised is the matter *)
(* of Verification: here the second read accepts it, with some shift, or a *)
(* vote replaces it, or the attempt ends.                                  *)
(***************************************************************************)
EXTENDS DynOverlap, SortIndex

CONSTANTS
  Sectors,         (* the reading range is 0 .. Sectors - 1                 *)
  BatchSectors,    (* sectors of a batch, beside its overlap                *)
  MinSectors,      (* least backward overlap of a batch, in sectors         *)
  CacheLimit,      (* blocks that trim_cache leaves                         *)
  Click,           (* what a misread sample reads as                        *)
  (* the environment *)
  Discs,           (* what the sectors and their surroundings may hold      *)
  Shifts,          (* how far ahead the drive may be in one batch           *)
  Misread,         (* the sets of positions it may misread in one batch     *)
  SecondShifts,    (* offsets at which a second read may be found           *)
  Overlaps         (* what the caller may pass to set_overlap               *)

ASSUME Stage1Assumption ==
  /\ Sectors \in Nat \ {0} /\ BatchSectors \in Nat \ {0} /\ MinSectors \in Nat
  /\ CacheLimit \in Nat \ {0} /\ Click \in Values
  /\ Shifts \subseteq Int /\ SecondShifts \subseteq Int /\ Overlaps \subseteq Int
  /\ \A disc \in Discs, s \in Shifts, p \in 0 .. Sectors * FrameWords - 1 :
       p + s \in DOMAIN disc /\ disc[p + s] \in Values

VARIABLES
  disc,      (* what the disc holds                                         *)
  cache,     (* the cached batches, oldest first                            *)
  dyn,       (* DynamicOverlap                                              *)
  new,       (* the batch at hand                                           *)
  pc,        (* what the read does next                                     *)
  spot,      (* where the search is: block, position tried, candidate       *)
  offset,    (* where the batch was found                                   *)
  indexed,   (* samples of the batch that are in its index                  *)
  log,       (* history: the offsets recorded last, newest first            *)
  setBy      (* history: what the overlap was last set by                   *)

vars == <<disc, cache, dyn, new, pc, spot, offset, indexed, log, setBy>>
found   == <<spot, offset>>
history == <<log, setBy>>

-----------------------------------------------------------------------------
(* The batch that is read *)

Reach == Larger(OverlapSectors(dyn), MinSectors)
FirstSector(target) == Larger(target - Reach, 0)
EndSector(target)   == Smaller(FirstSector(target) + BatchSectors + Reach, Sectors)

DriveGives(begin, end, shift, misread) ==
  Unindexed(begin,
            [i \in 1 .. end - begin |-> IF begin + i - 1 \in misread THEN Click
                                        ELSE disc[begin + i - 1 + shift]],
            shift)

-----------------------------------------------------------------------------
(* The two searches: the same blocks in the same order, other positions    *)

Searching == {"isort", "overlap"}

IsortTries(b)   == LET n == Len(b.samples) IN <<0, n \div 4, n \div 2, (3 * n) \div 4>>
OverlapTries(b) == LET n == Len(b.samples) IN <<0, n \div 4, n \div 2>>

NoSpot  == [block |-> 1, try |-> 1, candidate |-> 0]
NoBatch == Unindexed(0, <<>>, 0)

(* at the first candidate for the t-th position in the k-th block          *)
SpotAt(k, t, b, tries) ==
  [block |-> k, try |-> t,
   candidate |-> IF k \in DOMAIN cache THEN cache[k].heads[b.samples[tries[t] + 1]]
                                       ELSE 0]

Tries     == IF pc = "isort" THEN IsortTries(new) ELSE OverlapTries(new)
TryPlace  == Tries[spot.try] + 1
Cached    == cache[spot.block]
AtBlock   == pc \in Searching /\ spot.block \in DOMAIN cache
Candidate == AtBlock /\ Overlapping(new, Cached) /\ spot.candidate # 0
Offset    == OffsetTo(new, TryPlace, Cached, spot.candidate)
Hit ==
  IF pc = "isort" THEN MatchesFrom(new, TryPlace, Cached, spot.candidate, MinWordsSearch)
                  ELSE MatchesSomewhere(new, Cached, Offset, MinWordsOverlap)

(* mutant: only the last place of a value is tried *)
LastCandidateOnly ==
  /\ Candidate /\ ~Hit
  /\ spot' = [spot EXCEPT !.candidate = 0]
  /\ UNCHANGED <<disc, cache, dyn, new, pc, offset, indexed, history>>

NextCandidate ==
  /\ Candidate /\ ~Hit
  /\ spot' = [spot EXCEPT !.candidate = Cached.links[@]]
  /\ UNCHANGED <<disc, cache, dyn, new, pc, offset, indexed, history>>

(* mutant: the offset of a match is measured from the batch's begin *)
RecogniseFromBegin ==
  /\ Candidate /\ Hit
  /\ pc' = "recognised" /\ spot' = NoSpot
  /\ offset' = OffsetTo(new, 1, Cached, spot.candidate)
  /\ UNCHANGED <<disc, cache, dyn, new, indexed, history>>

Recognise ==
  /\ Candidate /\ Hit
  /\ pc' = "recognised" /\ spot' = NoSpot
  /\ offset' = Offset
  /\ UNCHANGED <<disc, cache, dyn, new, indexed, history>>

(* mutant: after the last position the first one again, in the same block *)
NextPositionAround ==
  /\ AtBlock /\ Overlapping(new, Cached) /\ spot.candidate = 0
  /\ spot' = SpotAt(spot.block, IF spot.try < Len(Tries) THEN spot.try + 1 ELSE 1, new, Tries)
  /\ UNCHANGED <<disc, cache, dyn, new, pc, offset, indexed, history>>

NextPosition ==
  /\ AtBlock /\ Overlapping(new, Cached) /\ spot.candidate = 0
  /\ spot' = IF spot.try < Len(Tries) THEN SpotAt(spot.block, spot.try + 1, new, Tries)
                                      ELSE SpotAt(spot.block + 1, 1, new, Tries)
  /\ UNCHANGED <<disc, cache, dyn, new, pc, offset, indexed, history>>

PassBlock ==
  /\ AtBlock /\ ~Overlapping(new, Cached)
  /\ spot' = SpotAt(spot.block + 1, 1, new, Tries)
  /\ UNCHANGED <<disc, cache, dyn, new, pc, offset, indexed, history>>

SearchExhausted ==
  /\ pc \in Searching /\ spot.block \notin DOMAIN cache
  /\ IF pc = "isort" /\ cache # <<>>
     THEN pc' = "overlap" /\ spot' = SpotAt(1, 1, new, OverlapTries(new))
     ELSE pc' = "unknown" /\ spot' = NoSpot
  /\ UNCHANGED <<disc, cache, dyn, new, offset, indexed, history>>

-----------------------------------------------------------------------------
(* What follows *)

(* only an offset that is not 0 is recorded                                *)
Record(shift) ==
  IF shift = 0 THEN UNCHANGED <<dyn, history>>
  ELSE /\ dyn' = RecordJitter(dyn, shift, 1)
       /\ log' = SubSeq(<<shift>> \o log, 1, Smaller(Len(log) + 1, RingSize + Interval - 1))
       /\ setBy' = IF dyn.measurements + 1 >= Interval THEN "jitter" ELSE setBy

Accept ==
  /\ pc = "recognised"
  /\ Record(offset)
  /\ pc' = "index" /\ offset' = 0
  /\ UNCHANGED <<disc, cache, new, spot, indexed>>

AcceptSecondRead(shift) ==
  /\ pc = "unknown"
  /\ Record(shift)
  /\ pc' = "index"
  /\ UNCHANGED <<disc, cache, new, found, indexed>>

(* a vote; its result is taken to be one of the reads                      *)
AcceptVote(shift, misread) ==
  /\ pc = "unknown"
  /\ new' = DriveGives(new.begin, EndOf(new), shift, misread)
  /\ pc' = "index"
  /\ UNCHANGED <<disc, cache, dyn, found, indexed, history>>

Reject ==
  /\ pc = "unknown"
  /\ pc' = "read" /\ new' = NoBatch
  /\ UNCHANGED <<disc, cache, dyn, found, indexed, history>>

InsertNext ==
  /\ pc = "index" /\ indexed < Len(new.samples)
  /\ new' = Insert(new, indexed + 1) /\ indexed' = indexed + 1
  /\ UNCHANGED <<disc, cache, dyn, pc, found, history>>

(* mutant: trims one block too late *)
TrimCacheLate(c) == IF Len(c) > CacheLimit + 1 THEN SubSeq(c, 2, Len(c)) ELSE c
TrimCache(c) == IF Len(c) > CacheLimit THEN SubSeq(c, Len(c) - CacheLimit + 1, Len(c)) ELSE c

CacheBatch ==
  /\ pc = "index" /\ indexed = Len(new.samples)
  /\ cache' = TrimCache(Append(cache, new))
  /\ pc' = "read" /\ new' = NoBatch /\ indexed' = 0
  /\ UNCHANGED <<disc, dyn, found, history>>

-----------------------------------------------------------------------------
(* Between batches *)

Init ==
  /\ disc \in Discs
  /\ cache = <<>> /\ dyn = NewDynamic
  /\ pc = "read" /\ new = NoBatch /\ spot = NoSpot
  /\ offset = 0 /\ indexed = 0
  /\ log = <<>> /\ setBy = "start"

ReadBatch(target, shift, misread) ==
  /\ pc = "read"
  /\ new' = DriveGives(FirstSector(target) * FrameWords, EndSector(target) * FrameWords,
                       shift, misread)
  /\ pc' = "isort" /\ spot' = SpotAt(1, 1, new', IsortTries(new'))
  /\ UNCHANGED <<disc, cache, dyn, offset, indexed, history>>

CallerSetsOverlap(words) ==
  /\ pc = "read"
  /\ dyn' = SetOverlap(dyn, words) /\ setBy' = "caller"
  /\ UNCHANGED <<disc, cache, new, pc, found, indexed, log>>

Seek ==
  /\ pc = "read"
  /\ cache' = <<>>
  /\ UNCHANGED <<disc, dyn, new, pc, found, indexed, history>>

Caller ==
  \/ \E target \in 0 .. Sectors - 1, s \in Shifts, m \in Misread : ReadBatch(target, s, m)
  \/ \E words \in Overlaps : CallerSetsOverlap(words)
  \/ Seek

Search == Recognise \/ NextCandidate \/ NextPosition \/ PassBlock \/ SearchExhausted

Rest ==
  \/ Accept \/ Reject \/ InsertNext \/ CacheBatch
  \/ \E s \in SecondShifts : AcceptSecondRead(s)
  \/ \E s \in Shifts, m \in Misread : AcceptVote(s, m)

Next == Caller \/ Search \/ Rest

Spec == Init /\ [][Next]_vars

(* a search runs to its end in the caller's thread                         *)
FairSpec == Spec /\ WF_vars(Search)

-----------------------------------------------------------------------------
(* Correctness *)

Blocks == [begin : Nat, samples : Seq(Values), shift : Shifts \cup {0},
           heads : [Values -> Nat], links : Seq(Nat)]

(* Every variable holds a value of its Rust type; the search stands at a   *)
(* position it tries, and at a place of the block it looks in.             *)
TypeOK ==
  /\ disc \in Discs
  /\ cache \in Seq(Blocks) /\ Len(cache) <= CacheLimit
  /\ dyn \in Dynamic /\ new \in Blocks
  /\ pc \in Searching \cup {"read", "recognised", "unknown", "index"}
  /\ spot.block \in 1 .. Len(cache) + 1
  /\ pc \in Searching => spot.try \in DOMAIN Tries
  /\ AtBlock => spot.candidate \in 0 .. Len(Cached.samples)
  /\ offset \in Int /\ indexed \in 0 .. Len(new.samples)
  /\ log \in Seq(Int) /\ setBy \in {"start", "jitter", "caller"}

(* The index of every cached batch, and of the one being indexed as far as *)
(* it is, leads from each value through all its places, last one first:    *)
(* no candidate is missed and none is met twice.                           *)
IndexDescribesBlock ==
  /\ \A k \in DOMAIN cache : Describes(cache[k], Len(cache[k].samples))
  /\ Describes(new, indexed)

(* A batch is recognised only where a run of the least length agrees with  *)
(* a cached batch it overlaps, at the offset that is reported: neither the *)
(* samples without a counterpart, which end no run, nor those before and   *)
(* after the position tried lend a match that is not there.                *)
FoundIsRun ==
  pc = "recognised" =>
    \E k \in DOMAIN cache :
      /\ Overlapping(new, cache[k])
      /\ Agree(new, cache[k], offset, Smaller(MinWordsSearch, MinWordsOverlap))

(* A batch goes on to a second read only if no position tried has a        *)
(* counterpart, in any cached batch it overlaps, from which a run agrees   *)
(* (or, at the positions find_overlap tries, around which one does).       *)
MissedMeansNone ==
  pc = "unknown" =>
    \A k \in DOMAIN cache : Overlapping(new, cache[k]) =>
      \A t \in 1 .. 4, j \in Places(cache[k]) :
        LET i == IsortTries(new)[t] + 1 IN
          cache[k].samples[j] = new.samples[i] =>
            /\ ~MatchesFrom(new, i, cache[k], j, MinWordsSearch)
            /\ t <= 3 => ~Agree(new, cache[k], OffsetTo(new, i, cache[k], j),
                                MinWordsOverlap)

(* Two places of the disc that a and b came from begin runs, of the least  *)
(* length a match has, that differ in more than n samples.                 *)
LeastRun  == Smaller(MinWordsSearch, MinWordsOverlap)
Run(p)    == p .. (p + LeastRun - 1)
Source(b) == (b.begin + b.shift) .. (EndOf(b) - 1 + b.shift)
Differing(p, q) == {i \in 0 .. LeastRun - 1 : disc[p + i] # disc[q + i]}
RunsDiffer(a, b, n) ==
  \A p \in Source(a), q \in Source(b) :
    (p # q /\ Run(p) \subseteq Source(a) /\ Run(q) \subseteq Source(b)) =>
      Cardinality(Differing(p, q)) > n

(* In no read are more than n samples of a run misread.                    *)
FewMisread(n) ==
  \A misread \in Misread, p \in 0 .. Sectors * FrameWords - 1 :
    Cardinality({i \in 0 .. LeastRun - 1 : p + i \in misread}) <= n

(* The offset at which stage 1 recognises a batch is the one between the   *)
(* drive's two shifts, although samples of either read are wrong: as long  *)
(* as those are at most n in a run, and no run of the music that was read  *)
(* comes again, in the stretch that batch and cached batch cover, in all   *)
(* but 2n of its samples.                                                  *)
JitterIsTheDrives ==
  \A n \in 0 .. LeastRun :
    (pc = "recognised" /\ FewMisread(n)
      /\ \A k \in DOMAIN cache :
           Overlapping(new, cache[k]) => RunsDiffer(new, cache[k], 2 * n)) =>
        \E k \in DOMAIN cache :
          Overlapping(new, cache[k]) /\ offset = new.shift - cache[k].shift

(* The ring holds the latest offsets, each once, also after it has wrapped *)
(* around: recalibration looks at nothing older.                           *)
RingsHoldLatest ==
  /\ dyn.stage1.count = Smaller(Len(log), RingSize)
  /\ \A i \in 1 .. dyn.stage1.count :
       dyn.stage1.offsets[(dyn.stage1.index - i) % RingSize] = log[i]
  /\ dyn.stage2 = EmptyRing

(* The overlap, once recalibrated, covers every offset the ring held then, *)
(* in either direction, and the search window goes with it; it leaves its  *)
(* limits only at the caller's wish.                                       *)
OverlapCovers ==
  /\ dyn.overlap >= MinWordsOverlap
  /\ setBy # "caller" => dyn.overlap <= MaxWordsOverlap
  /\ setBy = "jitter" =>
       /\ dyn.search = dyn.overlap
       /\ \A i \in 1 .. Smaller(Len(log) - dyn.measurements, RingSize) :
            dyn.overlap >= Smaller(MaxWordsOverlap,
                                Abs(log[dyn.measurements + i]) + MinWordsOverlap)

(* Every step of a search leaves less of it: the next block, the next      *)
(* position or an earlier place of the same value, never a place it has    *)
(* been to; after the last block the second search, or the end.  (It does  *)
(* not stand still at a place either: IndexDescribesBlock, SearchEnds.)    *)
SearchAdvances ==
  pc \in Searching =>
    \/ pc' \in {"recognised", "unknown"}
    \/ pc = "isort" /\ pc' = "overlap"
    \/ /\ UNCHANGED <<pc, new, cache>> /\ spot.block \in DOMAIN cache
       /\ \/ spot'.block = spot.block + 1
          \/ /\ spot'.block = spot.block
             /\ spot'.try = spot.try + 1 /\ spot.try < Len(Tries)
          \/ /\ spot'.block = spot.block /\ spot'.try = spot.try
             /\ spot'.candidate < spot.candidate
SearchesAdvance == [][SearchAdvances]_vars

(* Every search comes to an end, whatever the cached batches hold: no      *)
(* chain of candidates leads in a circle.                                  *)
SearchEnds == pc \in Searching ~> pc \notin Searching
=============================================================================
