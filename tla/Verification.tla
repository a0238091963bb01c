---------------------------- MODULE Verification ----------------------------
(***************************************************************************)
(* How one batch is verified when stage 1 has not recognised it, sample by *)
(* sample: the second read and its comparison with the first               *)
(* (find_batch_jitter_match, rift analysis), then voting on further reads  *)
(* (src/consensus.rs).  Where ReadLoop leaves the outcome of these open,   *)
(* this module computes it from what the drive gave.                       *)
(*                                                                         *)
(* Positions count from 1, so that a read is a sequence.  An attempt that  *)
(* fails starts over; how often it may is ReadLoop's business.             *)
(***************************************************************************)
EXTENDS Integers, Sequences, FiniteSets

CONSTANTS
  BatchWords,       (* samples of the batch                                 *)
  FrameWords,       (* CD_FRAMEWORDS                                        *)
  MinWordsOverlap,  (* MIN_WORDS_OVERLAP                                    *)
  MinWordsRift,     (* MIN_WORDS_RIFT                                       *)
  MaxSearch,        (* how far a rift is searched for its end               *)
  MinReads,         (* MIN_READS_FOR_CONSENSUS                              *)
  MaxAdditional,    (* further reads tried for a consensus                  *)
  Quiet,            (* the samples that count as silence                    *)
  (* the environment *)
  Values,           (* samples the drive may give at a weak position        *)
  Weak,             (* positions at which it may misread                    *)
  Slips,            (* [at, by]: from at on, it is by samples ahead         *)
  Discs,            (* what the batch and a batch's length around it hold   *)
  Searches          (* dynoverlap.search, as earlier batches have left it   *)

ASSUME VerificationAssumption ==
  /\ BatchWords \in Nat \ {0} /\ FrameWords \in Nat \ {0}
  /\ MinWordsOverlap \in Nat \ {0} /\ MinWordsRift \in Nat \ {0}
  /\ MaxSearch \in Nat /\ Searches \subseteq Nat
  /\ MinReads \in Nat /\ MaxAdditional \in Nat
  /\ Weak \subseteq 1 .. BatchWords
  /\ Slips \subseteq [at : Int, by : (-BatchWords) .. BatchWords]
  /\ \A d \in Discs : (1 - BatchWords) .. (2 * BatchWords) \subseteq DOMAIN d

VARIABLES
  disc,    (* what the disc holds                                           *)
  search,  (* dynoverlap.search                                             *)
  phase,   (* what the attempt does next                                    *)
  reads,   (* the reads of this attempt, with their jitter                  *)
  tries,   (* turns of the consensus loop                                   *)
  result   (* the samples that go to the root, as the sets of values they   *)
           (* may have, and which of them are verified                      *)

given == <<disc, search>>
vars  == <<given, phase, reads, tries, result>>

Batch    == 1 .. BatchWords
NoResult == [samples |-> <<>>, verified |-> {}, by |-> "none"]

Init ==
  /\ disc \in Discs /\ search \in Searches
  /\ phase = "first" /\ reads = <<>> /\ tries = 0 /\ result = NoResult

-----------------------------------------------------------------------------
(* What the drive gives for the batch: from the slip on it is ahead of, or *)
(* behind, what it was asked for; at a weak position it gives anything.    *)
SlippedRead(s, misread) ==
  [p \in Batch |-> IF p \in Weak THEN misread[p]
                   ELSE disc[IF p >= s.at THEN p + s.by ELSE p]]
DriveReads == {SlippedRead(s, misread) : s \in Slips, misread \in [Weak -> Values]}

-----------------------------------------------------------------------------
(* Searching one read in the other *)

InBatch(p, n)  == 1 <= p /\ p + n - 1 <= BatchWords
(* a[p ..] and b[q ..] agree for n samples                                 *)
Agree(a, p, b, q, n) ==
  InBatch(p, n) /\ InBatch(q, n) /\ \A i \in 0 .. (n - 1) : a[p + i] = b[q + i]

IsRegionSilent(a, p, n) == InBatch(p, n) /\ \A i \in 0 .. (n - 1) : a[p + i] \in Quiet

Least(S)      == CHOOSE x \in S : \A y \in S : x <= y
Lesser(m, n)  == IF m <= n THEN m ELSE n

(* find_batch_jitter_match: four places of the first read, the loud ones   *)
(* of which are searched in the second one, ever further ahead and back.   *)
(* One step back from the begin of the batch it panics.                    *)
CheckPositions ==
  <<1, 1 + BatchWords \div 4, 1 + BatchWords \div 2, 1 + (3 * BatchWords) \div 4>>
MatchLen == Lesser(FrameWords, BatchWords)

FoundAt(a, p, b) ==
  \/ \E o \in 0 .. Lesser(search, p)     : Agree(a, p, b, p + o, MatchLen)
  \/ \E o \in 0 .. Lesser(search, p - 1) : Agree(a, p, b, p - o, MatchLen)

LoudChecks(a) ==
  {i \in DOMAIN CheckPositions :
     InBatch(CheckPositions[i], MatchLen) /\ ~IsRegionSilent(a, CheckPositions[i], MatchLen)}
Decides(a, b) ==
  {i \in LoudChecks(a) : FoundAt(a, CheckPositions[i], b) \/ search >= CheckPositions[i]}
JitterMatch(a, b) ==
  IF Decides(a, b) = {} THEN "none"
  ELSE IF FoundAt(a, CheckPositions[Least(Decides(a, b))], b) THEN "match" ELSE "panic"

-----------------------------------------------------------------------------
(* Rift analysis *)

(* mutant: the last distance is never tried *)
ResyncShort(a, p, b, q) ==
  LET found == {i \in 0 .. (MaxSearch - 2) :
                  p + i <= BatchWords /\ Agree(a, p + i, b, q, MinWordsRift)}
  IN IF found = {} THEN 0 ELSE Least(found)
(* the samples to skip in a for it to go on like b, or 0                   *)
Resync(a, p, b, q) ==
  LET found == {i \in 0 .. (MaxSearch - 1) :
                  p + i <= BatchWords /\ Agree(a, p + i, b, q, MinWordsRift)}
  IN IF found = {} THEN 0 ELSE Least(found)

AnalyzeRift(a, b) ==
  LET p  == Least({q \in Batch : a[q] # b[q]})
      ra == Resync(a, p, b, p)
      rb == Resync(b, p, a, p)
  IN CASE IsRegionSilent(a, p, MinWordsOverlap) /\ IsRegionSilent(b, p, MinWordsOverlap)
                                -> [type |-> "NoRift"]
       [] OTHER ->
          CASE ra = 0 /\ rb = 0 -> [type |-> "Unknown"]
            [] ra > 0 /\ rb = 0 -> [type |-> "StutterInA", count |-> ra]
            [] ra = 0 /\ rb > 0 -> [type |-> "StutterInB", count |-> rb]
            [] ra > 0 /\ rb > 0 -> [type |-> "Garbage"]

(* handle_rift; its caller drops the repaired samples                      *)
Repaired(rift) == rift.type \in {"NoRift", "StutterInA", "StutterInB"}

-----------------------------------------------------------------------------
(* detect_jitter_offset_static: the samples from the middle of the batch   *)
Middle == 1 + BatchWords \div 2

(* nearest first, and ahead before back                                    *)
Nearer(o, n) == o * o < n * n \/ (o * o = n * n /\ o >= n)

(* mutant: searches ahead only *)
DetectJitterAhead(a, b) ==
  LET found == {o \in 0 .. search : Agree(a, Middle, b, Middle + o, MinWordsOverlap)}
  IN IF a = b \/ found = {} THEN 0 ELSE Least(found)
DetectJitter(a, b) ==
  LET found == {o \in (-search) .. search : Agree(a, Middle, b, Middle + o, MinWordsOverlap)}
  IN IF a = b \/ found = {} THEN 0
     ELSE CHOOSE o \in found : \A n \in found : Nearer(o, n)
DetectPanics(a, b) ==
  /\ a # b /\ InBatch(Middle, MinWordsOverlap) /\ search >= Middle
  /\ \A o \in (1 - Middle) .. Middle : ~Agree(a, Middle, b, Middle + o, MinWordsOverlap)

-----------------------------------------------------------------------------
(* The vote *)

(* ReadResult::get *)
Gives(r, p) == p - r.jitter \in Batch
Get(r, p)   == r.samples[p - r.jitter]

Voters(rs, p)     == {i \in DOMAIN rs : Gives(rs[i], p)}
VotesFor(rs, p, v) == Cardinality({i \in Voters(rs, p) : Get(rs[i], p) = v})

(* the most votes; among equals the HashMap's order decides                *)
Candidates(rs, p) == {Get(rs[i], p) : i \in Voters(rs, p)}
(* mutant: the fewest votes win *)
WinnersRare(rs, p) ==
  {v \in Candidates(rs, p) : \A w \in Candidates(rs, p) : VotesFor(rs, p, w) >= VotesFor(rs, p, v)}
Winners(rs, p) ==
  {v \in Candidates(rs, p) : \A w \in Candidates(rs, p) : VotesFor(rs, p, w) <= VotesFor(rs, p, v)}

(* the confidence reaches MIN_VOTE_RATIO                                   *)
VoteVerifies(rs, p, v) == 2 * VotesFor(rs, p, v) >= Cardinality(Voters(rs, p))

(* build_with_stats; a tie is kept as the set of the values it may go to   *)
Consensus(rs) ==
  [samples  |-> [p \in Batch |-> Winners(rs, p)],
   verified |-> {p \in Batch : \E v \in Winners(rs, p) : VoteVerifies(rs, p, v)},
   by |-> "vote"]
IsAcceptable(r) == 10 * Cardinality(r.verified) >= 9 * BatchWords

-----------------------------------------------------------------------------
Read(data, jitter) == [samples |-> data, jitter |-> jitter]
First == reads[1].samples

(* mark_edges leaves all but the first and the last half frame verified    *)
Inner == (FrameWords \div 2 + 1) .. (BatchWords - FrameWords \div 2)
Accept(rs) ==
  /\ phase' = "done" /\ reads' = rs
  /\ result' = [samples |-> [p \in Batch |-> {First[p]}], verified |-> Inner, by |-> "reads"]
  /\ UNCHANGED <<given, tries>>

StartOver ==
  /\ phase' = "first" /\ reads' = <<>> /\ tries' = 0
  /\ UNCHANGED <<given, result>>
Panic ==
  /\ phase' = "panicked"
  /\ UNCHANGED <<given, reads, tries, result>>

FirstRead(data) ==
  /\ phase = "first"
  /\ phase' = "second" /\ reads' = <<Read(data, 0)>>
  /\ UNCHANGED <<given, tries, result>>

SecondFails == phase = "second" /\ StartOver

SecondRead(data) ==
  /\ phase = "second"
  /\ LET rs == Append(reads, Read(data, 0)) IN
       \/ First = data /\ Accept(rs)
       \/ First # data /\ JitterMatch(First, data) = "match" /\ Accept(rs)
       \/ First # data /\ JitterMatch(First, data) = "panic" /\ Panic
       \/ /\ First # data /\ JitterMatch(First, data) = "none"
          /\ Repaired(AnalyzeRift(First, data))
          /\ Accept(rs)
       \/ /\ First # data /\ JitterMatch(First, data) = "none"
          /\ ~Repaired(AnalyzeRift(First, data))
          /\ phase' = "consensus" /\ reads' = rs
          /\ UNCHANGED <<given, tries, result>>

-----------------------------------------------------------------------------
(* the loop ends early on an acceptable consensus                          *)
Satisfied == Len(reads) >= MinReads /\ IsAcceptable(Consensus(reads))

ConsensusRead ==
  /\ phase = "consensus" /\ tries < MaxAdditional /\ ~Satisfied
  /\ \E data \in DriveReads :
       IF DetectPanics(First, data) THEN Panic
       ELSE /\ reads' = Append(reads, Read(data, DetectJitter(First, data)))
            /\ tries' = tries + 1
            /\ UNCHANGED <<given, phase, result>>

ConsensusReadFails ==
  /\ phase = "consensus" /\ tries < MaxAdditional /\ ~Satisfied
  /\ tries' = tries + 1
  /\ UNCHANGED <<given, phase, reads, result>>

Vote ==
  /\ phase = "consensus" /\ Len(reads) >= MinReads
  /\ tries = MaxAdditional \/ Satisfied
  /\ result' = Consensus(reads)
  /\ phase' = "done"
  /\ UNCHANGED <<given, reads, tries>>

Starved ==
  /\ phase = "consensus" /\ Len(reads) < MinReads /\ tries = MaxAdditional
  /\ StartOver

Next ==
  \/ \E data \in DriveReads : FirstRead(data) \/ SecondRead(data)
  \/ SecondFails \/ ConsensusRead \/ ConsensusReadFails \/ Vote \/ Starved

Spec == Init /\ [][Next]_vars
-----------------------------------------------------------------------------
(* Correctness *)

(* What the drive gives when it is ahead by d samples from k on.           *)
Ahead(k, d) == [p \in Batch |-> disc[IF p >= k THEN p + d ELSE p]]
Clean       == Ahead(1, 0)

(* Around the batch no n samples in a row come again up to reach samples   *)
(* further on.  Single samples may recur as they like.                     *)
Surroundings == (1 - BatchWords) .. (2 * BatchWords)
RunsDiffer(n, reach) ==
  \A p, q \in Surroundings :
    (p < q /\ q <= p + reach /\ q + n - 1 \in Surroundings) =>
      \E i \in 0 .. (n - 1) : disc[p + i] # disc[q + i]

(* Rift analysis, against a drive that within the batch drops samples      *)
(* (d > 0) or repeats samples (d < 0), as soon as what it gives parts from *)
(* the disc and with enough samples to follow for it to be seen.  Of the   *)
(* two reads, in either order, the one that has samples the other lacks is *)
(* told, and how many they are.                                            *)
(* (That read is said to stutter, also where it is the complete one and    *)
(* the other dropped samples: analyze_rift_forward returns neither         *)
(* DroppedFromA nor DroppedFromB, which gap.rs documents for that.)        *)
RiftsRecognised ==
  (phase = "first" /\ RunsDiffer(MinWordsRift, 2 * MaxSearch)) =>
    \A k \in 2 .. BatchWords, d \in (1 - MaxSearch) .. (MaxSearch - 1) :
      LET slipped == Ahead(k, d)
          surplus == IF d > 0 THEN d ELSE -d
      IN (/\ Clean[k] # slipped[k] /\ k + surplus + MinWordsRift - 1 <= BatchWords
          /\ ~(IsRegionSilent(Clean, k, MinWordsOverlap)
                 /\ IsRegionSilent(slipped, k, MinWordsOverlap))) =>
           /\ AnalyzeRift(Clean, slipped) =
                [type |-> IF d > 0 THEN "StutterInA" ELSE "StutterInB", count |-> surplus]
           /\ AnalyzeRift(slipped, Clean) =
                [type |-> IF d > 0 THEN "StutterInB" ELSE "StutterInA", count |-> surplus]

(* The jitter search, against a drive that is off by d from the first      *)
(* sample on: it finds d, to either side.                                  *)
ShiftsMeasured ==
  (phase = "first" /\ RunsDiffer(MinWordsOverlap, 2 * search)) =>
    \A d \in (-search) .. search :
      (InBatch(Middle, MinWordsOverlap) /\ InBatch(Middle - d, MinWordsOverlap)) =>
        DetectJitter(Clean, Ahead(1, d)) = -d

(* Whether a read holds what it was asked for, but for weak positions.     *)
InPlace(r) == \A p \in Batch \ Weak : r.samples[p] = disc[p]

(* No weak position is among the samples by which jitter is measured.      *)
MiddleIsReliable == Weak \cap (Middle .. (Middle + MinWordsOverlap - 1)) = {}

(* Where the drive reads reliably, the disc's samples come out, whichever  *)
(* way the batch was verified and however often they recur on the disc, as *)
(* long as the first read and most of the reads have not slipped.          *)
ReliableSamplesRight ==
  (/\ phase = "done" /\ MiddleIsReliable /\ InPlace(reads[1])
   /\ 2 * Cardinality({i \in DOMAIN reads : InPlace(reads[i])}) > Len(reads)) =>
     \A p \in Batch \ Weak : result.samples[p] = {disc[p]}
=============================================================================
