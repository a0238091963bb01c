------------------------------ MODULE ReadLoop ------------------------------
(***************************************************************************)
(* Paranoia (src/paranoia.rs): positioning, and the read of one frame with *)
(* everything it may do to the drive, the cache, the root block and the    *)
(* backoff strategy.  A step is one answer of the drive.                   *)
(*                                                                         *)
(* Positions are sectors: every block the loop builds begins and ends on   *)
(* one.  Verification flags are kept for half frames (SectorRoot); overlap *)
(* and search window are counted in half frames, rounded up.  Samples are  *)
(* abstracted: whether two reads agree is the environment's choice.  The   *)
(* fragment list decides nothing here and has a module of its own          *)
(* (Fragments).                                                            *)
(***************************************************************************)
EXTENDS Backoff, SectorRoot, Sequences, FiniteSets

CONSTANTS
  DiscFirst, DiscLast, (* the disc's audio sectors                          *)
  BatchSize,       (* sectors of a batch read, beside its overlap           *)
  MinOverlap,      (* least backward overlap of a batch, in sectors         *)
  MaxOverlap,      (* MAX_SECTOR_OVERLAP                                    *)
  MaxBackoffs,     (* backoffs at one sector before giving up               *)
  MinReads,        (* MIN_READS_FOR_CONSENSUS                               *)
  MaxAdditional,   (* further reads tried for a consensus                   *)
  MinCacheBlocks,  (* trim_cache never trims below this many blocks         *)
  DefaultModel,    (* CACHEMODEL_SECTORS                                    *)
  (* what the caller may pass *)
  RetryLimits, Moves, Bounds, Overlaps, CacheSizes, Modes

ASSUME ReadLoopAssumption ==
  /\ DiscFirst \in Int /\ DiscLast \in Int
  /\ BatchSize \in Nat \ {0} /\ MinOverlap \in Nat /\ MaxOverlap \in Nat \ {0}
  /\ MaxBackoffs \in Nat /\ MinReads \in Nat /\ MaxAdditional \in Nat
  /\ MinCacheBlocks \in Nat \ {0} /\ DefaultModel \in Nat
  /\ RetryLimits \subseteq Int /\ Moves \subseteq Int /\ Bounds \subseteq Int
  /\ Overlaps \subseteq Nat \ {0} /\ CacheSizes \subseteq Int
  /\ Modes \subseteq SUBSET {"VERIFY", "NEVERSKIP"}

VARIABLES
  first, last,     (* the reading range                                     *)
  cursor,          (* the next frame to deliver                             *)
  mode,            (* flags; "VERIFY" stands for every one but NEVERSKIP    *)
  enableSkip,      (* fill with silence instead of failing                  *)
  root,            (* RootBlock: extent and verified halves                 *)
  cache,           (* extents of the cached batches, oldest first           *)
  cacheModel,      (* cache_model_sectors                                   *)
  overlap, search, (* DynamicOverlap, in half frames                        *)
  backoff,         (* BackoffStrategy                                       *)
  pc,              (* what the read in progress does next                   *)
  call,            (* its locals                                            *)
  out,             (* what the last read answered                           *)
  (* history, since a frame last came out of the root, or the last seek     *)
  strays,          (* frames in a row that did not, up to TooMany           *)
  cut              (* set_range has left the root behind                    *)

position == <<first, last, cursor>>
settings == <<mode, enableSkip, cacheModel>>
jitter   == <<overlap, search>>
history  == <<strays, cut>>
vars == <<position, settings, root, cache, jitter, backoff, pc, call, out, history>>

TooMany == MinOverlap + 1

-----------------------------------------------------------------------------
(* The cache *)

Extent == [begin : Int, end : Int]

CacheLimit == Larger(cacheModel, MinCacheBlocks)
(* mutant: trims one block only *)
TrimCacheByOne(c) == IF Len(c) > CacheLimit THEN Tail(c) ELSE c
TrimCache(c) ==
  IF Len(c) > CacheLimit THEN SubSeq(c, Len(c) - CacheLimit + 1, Len(c)) ELSE c

(* some cached block overlaps the batch, so that stage 1 may recognise it *)
InCache(b, e) ==
  \E i \in 1 .. Len(cache) : b < cache[i].end /\ e > cache[i].begin

OverlapSectors == Larger((overlap + 1) \div 2, MinOverlap)
(* mutant: no backward overlap *)
BatchBeginAtCursor == Larger(cursor, first)
BatchBegin == Larger(cursor - OverlapSectors, first)
BatchEnd   == Smaller(BatchBegin + BatchSize + OverlapSectors, last + 1)

(* A backoff leads back: get_backoff_params gives the distance negative,   *)
(* to be added, determine_backoff_action positive, to be subtracted.       *)
(* mutant: the one is taken for the other                                  *)
BackoffTargetAhead == Larger(cursor + backoff.sectors, first)
BackoffTarget      == Larger(cursor - backoff.sectors, first)

-----------------------------------------------------------------------------
NoCall == [max |-> 0, retry |-> 0, begin |-> 0, end |-> 0, reads |-> 0, tries |-> 0]
NoOut  == [source |-> "none", sector |-> 0]

Init ==
  /\ first = DiscFirst /\ last = DiscLast /\ cursor = DiscFirst
  /\ mode = {"VERIFY", "NEVERSKIP"} /\ enableSkip = TRUE
  /\ root = EmptyRoot /\ cache = <<>> /\ cacheModel = DefaultModel
  /\ overlap = 1 /\ search = 1
  /\ backoff = Fresh
  /\ pc = "idle" /\ call = NoCall /\ out = NoOut
  /\ strays = 0 /\ cut = FALSE

-----------------------------------------------------------------------------
(* Settings and positioning, between reads *)

SetMode(m) ==
  /\ pc = "idle"
  /\ mode' = m
  /\ enableSkip' = ("NEVERSKIP" \notin m)
  /\ UNCHANGED <<position, cacheModel, root, cache, jitter, backoff, pc, call, out, history>>

SetOverlap(h) ==
  /\ pc = "idle"
  /\ overlap' = h
  /\ UNCHANGED <<position, settings, root, cache, search, backoff, pc, call, out, history>>

(* mutant: a negative argument, meant as a query, is stored *)
CacheModelSizeUnchecked(sectors) ==
  /\ pc = "idle"
  /\ cacheModel' = sectors
  /\ UNCHANGED <<position, mode, enableSkip, root, cache, jitter, backoff, pc, call, out, history>>

CacheModelSize(sectors) ==
  /\ pc = "idle"
  /\ cacheModel' = IF sectors >= 0 THEN sectors ELSE cacheModel
  /\ UNCHANGED <<position, mode, enableSkip, root, cache, jitter, backoff, pc, call, out, history>>

SetRange(start, end) ==
  /\ pc = "idle"
  /\ first' = Larger(start, DiscFirst)
  /\ last' = Smaller(end, DiscLast)
  /\ cursor' = IF cursor < first' \/ cursor > last' THEN first' ELSE cursor
  /\ cut' = (cut \/ (~IsEmpty(root) /\ (first' > root.end \/ cursor' < root.begin)))
  /\ UNCHANGED <<settings, root, cache, jitter, backoff, pc, call, out, strays>>

SeekBase(whence) ==
  CASE whence = "start" -> first [] whence = "current" -> cursor [] whence = "end" -> last

(* clamp panics when the range has its ends crossed *)
SeekPanics ==
  /\ pc = "idle" /\ first > last
  /\ pc' = "panicked"
  /\ UNCHANGED <<position, settings, root, cache, jitter, backoff, call, out, history>>

(* mutant: the root survives a seek *)
SeekKeepingRoot(delta, whence) ==
  /\ pc = "idle" /\ first <= last
  /\ cursor' = Smaller(Larger(SeekBase(whence) + delta, first), last)
  /\ cache' = <<>>
  /\ strays' = 0 /\ cut' = FALSE
  /\ UNCHANGED <<first, last, settings, root, jitter, backoff, pc, call, out>>

Seek(delta, whence) ==
  /\ pc = "idle" /\ first <= last
  /\ cursor' = Smaller(Larger(SeekBase(whence) + delta, first), last)
  /\ cache' = <<>> /\ root' = EmptyRoot
  /\ strays' = 0 /\ cut' = FALSE
  /\ UNCHANGED <<first, last, settings, jitter, backoff, pc, call, out>>

-----------------------------------------------------------------------------
(* The ways a read ends *)

Deliver(source) ==
  /\ pc' = "idle" /\ call' = NoCall
  /\ out' = [source |-> source, sector |-> cursor]
  /\ cursor' = cursor + 1
  /\ strays' = IF source = "root" THEN 0 ELSE Smaller(strays + 1, TooMany)
  /\ cut' = (cut /\ source # "root")

Refuse(why) ==
  /\ pc' = "idle" /\ call' = NoCall
  /\ out' = [source |-> why, sector |-> cursor]
  /\ UNCHANGED <<cursor, history>>

(* mutant: silence whether or not skipping is enabled *)
FailedSilently == Deliver("silence")

(* the internal read returned false: skip with silence, or SectorSkip *)
Failed == IF enableSkip THEN Deliver("silence") ELSE Refuse("error")

(* mutants: an attempt that is not counted; errors left for the fallback *)
TryAgainUncounted(b) ==
  /\ UNCHANGED <<cursor, out, history>>
  /\ IF call.retry + 1 < call.max
     THEN /\ pc' = "batch" /\ backoff' = b
          /\ call' = [call EXCEPT !.reads = 0, !.tries = 0]
     ELSE /\ pc' = "fallback" /\ backoff' = ResetErrorState(b)
          /\ call' = [call EXCEPT !.reads = 0, !.tries = 0]
TryAgainUnreset(b) ==
  /\ UNCHANGED <<cursor, out, history>>
  /\ backoff' = b
  /\ IF call.retry + 1 < call.max
     THEN /\ pc' = "batch"
          /\ call' = [call EXCEPT !.retry = @ + 1, !.reads = 0, !.tries = 0]
     ELSE /\ pc' = "fallback"
          /\ call' = [call EXCEPT !.reads = 0, !.tries = 0]

(* The next turn of the retry loop, or the fallback after the last one; b  *)
(* is the strategy this turn leaves behind.                                *)
TryAgain(b) ==
  /\ UNCHANGED <<cursor, out, history>>
  /\ IF call.retry + 1 < call.max
     THEN /\ pc' = "batch" /\ backoff' = b
          /\ call' = [call EXCEPT !.retry = @ + 1, !.reads = 0, !.tries = 0]
     ELSE /\ pc' = "fallback" /\ backoff' = ResetErrorState(b)
          /\ call' = [call EXCEPT !.reads = 0, !.tries = 0]

(* Cache the batch, merge it into the root and hand out the target frame.  *)
MergeAndReturn(verified, b) ==
  /\ cache' = TrimCache(Append(cache, [begin |-> call.begin, end |-> call.end]))
  /\ IF Separated(root, call.begin, call.end)
     THEN /\ pc' = "panicked" /\ backoff' = b
          /\ UNCHANGED <<cursor, root, call, out, history>>
     ELSE /\ root' = MergeFragment(root, call.begin, call.end, verified)
          /\ IF Covers(root', cursor)
             THEN Deliver("root") /\ backoff' = ResetErrorState(b)
             ELSE TryAgain(b)

(* A recalibration may follow from a recorded jitter *)
RecordJitter ==
  \/ UNCHANGED jitter
  \/ \E h \in 1 .. 2 * MaxOverlap : overlap' = h /\ search' = h

-----------------------------------------------------------------------------
(* read_limited, up to its first request to the drive *)

ReadBeyondEnd(n) ==
  /\ pc = "idle" /\ cursor > last
  /\ Refuse("unaddressable")
  /\ UNCHANGED <<first, last, settings, root, cache, jitter, backoff>>

ReadUnverified(n) ==
  /\ pc = "idle" /\ cursor <= last /\ mode = {}
  /\ pc' = "direct"
  /\ UNCHANGED <<position, settings, root, cache, jitter, backoff, call, out, history>>

ReadFromRoot(n) ==
  /\ pc = "idle" /\ cursor <= last /\ mode # {}
  /\ ~IsEmpty(root) /\ Covers(root, cursor)
  /\ Deliver("root")
  /\ UNCHANGED <<first, last, settings, root, cache, jitter, backoff>>

(* mutant: without the fast path's return *)
StartBatchAnyway(n) ==
  /\ pc = "idle" /\ cursor <= last /\ mode # {}
  /\ call' = [NoCall EXCEPT !.max = n, !.begin = BatchBegin, !.end = BatchEnd]
  /\ IF n > 0 THEN pc' = "batch" /\ UNCHANGED backoff
              ELSE pc' = "fallback" /\ backoff' = ResetErrorState(backoff)
  /\ UNCHANGED <<position, settings, root, cache, jitter, out, history>>

StartBatch(n) ==
  /\ pc = "idle" /\ cursor <= last /\ mode # {}
  /\ IsEmpty(root) \/ ~Covers(root, cursor)
  /\ call' = [NoCall EXCEPT !.max = n, !.begin = BatchBegin, !.end = BatchEnd]
  /\ IF n > 0 THEN pc' = "batch" /\ UNCHANGED backoff
              ELSE pc' = "fallback" /\ backoff' = ResetErrorState(backoff)
  /\ UNCHANGED <<position, settings, root, cache, jitter, out, history>>

-----------------------------------------------------------------------------
(* read_direct_internal *)

DirectRead ==
  /\ pc = "direct"
  /\ Deliver("direct") \/ Failed
  /\ UNCHANGED <<first, last, settings, root, cache, jitter, backoff>>

-----------------------------------------------------------------------------
(* read_verified_internal: the batch *)

(* a stage-1 match, by the sort index or by find_overlap *)
BatchRecognised ==
  /\ pc = "batch" /\ InCache(call.begin, call.end)
  /\ RecordJitter
  /\ MergeAndReturn(InnerHalves(call.begin, call.end), RecordSuccess(backoff, cursor))
  /\ UNCHANGED <<first, last, settings>>

BatchUnknown ==
  /\ pc = "batch"
  /\ backoff' = RecordSuccess(backoff, cursor)
  /\ pc' = "second"
  /\ UNCHANGED <<position, settings, root, cache, jitter, call, out, history>>

(* a read error: Continue, Backoff or GiveUp (determine_backoff_action) *)
BatchFails ==
  /\ pc = "batch"
  /\ LET b == RecordError(backoff, cursor) IN
       \/ /\ ~NeedsBackoff(backoff, cursor)
          /\ TryAgain(b)
       \/ /\ NeedsBackoff(backoff, cursor) /\ ~ShouldGiveUp(b, MaxBackoffs)
          /\ pc' = "seekback" /\ backoff' = b
          /\ UNCHANGED <<cursor, call, out, history>>
       \/ /\ NeedsBackoff(backoff, cursor) /\ ShouldGiveUp(b, MaxBackoffs)
          /\ backoff' = ResetErrorState(b)
          /\ Failed
  /\ UNCHANGED <<first, last, settings, root, cache, jitter>>

(* a read elsewhere, whatever it answers, then the pause *)
SeekAway ==
  /\ pc = "seekback"
  /\ TryAgain(RecordBackoff(backoff))
  /\ UNCHANGED <<first, last, settings, root, cache, jitter>>

-----------------------------------------------------------------------------
(* The second read of the same batch, compared with the first *)

SecondFails ==
  /\ pc = "second"
  /\ LET b == RecordError(backoff, cursor) IN
       IF NeedsBackoff(backoff, cursor) /\ ~ShouldGiveUp(b, MaxBackoffs)
       THEN pc' = "seekback" /\ backoff' = b /\ UNCHANGED <<cursor, call, out, history>>
       ELSE TryAgain(b)
  /\ UNCHANGED <<first, last, settings, root, cache, jitter>>

(* the reads are equal, or equal after a shift or a repaired rift *)
SecondMatches ==
  /\ pc = "second"
  /\ RecordJitter
  /\ MergeAndReturn(InnerHalves(call.begin, call.end), backoff)
  /\ UNCHANGED <<first, last, settings>>

(* mutant: reads until two agree, without counting the attempts *)
SecondDiffersAgain ==
  /\ pc = "second"
  /\ pc' = "batch"
  /\ UNCHANGED <<position, settings, root, cache, jitter, backoff, call, out, history>>

SecondDiffers ==
  /\ pc = "second"
  /\ pc' = "consensus" /\ call' = [call EXCEPT !.reads = 2, !.tries = 0]
  /\ UNCHANGED <<position, settings, root, cache, jitter, backoff, out, history>>

(* find_batch_jitter_match indexes before the first sample of the batch *)
JitterSearchPanics ==
  /\ pc = "second"
  /\ pc' = "panicked"
  /\ UNCHANGED <<position, settings, root, cache, jitter, backoff, call, out, history>>

-----------------------------------------------------------------------------
(* Consensus voting *)

(* the loop stops early once enough reads agree well enough *)
AnotherRead == pc = "consensus" /\ call.tries < MaxAdditional

ConsensusRead ==
  /\ AnotherRead
  /\ call' = [call EXCEPT !.tries = @ + 1, !.reads = @ + 1]
  /\ UNCHANGED <<position, settings, root, cache, jitter, backoff, pc, out, history>>

ConsensusReadFails ==
  /\ AnotherRead
  /\ call' = [call EXCEPT !.tries = @ + 1]
  /\ backoff' = RecordError(backoff, cursor)
  /\ UNCHANGED <<position, settings, root, cache, jitter, pc, out, history>>

(* detect_jitter_offset_static searches back from the middle of the batch  *)
(* and indexes before its first sample                                     *)
OffsetSearchPanics ==
  /\ AnotherRead /\ search > call.end - call.begin
  /\ pc' = "panicked"
  /\ UNCHANGED <<position, settings, root, cache, jitter, backoff, call, out, history>>

(* build_with_stats votes: any of the samples may come out verified *)
ConsensusVote ==
  /\ pc = "consensus" /\ call.reads >= MinReads
  /\ \E verified \in SUBSET Halves(call.begin, call.end) :
       MergeAndReturn(verified, backoff)
  /\ UNCHANGED <<first, last, settings, jitter>>

ConsensusStarved ==
  /\ pc = "consensus" /\ call.tries = MaxAdditional /\ call.reads < MinReads
  /\ TryAgain(backoff)
  /\ UNCHANGED <<first, last, settings, root, cache, jitter>>

-----------------------------------------------------------------------------
(* retries exhausted: the frame as a single unverified read gives it *)
LastRead ==
  /\ pc = "fallback"
  /\ Deliver("lastread") \/ Failed
  /\ UNCHANGED <<first, last, settings, root, cache, jitter, backoff>>

-----------------------------------------------------------------------------
ReadLimited(n) ==
  ReadBeyondEnd(n) \/ ReadUnverified(n) \/ ReadFromRoot(n) \/ StartBatch(n)

Caller ==
  \/ \E m \in Modes : SetMode(m)
  \/ \E h \in Overlaps : SetOverlap(h)
  \/ \E n \in CacheSizes : CacheModelSize(n)
  \/ \E start, end \in Bounds : SetRange(start, end)
  \/ \E delta \in Moves, whence \in {"start", "current", "end"} :
       SeekPanics \/ Seek(delta, whence)
  \/ \E n \in RetryLimits : ReadLimited(n)

(* the read in progress *)
Reader ==
  \/ DirectRead \/ LastRead
  \/ BatchRecognised \/ BatchUnknown \/ BatchFails \/ SeekAway
  \/ SecondFails \/ SecondMatches \/ SecondDiffers \/ JitterSearchPanics
  \/ ConsensusRead \/ ConsensusReadFails \/ OffsetSearchPanics
  \/ ConsensusVote \/ ConsensusStarved

Next == Caller \/ Reader

Spec == Init /\ [][Next]_vars

(* a read runs to its end in the caller's thread; the caller need not call *)
FairSpec == Spec /\ WF_vars(Reader)

-----------------------------------------------------------------------------
(* Correctness *)

Verifying == {"batch", "seekback", "second", "consensus", "fallback"}
PCs       == Verifying \cup {"idle", "direct", "panicked"}
Sources   == {"none", "root", "direct", "lastread", "silence", "error", "unaddressable"}

Roots     == [begin : Int, end : Int, verified : SUBSET Int]
Calls     == [max : Int, retry : Nat, begin : Int, end : Int, reads : Nat, tries : Nat]
Outs      == [source : Sources, sector : Int]

(* Every variable holds a value of its Rust type, as the model sees it.    *)
TypeOK ==
  /\ first \in Int /\ last \in Int /\ cursor \in Int
  /\ mode \in SUBSET {"VERIFY", "NEVERSKIP"} /\ enableSkip \in BOOLEAN
  /\ root \in Roots
  /\ cache \in Seq(Extent) /\ cacheModel \in Nat
  /\ overlap \in Nat \ {0} /\ search \in Nat \ {0}
  /\ backoff \in Strategy
  /\ pc \in PCs
  /\ call \in Calls
  /\ out \in Outs
  /\ strays \in 0 .. TooMany /\ cut \in BOOLEAN

(* The sectors the next request to the drive asks for.                     *)
Request ==
  CASE pc = "seekback" -> [begin |-> BackoffTarget, end |-> BackoffTarget + 1]
    [] pc \in {"batch", "second", "consensus"} -> [begin |-> call.begin, end |-> call.end]
    [] OTHER -> [begin |-> cursor, end |-> cursor + 1]

(* Whatever overlap, range and position the caller has set, every request  *)
(* is a non-empty piece of the reading range, a backoff's seek from either *)
(* of its two places included, and a batch holds the frame it was asked    *)
(* for.                                                                    *)
RequestsInRange ==
  pc \in Verifying \cup {"direct"} =>
    /\ first <= Request.begin /\ Request.begin < Request.end /\ Request.end <= last + 1
    /\ pc # "direct" => call.begin <= cursor /\ cursor < call.end

(* No way out of a read leaves errors behind for the next one: between     *)
(* calls the strategy is fresh, and during one the errors are the target's.*)
BackoffBelongsToRead ==
  /\ pc \in {"idle", "direct", "fallback"} => backoff = Fresh
  /\ backoff # Fresh => backoff.lastError = cursor
  /\ pc = "seekback" => backoff.lastError = cursor

PowerOfTwo[n \in Nat] == IF n = 0 THEN 1 ELSE 2 * PowerOfTwo[n - 1]

(* The ladder of backoffs: each one doubles distance and pause up to their *)
(* limits, and the loop climbs at most MaxBackoffs of them at one sector.  *)
BackoffLadder ==
  /\ backoff.backoffCount <= MaxBackoffs
  /\ pc = "seekback" => backoff.backoffCount < MaxBackoffs
  /\ backoff.sectors = AtMost(BaseSectors * PowerOfTwo[backoff.backoffCount], MaxSectors)
  /\ backoff.delay = AtMost(BaseDelay * PowerOfTwo[backoff.backoffCount], MaxDelay)

(* The merge that panics on a gap between batch and root needs more than   *)
(* MinOverlap frames in a row that bypassed the root (skipped, read        *)
(* unverified), or a set_range that left the root behind: that put the     *)
(* cursor before its begin, or the range's first sector past its end.      *)
(* (For the latter one frame is enough that bypassed it: the cursor need   *)
(* not move.)  An undisturbed rip, and one that loses a frame or two,      *)
(* never meets it.                                                         *)
GapNeedsStrays ==
  pc \in Verifying /\ Separated(root, call.begin, call.end) => cut \/ strays = TooMany

(* last_frame_verified: only a frame that came out of the root is called   *)
(* verified, never silence and never what a single read gave.  It is so    *)
(* while the caller stays in the verifying modes.                          *)
VerifiedMeansFromRoot ==
  (pc = "idle" /\ out.source \in {"silence", "lastread", "direct"} /\ out.sector = cursor - 1)
    => ~FrameVerified(root, cursor - 1)

(* What the invariants above rest on: where the cursor, the batch and the  *)
(* root stand to each other.                                               *)
CursorInRange ==
  /\ DiscFirst <= first /\ last <= DiscLast /\ first <= cursor
  /\ cursor <= last + 1 \/ cursor = first
  /\ pc \in Verifying \cup {"direct"} => cursor <= last

CallFits ==
  pc \in Verifying =>
    /\ first <= call.begin /\ call.begin <= cursor
    /\ cursor < call.end /\ call.end <= last + 1
    /\ call.begin = first \/ call.begin <= cursor - MinOverlap
    /\ pc # "fallback" => call.retry < call.max
    /\ pc = "consensus" => call.tries <= MaxAdditional

RootMeetsCursor ==
  /\ root.begin <= root.end
  /\ (strays < TooMany /\ ~cut /\ ~IsEmpty(root)) =>
       first <= root.end /\ root.begin <= cursor /\ cursor <= root.end + strays

ReadInv == CursorInRange /\ CallFits /\ RootMeetsCursor /\ BackoffBelongsToRead

(* How far a verified read is within its attempt: batch, second read, the  *)
(* reads for a consensus, then the step that ends the attempt.             *)
StepsLeft ==
  CASE pc = "batch" -> MaxAdditional + 3
    [] pc = "second" -> MaxAdditional + 2
    [] pc = "consensus" -> (MaxAdditional - call.tries) + 1
    [] pc = "seekback" -> 1
    [] OTHER -> 0

(* Every answer of the drive moves the read on: within its attempt, or to  *)
(* a later attempt below the caller's limit, or to the last read, or out.  *)
(* So no pattern of errors and disagreements keeps a read going for ever.  *)
ReadAdvances ==
  pc \in Verifying =>
    \/ pc' \in {"idle", "panicked"}
    \/ pc # "fallback" /\ pc' = "fallback"
    \/ pc' \in Verifying /\ call'.max = call.max
       /\ \/ call'.retry = call.retry + 1 /\ call'.retry < call'.max
          \/ call'.retry = call.retry /\ StepsLeft' < StepsLeft
ReadsAdvance == [][ReadAdvances]_vars

(* A batch pushed to the cache evicts the oldest ones: the cache exceeds   *)
(* its limit only where cache_model_size has just lowered it.              *)
CacheStaysBounded == [][Len(cache') > CacheLimit' => cache' = cache]_vars

(* What the caller sees of the reader: one answer a call, from the frame at *)
(* the cursor, which moves by one frame for what is delivered and not at   *)
(* all for an error; silence only where skipping is enabled.               *)
Answer ==
  [kind |-> CASE out.source \in {"root", "direct", "lastread"} -> "frame"
              [] out.source \in {"error", "unaddressable"} -> "error"
              [] OTHER -> out.source,
   sector |-> out.sector]
Phase == CASE pc = "idle" -> "ready" [] pc = "panicked" -> "panicked" [] OTHER -> "reading"
Promised == INSTANCE FrameReader WITH
  Lowest <- DiscFirst, Highest <- DiscLast, maySkip <- enableSkip, answer <- Answer,
  phase <- Phase
ReadsInOrder == Promised!Spec

(* What the reader keeps of the disc is one gapless stretch, grown by      *)
(* batches around the cursor.  The two searches that panic know nothing of *)
(* it; a read that ends in a panic while the batch stands apart from the   *)
(* root counts as the merge's.                                             *)
MergePanicked ==
  pc = "panicked" /\ call.begin < call.end /\ Separated(root, call.begin, call.end)
Keeper == INSTANCE RootKeeper WITH
  Lowest <- DiscFirst, Highest <- DiscLast, panicked <- MergePanicked
RootGrowsAroundCursor == Keeper!Spec

(* Every read the caller starts returns, or panics.                        *)
EveryReadEnds == Promised!ReadsEnd
=============================================================================
