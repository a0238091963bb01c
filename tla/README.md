# A verification project for libcdio-paranoia-rs

libcdio-paranoia-rs reads audio from a CD drive that may misread, shift or
refuse what it is asked for. It asks for every batch of sectors at least twice,
or recognises it in what it has read before, and hands the caller one frame at a
time. This directory holds TLA+ modules translated from the Rust source, the
configurations TLC checks them with, and proofs TLAPS checks.

Paths such as `src/paranoia.rs` are those of the repository (`src/src/paranoia.rs`
in `PROJECT.json`). The map from each definition to its lines is there, too.

## 1. Inventory

| Component | Source | State | Operations |
|---|---|---|---|
| Read loop (`Paranoia`) | `src/paranoia.rs` | range, cursor, mode, `enable_skip`, root, cache, fragments, overlap, backoff | `set_mode`, `seek`, `set_range`, `set_overlap`, `cache_model_size`, `read`, `read_limited`, `last_frame_verified` |
| Backoff strategy | `src/backoff.rs` | errors and backoffs at one sector, distance, pause | `record_error`, `record_success`, `record_backoff`, `reset_error_state`, `should_give_up`, `determine_backoff_action` |
| Blocks | `src/block.rs` | first position, samples, flags | `VFragment::{from_samples_verified, mark_edges, try_merge}`, `RootBlock::{merge_fragment, extract_frame, is_frame_verified, clear}`; `CBlock` |
| Consensus voting | `src/consensus.rs` | reads of one batch with their jitter | `add_read`, `vote_sample`, `build_consensus`, `is_acceptable` |
| Dynamic overlap | `src/overlap.rs` | overlap, search, drift, two rings of ten offsets | `record_jitter`, `recalibrate`, `find_overlap` |
| Sort index | `src/isort.rs` | positions of each sample value in a block | `from_vector`, `iter_matches`, `find_match` |
| Rift analysis | `src/gap.rs` | none (pure) | `analyze_rift_f/r`, `find_gap`, repairs |
| Drive | `src/cdda.rs` | libcdio's handle, copied table of contents, audio range, open flag | `identify_device`, `open_drive`, `close`, `read_toc`, `read_audio`, `find_a_cdrom`, track queries |
| C interface | `src/ffi.rs`, `include/` | handles: `cdrom_drive_t`, `cdrom_paranoia_t`, the last C buffer | `cdio_cddap_*`, `cdio_paranoia_*` |
| Types and errors | `src/types.rs`, `error.rs`, `constants.rs`, `lib.rs` | none | flags, enumerations, text |
| Example programs | `examples/cdtest.rs`, `examples/rip_track.c` | the copy in progress | open, test read, seek to a track, copy it |
| Unused stages | `src/paranoia.rs` | - | `stage1_read`, `stage2_verify`, `merge_verified`, `verify_against_cache`: nothing calls them |

### How they interact

Everything runs in the caller's thread. `Paranoia` holds a raw pointer to the
drive and asks it for sectors; every answer is a list of samples or an error,
and its time, its content and its order of success and failure are the drive's.
A batch that survives verification goes to the cache (with a sort index), to the
fragment list and to the root, and the frame at the cursor is copied out of the
root. The dynamic overlap is fed by every jitter met and decides where the next
batch begins and how far the next search goes. The backoff strategy is fed by
every error and success and decides when the loop seeks elsewhere, sleeps or
gives up. Callbacks only report.

### What is hard

There is no concurrency and nothing is persisted. What is hard is the
environment and the nesting: retries around backoffs around second reads around
consensus reads, each with a failure path of its own; state that outlives the
read that filled it (root, cache, fragments, errors, overlap); calls between
reads that move the cursor without moving the rest (`set_range`, a mode without
verification, skipped frames); and differences of absolute positions cast to
`usize`. `PROJECT.json` lists each hazard at its line with the properties that
look for it.

### What makes each component correct

* Read loop: one answer a call, frames in order, no silence where skipping is
  off, requests inside the range, every read ends, a frame is called verified
  only if it came verified, the cache stays bounded.
* Backoff: distance and pause grow within limits, nothing of one sector's
  errors reaches the next, at most `MAX_BACKOFFS` backoffs at one sector.
* Blocks and fragments: merging loses no sample, lends no flag to another
  read's sample, keeps what is verified, leaves the list sorted and apart.
* Consensus: what is called verified was read that way by a majority, whatever
  order the reads came in; a shifted read is voted on where it belongs.
* Dynamic overlap: stays within its limits, covers the last ten offsets in
  either direction.
* Sort index, rift analysis: agree with their definition by exhaustive search;
  what is found is the drive's shift and not an accident; every search ends.
* Drive: the copied table is that of the disc that is open, whatever failed
  before; the answers about tracks agree although they come from two places.
* C interface: range, cursor and frames belong to the disc in the drive, for
  every order of calls that keeps to the protocol of handles.
* Example programs: the file holds exactly the track, and the copy ends.

## 2. The modules

```
FrameReader      what the caller is promised              (abstract)
   ^ refined by ReadLoop
RootKeeper       what is kept of the disc around the cursor (abstract)
   ^ refined by ReadLoop and by Fragments
ReadLoop         one read, step by step; extends Backoff and SectorRoot
ReadLoopClaims   what comments and documents say of it and the code does not do
Backoff          the strategy's operators
SectorRoot       the root by sectors and half frames: its operators
Blocks           samples and flags; the merges' index arithmetic
Fragments        fragment list and root under the reads that fill them; extends Blocks
Verification     one batch: second read, jitter search, rift analysis, voting
VerificationClaims   what the repository says of that and the code does not do
DynOverlap       the rings of offsets and the overlap they lead to
SortIndex        a batch indexed by value, and the comparisons that use the index
Stage1           a batch looked for in the cached ones; extends both
Drive            table of contents and queries about tracks
CApi             one drive, one reader, a program that calls; extends Drive
Rippers          the two programs that copy a track; extends CApi
MCReadLoop, MCVerification, MCStage1, MCRippers   what TLC lets the caller pass and the drive give
Induction        induction, recursion and remainders as lemmas a first-order prover can use
ReadLoopProofs, FragmentsProofs, VerificationProofs, DynOverlapProofs, SortIndexProofs,
Stage1Proofs, RippersProofs   theorems about the modules they are named for, and those they extend
```

**Backoff.** Every method of `BackoffStrategy` as an operator from the record
before the call to the record after it. `RecordError` and `NeedsBackoff` are the
two halves of `record_error` (what it leaves and what it answers). The totals
and the time of the last backoff feed no decision and are left out.

**ReadLoop.** The state of `Paranoia` plus the program counter and the locals of
the read in progress. A step is one answer of the drive, since nothing but the
drive comes between two lines of one call:

| `pc` | the code is about to | actions |
|---|---|---|
| `idle` | return to the caller, or be called | `SetMode`, `SetOverlap`, `CacheModelSize`, `SetRange`, `Seek`, `SeekPanics`, `ReadLimited` |
| `direct` | read one sector without verification | `DirectRead` |
| `batch` | read the batch | `BatchRecognised`, `BatchUnknown`, `BatchFails` |
| `seekback` | read a sector elsewhere and sleep | `SeekAway` |
| `second` | read the batch again | `SecondFails`, `SecondMatches`, `SecondDiffers`, `JitterSearchPanics` |
| `consensus` | read it once more, or vote | `ConsensusRead`, `ConsensusReadFails`, `OffsetSearchPanics`, `ConsensusVote`, `ConsensusStarved` |
| `fallback` | read the frame singly after the last retry | `LastRead` |
| `panicked` | - | none |

`TryAgain` is the `continue` of the retry loop, `MergeAndReturn` the tail that
caches, merges and extracts, `Deliver` and `Failed` the two ends of
`read_limited`. Positions are sectors, because every block the loop builds
begins and ends on one; verification flags are kept for half frames, the
granularity of `mark_edges`; overlap and search window are counted in half
frames, rounded up. Whether two reads agree is a free choice at each step, so
the sort index, `find_overlap`, the jitter search and the rift analysis appear by
their outcome. What they do to the overlap (`RecordJitter`) is any recalibration
within its limits. A backoff seeks back from either of its two places: the
distance of `get_backoff_params` is negative. Two variables are history: `strays`,
the frames in a row that did not come out of the root, and `cut`, set when a
`set_range` leaves the root behind.

Two searches may index before their first sample and panic
(`JitterSearchPanics`, `OffsetSearchPanics`), as may `clamp` with crossed ends
(`SeekPanics`) and the merge across a gap (in `MergeAndReturn`). They are
modelled as the state `panicked`, in which the system really stops; this is why
the configurations have `CHECK_DEADLOCK FALSE`.

**FrameReader.** The reader as its documentation describes it: a cursor in the
range or one past it, one answer a call, a frame or silence moves the cursor by
one, an error leaves it. `ReadLoop` is shown to implement it (`ReadsInOrder`)
with `INSTANCE FrameReader WITH ... phase <- Phase, answer <- Answer`, the mapping
that forgets drive, cache, root and retries. The abstract reader has a `Panic`
step its documentation does not mention.

**SectorRoot, RootKeeper.** `SectorRoot` is the root as the read loop reckons with it:
the sectors it has, and of which half frames every sample is verified. `RootKeeper`
says what may happen to it: a batch that holds the frame at the cursor, which the
root does not have yet, and touches the root is merged and the cursor moves on;
only a seek empties it; a frame that stands apart may end in a panic. `ReadLoop`
implements this with batches it knows by their extent (`RootGrowsAroundCursor`), and
`Fragments` with batches it has sample by sample (`RootKeptInSectors`, where
`InSectors` maps a block to the sectors it has). So what `ReadLoop` takes a merge to
do to extents and flags is what `merge_fragment` and `mark_edges` do to samples.

**Blocks, Fragments.** The same batches sample by sample. `Blocks` has the index
arithmetic of `VFragment::try_merge` and `RootBlock::merge_fragment` and, as
`MergedPointwise`, what the latter promises position by position. In `Fragments`
the drive gives batches with up to `MaxMisread` wrong samples, at the positions
of `Weak`. The overlap of a batch is any of `Overlaps` and changes from batch to
batch, as `DynOverlap` may change it, and a vote may leave any of a batch's samples
unverified. `Accept` is the whole tail of a successful read (fragment list with consolidation and retention,
then root, then cursor), and seeks, rewinds by `set_range` and bypassed frames
come between. `vouched`, `seen` and `seenTwice` are history: the pairs of
position and value that came verified, at all, and twice since the last seek.
The module does not model where ReadLoop's verification comes from: a batch is
accepted as verified or as voted on, whatever it holds, so what it shows of the
merges does not depend on verification being right.

**Verification.** The part of a read that `ReadLoop` leaves to chance, computed:
`pc = "second"` and `pc = "consensus"` sample by sample, for a batch that stage 1
has not recognised. The drive gives what the disc holds, ahead or behind from
some sample on (`Slips`), and anything at the positions of `Weak`.

| ReadLoop's choice | here |
|---|---|
| `SecondMatches` | `SecondRead` with equal reads, a `JitterMatch` of "match", or a `Repaired` rift |
| `JitterSearchPanics` | `SecondRead` with a `JitterMatch` of "panic" |
| `SecondDiffers` | `SecondRead` otherwise |
| `ConsensusRead`, `OffsetSearchPanics` | `ConsensusRead`, with or without `DetectPanics` |
| `ConsensusVote` with some `verified` | `Vote`, with the samples `VoteVerifies` accepts |

The nested loops over positions, offsets and signs are sets with the order made
explicit where it decides: `Decides` picks the first check position at which the
search ends, `FoundAt` bounds it by the step that would panic, `Nearer` is the
order of the offsets. The map of votes is a `HashMap`, so a tie goes to
either value: `result.samples` keeps the set of values a position may get.

**DynOverlap, SortIndex, Stage1.** The other part that `ReadLoop` leaves to
chance: whether a batch is recognised in the cache (`verify_with_isort`, then
`find_overlap_with_cache`), at which offset, and what that does to the overlap.
`SortIndex` is one batch with its buckets: `heads` and `links` are the two
vectors of `SortInfo`, and `Insert` is the body of the loop in `build_index`.
A step of `Stage1` is one sample inserted, one candidate compared, or the move to
the next position or block, so that an index which leads in a circle is a search
that does not end. The comparison at a candidate (`MatchesFrom` for `find_match`,
`MatchesSomewhere` for `verify_overlap`, a fold over the batch that keeps its
counter as the code does) is one step.

| ReadLoop's choice | here |
|---|---|
| `BatchRecognised` | `Recognise`, then `Accept` |
| `BatchUnknown` | `SearchExhausted` after both passes |
| `RecordJitter`, any overlap within its limits | `Record`, by `DynOverlap`; `OverlapCovers` says it stays in them |
| `ConsensusVote` | `AcceptVote`; the voted batch is taken to be one a drive could give |
| give-ups and failures | `Reject` |

What the drive gives is the disc, ahead by one of `Shifts`, with a click at some
positions (`Misread`). A batch remembers its shift (`shift`, history), so that
`JitterIsTheDrives` can compare the offset found with the one there was. The root
and the frames are left out: `Fragments` has them. `DynOverlap` has the standard
deviation as a square root rounded down after doubling, which is the code's
`(std_dev * 2.0) as i64`.

**Drive, CApi, Rippers.** `Drive` is the handle: `ReadToc` returns what the
handle is after `read_toc`, also when that fails at some track, and the queries
are operators of the handle and of the disc libcdio is asked about again. Discs
are records of what libcdio answers. `CApi` has one action per call: `Identify`,
`FindACdrom`, `Open`, `Close`, `CddapClose`, `ParanoiaInit`, `ParanoiaFree`,
`ModeSet`, `SetRange`, `Seek`, `Read`, and `ExchangeDisc`, by which somebody puts
another disc into a drive that is not open. A read is one step, with the outcomes
`ReadLoop` allows; each sector remembers the disc it was read from. `moved` and
`swapped` are history: the drive was opened after the reader took its range, the
disc was exchanged since the last seek. The program keeps to the protocol the
comments of `ffi.rs` state (the reader is freed before the drive, no handle is
used after it was freed). Sector numbers have the width `IntLimit`: `Wrap` is
what a release build computes, `SeekPanics` what a debug build does.

In `Rippers` the program, once it has chosen, is `cdtest` or `rip_track`: `Begin`
opens drive and reader, `TestRead` is cdtest's unverified first read, `StartCopy`
the queries, the seek and the mode, `Copy` one pass of the loop. cdtest goes on
until the cursor has passed the track, rip_track for as many frames as the track
has or until a read fails (`More`). `CopyPanics` is the seek on a disc whose range
is empty because the end of its only audio track is unknown.

## 3. The runs

| Run | Instance | Checks |
|---|---|---|
| `navigation` | 5 sectors, ranges from 1 and 2, all modes, a backoff at the first error, 0 or 2 retries, cache limits 0, 1 and 2, one further consensus read where a vote would need two | `ReadInv`, `RequestsInRange`, `GapNeedsStrays`, `CacheStaysBounded`, and the refinements `ReadsInOrder` and `RootGrowsAroundCursor` |
| `backoff` | the source's numbers (3 errors, 3 backoffs, 16 to 128 sectors, 50 to 500 ms, 20 retries, 5 further reads), a disc of 2 sectors that does not begin at 0, modes that verify, under `FairSpec` | `TypeOK`, `BackoffBelongsToRead`, `BackoffLadder`, `VerifiedMeansFromRoot`, `ReadsAdvance`, `EveryReadEnds` |
| `fragments` | 3 frames of 2 samples, 2 values, batches of a frame and an overlap of 0 or 1, one sample misread at one of three positions, votes that leave any samples unverified | `TypeOK`, `FragmentsApart`, `FragmentsBacked`, `RootBacked`, `VerifiedRootStays`, `RootMergesPointwise`, and the refinement `RootKeptInSectors` |
| `verification` | batches of 8 samples in frames of 2, three discs (a silent lead, a loud tail, a single loud frame), 2 weak positions, 4 slips, search ranges below and above half a batch, up to 4 reads | `RiftsRecognised`, `ShiftsMeasured`, `ReliableSamplesRight` |
| `stage1` | 4 sectors of 3 samples, batches of a sector and its overlap, a cache of 2, rings of 2 recalibrated every 2 offsets, runs of 3, a disc that begins in silence and ends on a sample it had before, shifts 0 and 1, a click at one position or none, under `FairSpec` | `TypeOK`, `IndexDescribesBlock`, `FoundIsRun`, `MissedMeansNone`, `JitterIsTheDrives`, `RingsHoldLatest`, `OverlapCovers`, `SearchesAdvance`, `SearchEnds` |
| `rippers` | two devices and nine kinds of disc of up to 4 sectors (music, a data track first, data only, an unreadable entry, tracks that count from 2, two without a known end, blank, without a first track), any order of calls, under `FairSpec` | `TypeOK`, `TocOfDisc`, `TracksAgree`, `RangeOnDisc`, `FramesOfDisc`, `FileHoldsTrack`, `NeverRefused`, `FindsFirst`, `CopiesEnd` |
| `claim_*` | the same discs and batches, or a small disc and no calls but reads | one property each, violated by the code (section 5) |

Why the bounds are enough. In `navigation` a disc of five sectors with an overlap
of one leaves room for a root, a gap wider than the overlap and a batch beyond
it, at either end of the range; two range ends give empty, crossed and proper
ranges; a backoff at the first error, with another retry to come, seeks in every
position the moves and ranges lead to; the cache limit begins at one, and the caller
raises it to two, lowers it again and sets it to 0, which counts as one, so
that more than one block is trimmed at once; votes, which choose among all
sets of halves, are left to `backoff`. `backoff` has the source's own limits, since
the ladder depends on them, and its two sectors are enough for errors at one sector
to meet a read of the next. In `fragments` half a frame is one sample, the smallest
size at which `mark_edges` leaves an inner sample and the edges of two batches
overlap; a second value is all that a misread needs; three positions let it fall at
an edge, inside and in the next frame. The source's overlap is two frames and more:
with 0 a single bypassed frame leaves the gap that takes three of them there, and with 1
the next batch meets the root, so that three frames have lists of two fragments,
bridges and the panic. In `verification` the four places
`find_batch_jitter_match` looks at are four different frames; a batch reaches the
vote only if its first frame is silent (section 5), hence the discs; two further
reads make three and four voters, an odd and an even number; silence has several
values, so that runs may differ although part of a disc is silent. The
properties that compare a search with what the drive did (`RiftsRecognised`,
`ShiftsMeasured`) hold where no run of the length looked for comes again within the
reach of the search (`RunsDiffer`; a shift is not the drive's alone otherwise). The
loud parts of the discs have five sample values, each many times over.
`ReliableSamplesRight` needs only that none of the samples by which jitter is
measured is weak. In `stage1` a batch has two or three of the four sectors, so the
positions tried are different samples and a batch begins before, in and at the end
of a cached one: a cache of two has blocks that are searched, passed over and trimmed.
The batches of the later sectors are music without a repeated run, one sample of
which is misread at most, as `JitterIsTheDrives` supposes; those of the first begin in
silence, which matches anywhere. Two offsets a
ring and two a recalibration make rings that fill, wrap and recalibrate while partly
filled; offsets of both signs drive the overlap to its limit. In `rippers`
two tracks are enough to confuse neighbours, a data track before the music makes
first sector, first audio sector and 0 three numbers where `Music` begins with
a pause, and a move of 15 with 16 as the limit wraps from every sector but the
first.

**Fairness.** `FairSpec` is weak fairness of `Reader`, the steps of a read in
progress. A read runs to its end in the caller's thread and nothing else is
scheduled between two of its steps; the caller itself is under no obligation to
call. The drive is assumed to answer each request, with data or an error: a
request that never returns is a blocked system call and outside the program.
`FairSpec` of `Stage1` is weak fairness of `Search`, for the same reason. That of
`Rippers` is weak fairness of `Finish`, a step of the program alone, and strong
fairness of `FrameCopied`: a read that may deliver a frame again and again does so
at last. cdtest asks for a sector that cannot be read for ever, so without it no
copy need end; what `CopiesEnd` then shows is that no track lies where every read
must fail.

## 4. What is proved

Every safety invariant and every action property that a run checks is a theorem,
and so are the three refinements. A theorem holds for every value of the
constants that the modules' `ASSUME`s admit: any disc, batch, ring, overlap and
limit, and any values the caller may pass. TLC evaluates the assumptions in
the runs. They say:

* types, and the orders the source's constants have (`BaseSectors <= MaxSectors`,
  frames of an even number of samples, `MinWordsSearch <= MinWordsOverlap`,
  a `MaxTracks` that fits 8 bits);
* that a disc has a sample wherever a drive that slips or shifts may read one
  (`Verification`, `Stage1`), slips being at most as long as a batch;
* that libcdio's answers are ints, `NULL` is no handle, and a disc whose table can
  be read is pressed as discs are: its tracks are numbered from 1 or later and
  follow each other, no other number is audio, and the lead-out follows the last
  (`Ordered`). The code relies on it without looking: `read_toc`
  takes the first audio track for the begin of the audio range. `TracksAgree`,
  `FileHoldsTrack` and `NeverRefused` are proved from it.

**Read loop** (`ReadLoopProofs`).

* `TypeCorrect`: `Spec => []TypeOK`.
* `ReadInvariant`: `Spec => []ReadInv`, the inductive invariant. None of the
  properties below is inductive alone: that the batch holds its target
  (`CallFits`) needs where the cursor may be (`CursorInRange`); that a batch meets
  the root needs both, and how far the root's end may trail the cursor, which is
  the number of stray frames (`RootMeetsCursor`); the backoff part is there
  because a read takes over what the last one left (`BackoffBelongsToRead`).
* `RequestsStayInRange`, `GapsNeedStrays`, `ErrorsStayWithTheirRead` follow from it.
* `EveryReadAdvances`: each step of a read raises the retry counter below its
  limit, or decreases what is left of the attempt, or leaves the loop. It is the
  safety half of termination.
* `ReadsAnswerInOrder`: `Spec => Promised!Spec`, step by step: every action of
  `ReadLoop` is an action of `FrameReader` or changes nothing the caller can see.
* `RootIsKeptAroundCursor`: `Spec => RootGrowsAroundCursor`. That a merged batch holds
  the frame at the cursor is `CallFits`; that the root did not have that frame yet is
  carried from the fast path, which looked, through every retry to the merge
  (`KeepInv`).
* `VerifiedComesFromRoot`: `VerifiedMeansFromRoot`, under the hypothesis that the
  caller never turns verification off (`{} \notin Modes`; with it off, a frame
  read directly may lie in a root left by an earlier mode, and `backoff` has the
  same restriction). `FlagInv` adds that the root does not have the target frame
  for as long as a verified read is under way, and speaks of the frame answered,
  not of the one before the cursor, so that seeks and ranges keep it.
* `CacheBounded`: `Spec => CacheStaysBounded`, from the types and what
  `TrimCache` returns.
* `BackoffsClimbLadder`: `Spec => []BackoffLadder`. `LadderInv` is the ladder for any
  number of backoffs, with `PowerOfTwo` as a recursive function, and adds that a
  read which seeks away has a backoff left. One doubling is one step of the ladder
  also where the limit cuts it: the least of twice the capped value and the
  limit is the capped double.

**Fragments** (`FragmentsProofs`), for any frame size, sample values and misreads.

* `MergeFragmentPointwise`: for blocks of any length and position that do not
  stand apart, `MergeFragment` yields what `MergedPointwise` promises. The lemmas
  before it say what prepending and appending do to each position.
* `RootInvariant`, `RootIsBacked`, `VerifiedStays`, `MergesArePointwise`: the root
  under every history of batches. `RootInv` adds to `RootBacked` that the root is
  well formed and either the empty block at 0 or not empty, which the merge lemma
  needs.
* `RootIsKeptInSectors`: `Spec => RootKeptInSectors`. The root begins and ends on frames
  (`RootAligned`), and so does every batch, so a merge adds whole sectors; a half frame is verified after it where it was before or where the batch has all
  its samples verified, and position by position that is `MergeFragmentPointwise`.
  `MatchesVouchInside`: after a match these halves of the batch are exactly
  `InnerHalves`, all but the first and the last, which is what `ReadLoop` merges.
* `ListInvariant`, and from it `NoFragmentsTouch` (`FragmentsApart`), `FlagsAreEarned`
  (`FragmentsBacked`) and `BlocksStayWellFormed` (`TypeOK`): the list is one of sound
  blocks, any two with a gap between. A sound block has its verified samples among
  the facts that earn the flag and all of them among those seen. A merge lends a sample the flag
  where two blocks agree, and is sound if such samples came twice (`Confirming`).
  That holds of a new batch with any fragment, and of fragments with each other
  because they do not touch; while a batch that bridges several is joined to them
  one by one, it has to be carried along for every pair not joined yet.

**Verification** (`VerificationProofs`), for batches, discs and numbers of reads of
any size.

* `VerificationInvariant`: each read carries the jitter the search finds between it and
  the first, and what is done is the first read or the vote on all.
* `MajorityRight`: `Spec => []ReliableSamplesRight`. A read in place has no jitter, since
  the search tries the offset 0 first; it therefore votes where it belongs; more
  than half the reads are in place and give a reliable position the same value,
  so no other value has as many votes, whatever the order of the hash map.
* `JitterMeasured` (`ShiftsMeasured`) and `SlipsRecognised` (`RiftsRecognised`): where no
  run of the length looked for comes again within the reach of the search, however
  often its samples do, the only offset at which one agrees is the drive's; the
  search reaches it and passes over all others, in the code's order. A slip goes to
  either side, and the read that has samples the other lacks is the one said to
  stutter (section 5).

**Stage 1** (`SortIndexProofs`, `DynOverlapProofs`, `Stage1Proofs`).

* `InsertDescribes`: inserting a sample keeps the index a description of the batch, so
  the one `build_index` ends with is one; following it goes backwards through all
  places of a value (`HeadsLead`, `ChainMissesNone`), and what `find_match` reports
  is a run (`MatchIsRun`). `verify_overlap` says yes just where there is one
  (`MatchMeansRun`), although its counter starts over at each mismatch and is
  kept from the first run of the least length on.
* `OverlapOfCovers`: what `recalibrate` computes from a ring is at least the largest
  offset in it, within the limits. It needs that the deviation is a natural number,
  hence that a sum of squares is and that every natural has a root rounded down.
* The invariant of `Stage1` is `SearchInv /\ RingsSound`. `SearchInv` says that cached
  batches are what the drive gave or votes on it, that indices describe them,
  that the spot lies in block and batch, and (`Searched`) that every position, block and
  candidate before the spot has no run: the candidate in hand splits a bucket
  into what was compared and what is to come. `RingsSound` says where a ring's next
  offset goes until it is full, so that the latest are at the slots before it.
  From it: `Stage1Types`, `IndexesDescribe`, `RecognisedIsRun`, `MissedHasNone`,
  `RecordedIsTheDrives`, `LatestAreHeld`, `OverlapIsEnough`, and `SearchesGetOn`
  (`SearchesAdvance`): every step goes to the next block or position or to an earlier
  place of the same value, since a link leads back (`LinkLeadsBack`). `RecordedIsTheDrives`
  (`JitterIsTheDrives`) is for every number `n` of samples that may be misread in a run:
  if no two runs of the stretch that batch and cached batch cover agree in all but
  2`n` samples, a run that agrees has the drive's offset, since each of the two reads
  has at most `n` samples of it wrong. Samples may recur, as those of a disc must; it is
  a run that may not, and only within that stretch. It is about the offsets by which
  stage 1 recognises a batch; those of second reads go into the rings as they come.

**Drive, C interface, programs** (`RippersProofs`), for any devices, discs, trays,
exchanges, moves and bounds.

* `TypeCorrect`, `RangesBelongToDisc`, `FramesBelongToDisc`. The invariant adds to
  the properties that a reader never stands without a typed drive (a drive is
  not freed under a reader), that every sector of the root is of the disc in the
  drive unless that was exchanged, and that a copy in progress has both.
* `TocInvariant`: an open drive has copied all entries of a table that can be read, and
  its audio range. `OpenDriveHasToc` (`TocOfDisc`) and `AnswersAgree` (`TracksAgree`)
  follow with the order of the tracks; `FindsTheFirst` needs only that opening
  succeeds exactly on those discs (`OpenCopies`).
* `FilesHoldTracks` (`FileHoldsTrack`): `CopyInv` says that a copy reads with the drive it
  opened, in the whole of its range, and that the file is the sectors from the
  track's first to the one before the cursor, through failed reads and exchanges.
* `ReadsAreNotRefused` (`NeverRefused`): cdtest's last sector lies in the reader's range
  when it computes it (`LastWithinRange`, from the order of the tracks, with a known
  end or without), and neither range nor drive changes under a copy.

**How the proofs do without induction rules.** The library's induction theorems take a
predicate as a parameter, which the provers cannot instantiate. `Induction` states
what is needed with sets: every non-empty set of naturals has a least member
(`LeastNatural`, from the well-founded order), a set of naturals closed under
successor is all of them (`InductionOnSet`), a bounded one has a greatest
member, and a function defined by its value at 0 and a step from each value to the
next exists and has that step (`Iteration`, `RecursionExists`). The recursive
functions of the models (sums over a ring, the counter of `verify_overlap`,
consolidation and retention, the ladder) are proved about with these.

**Only model-checked.** `EveryReadEnds`, `SearchEnds` and `CopiesEnd`: liveness under
fairness is out of the prover's reach. Each has its safety half proved: every step of a read
decreases its measure (`EveryReadAdvances`), every step of a search goes on to a place
it has not been to (`SearchesGetOn`), and no frame cdtest asks for is one that every read
must refuse (`ReadsAreNotRefused`). What is left to TLC is that fair steps happen.
The runs with an expected violation (section 5) are TLC's alone.

## 5. What the code does differently from what it says

Each of these is a run with a counterexample.

* `claim_never_skip`: a fresh reader has `NEVERSKIP` in its mode and skips;
  only `set_mode` brings the two in line.
* `claim_merge`: frames that are skipped or read singly leave a gap between the
  root and the next batch, and `merge_fragment` panics on it. `GapNeedsStrays`
  says how many it takes: more than the overlap, or a `set_range` that puts the
  cursor before the root or (with one such frame) the range's begin beyond it.
* `claim_fast_path`: the root is asked whether it covers the frame, not whether
  the frame is verified there.
* `claim_voted`: the jitter search looks for the first frame of one read in the
  other; one step back from the begin of the batch its index wraps. So unless
  the first frame is silent, or found at an offset of 0 or 1, two reads that
  differ end in a panic, and never in a vote.
* `claim_verified_twice`: where two reads part in silence, `analyze_rift` answers
  `NoRift` (`:788`) without looking at what follows, and the whole first read is
  marked verified, with samples the second read does not have. (A frame found in the
  second read does the same to the rest of the batch, and a vote tied between two
  values verifies either.)
* `claim_alignment`: the offset at which a read's samples were found is subtracted
  where it should be added.

Met while modelling, without a run: up to seven reads vote, not five
(`:455`); `detect_jitter_offset_static` matches silence, which
`find_batch_jitter_match` takes care not to; `abs` of the lowest sample overflows
(`gap.rs:315`); `cache_model_sectors` is compared with a
number of blocks (`paranoia.rs:1003`); a seek from the start is relative to the
range (`:190`), where its comment has an absolute position; a backoff near the
first sector is clamped to where the head already is (`:371`); with three backoffs
the ladder of the README's table ends at 64 sectors, not 128; a fragment that
touches another and disagrees with it is dropped (`:1098`); a read that dropped samples
is never called so: `analyze_rift_forward` says that the complete read stutters, and
`DroppedFromA` and `DroppedFromB`, which `gap.rs:20-28` documents for that case and
`handle_rift` answers with `FixupDropped`, are returned by nothing the reader calls
(`RiftsRecognised` states what the code returns); `last_frame_verified`
(`:1143`) answers for the root and so also after a read without verification.

Of stage 1: `find_match` and `find_overlap` take silence and repetition for
agreement, at the last place of the bucket first, so a silent batch is recognised
at an offset that is nobody's jitter and the overlap grows on it (which is why
`JitterIsTheDrives` is about music whose runs differ); only offsets that are not 0 are
recorded, so an overlap that has grown shrinks again only after further jitter;
`find_overlap` ignores the search range it is given (`overlap.rs:192`);
`set_overlap` has no upper limit and leaves the search range (`paranoia.rs:234`).

Of the drive and its callers: where the first track is not number 1,
`track_first_sector` (an index into the copy) and `track_last_sector`,
`track_is_audio` and `sector_get_track` (libcdio's number) speak of different tracks
(`Sound` excludes such discs); a failed open leaves the track count and part of the
table to be queried; a reader over a drive that is not open delivers silence as
success until a mode with `NEVERSKIP` is set; a reader made before the drive is
opened has the range 0 to 0 for good; an unknown lead-out leaves the last track's
end to `audio_last_sector`, which may be an earlier track's or 0, and where it is
less than the first a seek panics; cdtest's "Continue anyway" (`cdtest.rs:228`)
is a loop without an end if a sector fails for ever, because it set a mode that
does not skip; rip_track copies data tracks, too, of which the seek reaches only
what lies in the audio range; `paranoia.h` declares the track numbers `int` and
`ffi.rs` takes 8 bits of them; a seek from the start is relative to the range, where
`paranoia.rs:184` says "absolute position" and the README's example
passes a sector, while both programs subtract the first sector; `Paranoia::new` leaks the drive.

## 6. What is not modelled

How a voted batch comes about in `Stage1` and how long one read takes in `CApi`: the
modules that have it are `Verification` and `ReadLoop`, and nothing here shows
that their composition is theirs. The drift estimate, the width of a sample, and the operations of
the sort index that nothing calls. Queries that pass a value of libcdio through
(channels, copy permit, pre-emphasis, endianness), speed and verbosity, the direct
reads `cdio_cddap_read` and `read_timed` (the guard of `read_audio`, then libcdio)
and the stub backend. A `libcdio` that reports more than `MAXTRK` tracks, for
which `read_toc` would index beyond its table. Callbacks, errors' texts, what the
programs print and the unused stages carry no state the reader uses. System calls are
the environment, and so is a program that frees a drive under its reader.

## 7. Plan

Done, in this order, the most important behaviour first: `Backoff`, `ReadLoop`
with `FrameReader`, `Blocks`, `Fragments`; their proofs; `Verification`; `Stage1` with
`DynOverlap` and `SortIndex`; `Drive`, `CApi` and `Rippers`; proofs of every
invariant and action property of these; the roots of `ReadLoop` and `Fragments` as
implementations of one `RootKeeper`; the safety halves of the three liveness properties.

Next:

1. Refinements: that `Stage1` and `Verification` implement ReadLoop's choices, step by
   step and not by the tables of section 2, and that a read of `CApi` is one of
   `FrameReader`.
2. The drift estimate and the backward rift analysis, once something calls them.
