----------------------------- MODULE DynOverlap -----------------------------
(***************************************************************************)
(* DynamicOverlap and OffsetStats (src/overlap.rs): how far the next batch *)
(* reaches back, from the offsets at which the last ones were found.       *)
(*                                                                         *)
(* Methods are operators from the record before the call to the one after  *)
(* it.  The estimate of the drift is left out: only find_jitter_match      *)
(* reads it, and nothing that runs calls that.                             *)
(***************************************************************************)
EXTENDS Integers, FiniteSetsExt

CONSTANTS
  FrameWords,        (* CD_FRAMEWORDS                                       *)
  MinWordsOverlap,   (* MIN_WORDS_OVERLAP                                   *)
  MinWordsSearch,    (* MIN_WORDS_SEARCH                                    *)
  MaxSectorOverlap,  (* MAX_SECTOR_OVERLAP                                  *)
  RingSize,          (* offsets remembered for each stage                   *)
  Interval           (* offsets between two recalibrations                  *)

ASSUME DynOverlapAssumption ==
  /\ FrameWords \in Nat \ {0} /\ MaxSectorOverlap \in Nat \ {0}
  /\ MinWordsOverlap \in 1 .. MaxSectorOverlap * FrameWords
  /\ MinWordsSearch \in 1 .. MinWordsOverlap
  /\ RingSize \in Nat \ {0} /\ Interval \in Nat \ {0}

MaxWordsOverlap == MaxSectorOverlap * FrameWords

Abs(x) == IF x < 0 THEN -x ELSE x
Larger(a, b)  == IF a >= b THEN a ELSE b
Smaller(a, b) == IF a <= b THEN a ELSE b

-----------------------------------------------------------------------------
(* OffsetStats *)

Ring == [offsets : [0 .. RingSize - 1 -> Int], index : 0 .. RingSize - 1,
         count : 0 .. RingSize]

EmptyRing == [offsets |-> [i \in 0 .. RingSize - 1 |-> 0], index |-> 0, count |-> 0]

(* mutant: moves on before it writes *)
AddAfterMoving(r, offset) ==
  LET next == (r.index + 1) % RingSize IN
    [offsets |-> [r.offsets EXCEPT ![next] = offset], index |-> next,
     count |-> Smaller(r.count + 1, RingSize)]
Add(r, offset) ==
  [offsets |-> [r.offsets EXCEPT ![r.index] = offset],
   index   |-> (r.index + 1) % RingSize,
   count   |-> Smaller(r.count + 1, RingSize)]

Used(r) == 0 .. r.count - 1

(* mutant: the largest offset, whatever its sign *)
MaxSigned(r) == Max({0} \cup {r.offsets[i] : i \in Used(r)})
MaxAbs(r) == Max({0} \cup {Abs(r.offsets[i]) : i \in Used(r)})

Total(r) ==
  LET sum[n \in 0 .. r.count] == IF n = 0 THEN 0 ELSE sum[n - 1] + r.offsets[n - 1]
  IN  sum[r.count]

(* integer division rounds towards zero *)
Mean(r) ==
  IF r.count = 0 THEN 0
  ELSE IF Total(r) < 0 THEN -((-Total(r)) \div r.count) ELSE Total(r) \div r.count

SquareRoot(n) == CHOOSE k \in 0 .. n : k * k <= n /\ n < (k + 1) * (k + 1)

TotalSquares(r) ==
  LET sum[n \in 0 .. r.count] ==
        IF n = 0 THEN 0
        ELSE sum[n - 1] + (r.offsets[n - 1] - Mean(r)) * (r.offsets[n - 1] - Mean(r))
  IN  sum[r.count]

(* twice the standard deviation about the rounded mean, rounded down       *)
TwiceDeviation(r) ==
  IF r.count < 2 THEN 0 ELSE SquareRoot((4 * TotalSquares(r)) \div (r.count - 1))

-----------------------------------------------------------------------------
(* DynamicOverlap *)

Dynamic == [overlap : Nat, search : Nat, stage1 : Ring, stage2 : Ring,
            measurements : 0 .. Interval - 1]

NewDynamic ==
  [overlap |-> MinWordsOverlap, search |-> MinWordsSearch,
   stage1 |-> EmptyRing, stage2 |-> EmptyRing, measurements |-> 0]

OverlapOf(stage1, stage2) ==
  LET jitter == Larger(MaxAbs(stage1), MaxAbs(stage2))
      margin == Larger(TwiceDeviation(stage1), TwiceDeviation(stage2))
  IN  Larger(Smaller(jitter + margin + MinWordsOverlap, MaxWordsOverlap), MinWordsOverlap)

Recalibrate(d) ==
  LET overlap == OverlapOf(d.stage1, d.stage2) IN
    [d EXCEPT !.overlap = overlap, !.search = Larger(overlap, MinWordsSearch)]

(* stage is 1 or 2                                                         *)
RecordJitter(d, offset, stage) ==
  LET added == [d EXCEPT !.stage1 = IF stage = 1 THEN Add(@, offset) ELSE @,
                         !.stage2 = IF stage = 2 THEN Add(@, offset) ELSE @]
  IN  IF d.measurements + 1 >= Interval
      THEN [Recalibrate(added) EXCEPT !.measurements = 0]
      ELSE [added EXCEPT !.measurements = @ + 1]

SetOverlap(d, overlap) == [d EXCEPT !.overlap = Larger(overlap, MinWordsOverlap)]

(* a batch reaches back by whole sectors                                   *)
OverlapSectors(d) == (d.overlap + FrameWords - 1) \div FrameWords
=============================================================================
