----------------------------- MODULE SectorRoot -----------------------------
(***************************************************************************)
(* The root block (src/block.rs) as the read loop needs to know it: which  *)
(* sectors it has, and of which half frames it has every sample verified.  *)
(* Sector s has the halves 2s and 2s+1, the granularity of mark_edges.     *)
(***************************************************************************)
EXTENDS Integers

Larger(a, b)  == IF a >= b THEN a ELSE b
Smaller(a, b) == IF a <= b THEN a ELSE b

Halves(b, e) == (2 * b) .. (2 * e - 1)
EmptyRoot == [begin |-> 0, end |-> 0, verified |-> {}]
IsEmpty(r)        == r.begin = r.end
Covers(r, sector) == r.begin <= sector /\ sector + 1 <= r.end

(* extract_frame finds the frame, and is_frame_verified vouches for it *)
FrameVerified(r, sector) ==
  Covers(r, sector) /\ Halves(sector, sector + 1) \subseteq r.verified

(* mark_edges takes the flag from the first and the last half frame *)
InnerHalves(b, e) == (2 * b + 1) .. (2 * e - 2)

(* merge_fragment indexes outside the vectors when the two leave a gap *)
Separated(r, b, e) == ~IsEmpty(r) /\ (b > r.end \/ e < r.begin)
(* mutant: what the root had before the new batch is lost *)
MergeFragmentFromBegin(r, b, e, verified) ==
  IF IsEmpty(r) THEN [begin |-> b, end |-> e, verified |-> verified]
  ELSE [begin |-> b, end |-> Larger(r.end, e), verified |-> r.verified \cup verified]
MergeFragment(r, b, e, verified) ==
  IF IsEmpty(r) THEN [begin |-> b, end |-> e, verified |-> verified]
  ELSE [begin |-> Smaller(r.begin, b), end |-> Larger(r.end, e),
        verified |-> r.verified \cup verified]
=============================================================================
