----------------------------- MODULE Fragments -----------------------------
(***************************************************************************)
(* The fragment list and the root block, sample by sample, as the read     *)
(* loop fills them: try_merge_fragment, consolidate_fragments and          *)
(* RootBlock::merge_fragment (src/paranoia.rs, src/block.rs).  Where       *)
(* ReadLoop knows a batch by its extent, this module knows its samples,    *)
(* some of which the drive may have misread.                               *)
(***************************************************************************)
EXTENDS Blocks, SequencesExt

CONSTANTS
  FrameWords,    (* samples of a frame, an even number                      *)
  Frames,        (* frames of the disc, numbered from 0                     *)
  Overlaps,      (* the overlaps of a batch, in frames                      *)
  BatchFrames,   (* frames of a batch, beside its overlap                   *)
  RetainFrames,  (* fragments further behind the cursor are dropped         *)
  Correct,       (* what the disc holds, at every position                  *)
  Weak,          (* positions where a sample may come back wrong            *)
  MaxMisread     (* samples of one batch that come back wrong               *)

ASSUME FragmentsAssumption ==
  /\ FrameWords \in Nat \ {0} /\ FrameWords % 2 = 0
  /\ Frames \in Nat \ {0} /\ Overlaps \subseteq Nat /\ BatchFrames \in Nat \ {0}
  /\ RetainFrames \in Nat /\ MaxMisread \in Nat /\ Correct \in Values

VARIABLES
  cursor,     (* the next frame to deliver                                  *)
  fragments,  (* Vec<VFragment>                                             *)
  root,
  panicked,
  (* history, since the last seek: the sample values that came in a batch   *)
  (* as verified, that came at all, and that came in two batches            *)
  vouched, seen, seenTwice

store   == <<fragments, root>>
history == <<vouched, seen, seenTwice>>
vars    == <<cursor, store, panicked, history>>

CursorAt == cursor * FrameWords

Init ==
  /\ cursor = 0 /\ fragments = <<>> /\ root = NoBlock /\ panicked = FALSE
  /\ vouched = {} /\ seen = {} /\ seenTwice = {}

-----------------------------------------------------------------------------
(* sort_by_key is stable: f goes behind the last that begins no later *)
Placed(list, f) ==
  [i \in 1 .. Len(list) + 1 |->
     IF i <= Len(list) /\ list[i].begin <= f.begin THEN list[i]
     ELSE IF i = 1 \/ list[i - 1].begin <= f.begin THEN f ELSE list[i - 1]]
ByBegin(list) ==
  LET sorted[n \in 0 .. Len(list)] ==
        IF n = 0 THEN <<>> ELSE Placed(sorted[n - 1], list[n])
  IN sorted[Len(list)]

(* A next fragment that touches the last one is merged into it, or is gone. *)
(* mutant: a next fragment that disagrees stays in the list *)
JoinedKeeping(list, next) ==
  IF list # <<>> /\ CanMerge(Last(list), next)
  THEN [list EXCEPT ![Len(list)] = TryMerge(@, next)]
  ELSE Append(list, next)
Joined(list, next) ==
  IF list # <<>> /\ BlockEnd(Last(list)) >= next.begin
  THEN [list EXCEPT ![Len(list)] = TryMerge(@, next)]
  ELSE Append(list, next)
Consolidate(list) ==
  LET sorted == ByBegin(list)
      done[n \in 0 .. Len(list)] ==
        IF n = 0 THEN <<>> ELSE Joined(done[n - 1], sorted[n])
  IN done[Len(list)]

IsRetained(f) == BlockEnd(f) > CursorAt - RetainFrames * FrameWords
Retained(list) ==
  LET kept[n \in 0 .. Len(list)] ==
        IF n = 0 THEN <<>>
        ELSE IF IsRetained(list[n]) THEN Append(kept[n - 1], list[n]) ELSE kept[n - 1]
  IN kept[Len(list)]

(* try_merge_fragment: into the first fragment that takes it, else a new one *)
WithFragment(list, f) ==
  LET takers == {i \in 1 .. Len(list) : CanMerge(list[i], f)}
      first  == CHOOSE i \in takers : \A j \in takers : i <= j
  IN IF takers # {} THEN [list EXCEPT ![first] = TryMerge(@, f)] ELSE Append(list, f)
TryMergeFragment(list, f) == Retained(Consolidate(WithFragment(list, f)))

-----------------------------------------------------------------------------
BatchBegin(overlap) == IF cursor - overlap >= 0 THEN cursor - overlap ELSE 0
BatchEnd(overlap) ==
  LET end == BatchBegin(overlap) + BatchFrames + overlap IN IF end <= Frames THEN end ELSE Frames

(* A batch as the drive gives it. *)
Reads(overlap) ==
  LET begin == BatchBegin(overlap) * FrameWords
      n     == (BatchEnd(overlap) - BatchBegin(overlap)) * FrameWords
  IN {data \in [1 .. n -> Values] :
        LET wrong == {i \in 1 .. n : data[i] # Correct}
        IN Cardinality(wrong) <= MaxMisread /\ \A i \in wrong : begin + i - 1 \in Weak}

(* Its fragment, when stage 1 or the second read verified it: verified but *)
(* for its edges.                                                          *)
Verified(overlap, data) ==
  MarkEdges(FromSamplesVerified(data, BatchBegin(overlap) * FrameWords), FrameWords \div 2)

(* Its fragment, when it was voted on: the samples that missed the         *)
(* majority are not verified.                                              *)
Voted(overlap, data, missed) ==
  [begin |-> BatchBegin(overlap) * FrameWords, vector |-> data,
   flags |-> [i \in 1 .. Len(data) |-> i \notin missed]]

(* What came with f, as facts of position and value. *)
Facts(f) == {<<p, Sample(f, p)>> : p \in f.begin .. (BlockEnd(f) - 1)}

(* The end of a successful read: f into the fragments, then into the root, *)
(* then the frame to the caller.                                           *)
Accept(f) ==
  /\ ~panicked /\ cursor < Frames
  /\ ~Covers(root, CursorAt, CursorAt + FrameWords)
  /\ seen' = seen \cup Facts(f)
  /\ seenTwice' = seenTwice \cup (seen \cap Facts(f))
  /\ vouched' = vouched \cup {<<p, Sample(f, p)>> : p \in
                                {q \in f.begin .. (BlockEnd(f) - 1) : IsVerified(f, q)}}
  /\ fragments' = TryMergeFragment(fragments, f)
  /\ IF MergePanics(root, f)
     THEN panicked' = TRUE /\ UNCHANGED <<root, cursor>>
     ELSE root' = MergeFragment(root, f) /\ cursor' = cursor + 1 /\ UNCHANGED panicked

AcceptVerified(overlap, data) == Accept(Verified(overlap, data))

AcceptVoted(overlap, data) ==
  \E missed \in SUBSET (1 .. Len(data)) : Accept(Voted(overlap, data, missed))

ServeFromRoot ==
  /\ ~panicked /\ cursor < Frames
  /\ Covers(root, CursorAt, CursorAt + FrameWords)
  /\ cursor' = cursor + 1
  /\ UNCHANGED <<store, panicked, history>>

(* a frame skipped, or read without verification *)
Bypass ==
  /\ ~panicked /\ cursor < Frames
  /\ cursor' = cursor + 1
  /\ UNCHANGED <<store, panicked, history>>

Seek ==
  /\ ~panicked
  /\ cursor' \in 0 .. (Frames - 1)
  /\ fragments' = <<>> /\ root' = NoBlock
  /\ vouched' = {} /\ seen' = {} /\ seenTwice' = {}
  /\ UNCHANGED panicked

(* set_range may put the cursor back to the start and clears nothing *)
Rewind ==
  /\ ~panicked
  /\ cursor' = 0
  /\ UNCHANGED <<store, panicked, history>>

Next ==
  \/ \E overlap \in Overlaps : \E data \in Reads(overlap) :
       AcceptVerified(overlap, data) \/ AcceptVoted(overlap, data)
  \/ ServeFromRoot \/ Bypass \/ Seek \/ Rewind

Spec == Init /\ [][Next]_vars

-----------------------------------------------------------------------------
(* Correctness *)

(* Flags and samples stay in step in every block.                          *)
TypeOK ==
  /\ cursor \in 0 .. Frames /\ panicked \in BOOLEAN
  /\ WellFormed(root)
  /\ \A i \in DOMAIN fragments : WellFormed(fragments[i])

(* consolidate_fragments leaves the list sorted, and no two fragments      *)
(* overlapping or touching, whatever order the batches came in.            *)
FragmentsApart ==
  \A i \in 1 .. (Len(fragments) - 1) : BlockEnd(fragments[i]) < fragments[i + 1].begin

(* A fragment's sample is verified only if that very value came verified   *)
(* at that position, or came in two different batches.                     *)
FragmentsBacked ==
  \A i \in DOMAIN fragments :
    \A p \in fragments[i].begin .. (BlockEnd(fragments[i]) - 1) :
      IsVerified(fragments[i], p) => <<p, Sample(fragments[i], p)>> \in vouched \cup seenTwice

(* A verified sample of the root carries a value that came verified at     *)
(* that position: merging never lends a flag to another read's sample.     *)
RootBacked ==
  \A p \in root.begin .. (BlockEnd(root) - 1) :
    IsVerified(root, p) => <<p, Sample(root, p)>> \in vouched

(* What the root's part of these rests on. *)
RootInv ==
  /\ cursor \in 0 .. Frames
  /\ WellFormed(root) /\ (root = NoBlock \/ ~IsEmpty(root))
  /\ RootBacked

(* Once verified, a sample of the root keeps its value and its flag until  *)
(* a seek clears the root.                                                 *)
VerifiedRootStays ==
  [][root' # NoBlock =>
       \A p \in root.begin .. (BlockEnd(root) - 1) :
         IsVerified(root, p) =>
           Holds(root', p) /\ IsVerified(root', p) /\ Sample(root', p) = Sample(root, p)]_vars

(* The index arithmetic of merge_fragment, against its promise: for every  *)
(* batch that is accepted, verified or voted, the root of before and the   *)
(* fragment make the root of after, position by position.                  *)
MergedOnAccept(f) == Accept(f) => MergedPointwise(root, f, root')
RootMergesPointwise ==
  [][root # NoBlock /\ ~panicked' =>
       \A overlap \in Overlaps : \A data \in Reads(overlap) :
         /\ MergedOnAccept(Verified(overlap, data))
         /\ \A missed \in SUBSET (1 .. Len(data)) :
              MergedOnAccept(Voted(overlap, data, missed))]_vars

(* A block as ReadLoop sees it: the sectors it has, and the half frames of *)
(* which it has all samples verified.                                      *)
HalfWords == FrameWords \div 2
HalfSamples(h) == (h * HalfWords) .. ((h + 1) * HalfWords - 1)
InSectors(r) ==
  LET b == r.begin \div FrameWords
      e == BlockEnd(r) \div FrameWords
  IN [begin |-> b, end |-> e,
      verified |-> {h \in (2 * b) .. (2 * e - 1) : \A p \in HalfSamples(h) : IsVerified(r, p)}]

(* The merges of sample blocks do to the root what ReadLoop takes them to  *)
(* do: it is one stretch of whole sectors, a batch adds its sectors and    *)
(* the halves it has verified and loses none, and the merge panics only on *)
(* a frame that stands apart.                                              *)
Keeper == INSTANCE RootKeeper WITH
  Lowest <- 0, Highest <- Frames - 1, root <- InSectors(root)
RootKeptInSectors == Keeper!Spec
=============================================================================
