------------------------------- MODULE Blocks -------------------------------
(***************************************************************************)
(* The sample blocks of src/block.rs: VFragment and RootBlock, with the    *)
(* index arithmetic of their merges.  A block is its first position, its   *)
(* samples and, beside each sample, whether its VERIFIED flag is set.      *)
(* lastsector, the other flags and silenceflag decide nothing.             *)
(***************************************************************************)
EXTENDS Integers, Sequences

CONSTANT Values (* of a sample *)

Block == [begin : Int, vector : Seq(Values), flags : Seq(BOOLEAN)]
WellFormed(f) == f \in Block /\ Len(f.flags) = Len(f.vector)

NoBlock     == [begin |-> 0, vector |-> <<>>, flags |-> <<>>]
BlockEnd(f) == f.begin + Len(f.vector)
IsEmpty(f)  == Len(f.vector) = 0

(* s[0 .. n] and s[n ..] *)
FirstOf(s, n)   == SubSeq(s, 1, n)
(* mutant: off by one *)
RestFromNext(s, n) == SubSeq(s, n + 2, Len(s))
RestFrom(s, n)  == SubSeq(s, n + 1, Len(s))

(* what the accessors read: the sample and its flag at an absolute position *)
Holds(f, p)   == f.begin <= p /\ p < BlockEnd(f)
Sample(f, p)     == f.vector[p - f.begin + 1]
IsVerified(f, p) == f.flags[p - f.begin + 1]

Covers(f, b, e) == f.begin <= b /\ e <= BlockEnd(f)

OverlapBegin(f, g) == IF f.begin >= g.begin THEN f.begin ELSE g.begin
OverlapEnd(f, g)   == IF BlockEnd(f) <= BlockEnd(g) THEN BlockEnd(f) ELSE BlockEnd(g)
Overlap(f, g)      == OverlapBegin(f, g) .. (OverlapEnd(f, g) - 1)

(* the two neither overlap nor touch *)
Apart(f, g) == BlockEnd(f) < g.begin \/ BlockEnd(g) < f.begin

-----------------------------------------------------------------------------
(* mutant: a flag too many *)
FromSamplesWithSpareFlag(data, begin) ==
  [begin |-> begin, vector |-> data, flags |-> [i \in 1 .. Len(data) + 1 |-> TRUE]]
FromSamplesVerified(data, begin) ==
  [begin |-> begin, vector |-> data, flags |-> [i \in 1 .. Len(data) |-> TRUE]]

(* mark_edges clears the flag of the first and of the last n samples *)
MarkEdges(f, n) ==
  [f EXCEPT !.flags = [i \in 1 .. Len(@) |-> @[i] /\ i > n /\ ~(Len(@) > n /\ i > Len(@) - n)]]

(* f, and what g has before its begin and after its end *)
Prepended(f, g) ==
  IF g.begin < f.begin
  THEN LET n == f.begin - g.begin IN
         [begin |-> g.begin, vector |-> FirstOf(g.vector, n) \o f.vector,
          flags |-> FirstOf(g.flags, n) \o f.flags]
  ELSE f
Appended(f, g) ==
  IF BlockEnd(g) > BlockEnd(f)
  THEN LET n == BlockEnd(f) - g.begin IN
         [begin |-> f.begin, vector |-> f.vector \o RestFrom(g.vector, n),
          flags |-> f.flags \o RestFrom(g.flags, n)]
  ELSE f
Extended(f, g) == Appended(Prepended(f, g), g)

(* VFragment::try_merge: whether the two agree where they overlap, and     *)
(* what becomes of f if they do                                            *)
(* mutant: the samples are not compared *)
CanMergeTouching(f, g) == ~Apart(f, g)
CanMerge(f, g) == ~Apart(f, g) /\ \A p \in Overlap(f, g) : Sample(f, p) = Sample(g, p)
Confirmed(f, where) ==
  [f EXCEPT !.flags = [i \in 1 .. Len(@) |-> @[i] \/ f.begin + i - 1 \in where]]
TryMerge(f, g) == IF CanMerge(f, g) THEN Extended(Confirmed(f, Overlap(f, g)), g) ELSE f

(* RootBlock::merge_fragment; it panics on an f the root stands apart from *)
MergePanics(root, f) == ~IsEmpty(root) /\ ~IsEmpty(f) /\ Apart(root, f)
(* mutants: the flag is taken without its sample; the newest read wins *)
PreferFlagsOnly(root, f, where) ==
  [root EXCEPT !.flags = [i \in 1 .. Len(@) |->
     @[i] \/ (root.begin + i - 1 \in where /\ IsVerified(f, root.begin + i - 1))]]
PreferNewest(root, f, where) ==
  LET Takes(p) == p \in where /\ IsVerified(f, p)
  IN [begin |-> root.begin,
      vector |-> [i \in 1 .. Len(root.vector) |->
                    IF Takes(root.begin + i - 1)
                    THEN Sample(f, root.begin + i - 1) ELSE root.vector[i]],
      flags  |-> [i \in 1 .. Len(root.flags) |->
                    root.flags[i] \/ Takes(root.begin + i - 1)]]
PreferVerified(root, f, where) ==
  LET Takes(p) == p \in where /\ IsVerified(f, p)
  IN [begin |-> root.begin,
      vector |-> [i \in 1 .. Len(root.vector) |->
                    IF Takes(root.begin + i - 1) /\ ~root.flags[i]
                    THEN Sample(f, root.begin + i - 1) ELSE root.vector[i]],
      flags  |-> [i \in 1 .. Len(root.flags) |->
                    root.flags[i] \/ Takes(root.begin + i - 1)]]
MergeFragment(root, f) ==
  IF IsEmpty(f) THEN root
  ELSE IF IsEmpty(root) THEN f
  ELSE PreferVerified(Extended(root, f), f, Overlap(root, f))

-----------------------------------------------------------------------------
(* What merge_fragment promises, position by position: nothing is lost,    *)
(* the root's sample stays unless only the fragment's is verified, and a   *)
(* sample is verified if either was.                                       *)
MergedPointwise(root, f, m) ==
  /\ m.begin = IF f.begin < root.begin THEN f.begin ELSE root.begin
  /\ BlockEnd(m) = IF BlockEnd(f) > BlockEnd(root) THEN BlockEnd(f) ELSE BlockEnd(root)
  /\ \A p \in m.begin .. (BlockEnd(m) - 1) :
       /\ Sample(m, p) =
            IF Holds(root, p) /\ ~(Holds(f, p) /\ IsVerified(f, p) /\ ~IsVerified(root, p))
            THEN Sample(root, p) ELSE Sample(f, p)
       /\ IsVerified(m, p) =
            \/ Holds(root, p) /\ IsVerified(root, p)
            \/ Holds(f, p) /\ IsVerified(f, p)
=============================================================================
