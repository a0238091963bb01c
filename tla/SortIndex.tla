------------------------------ MODULE SortIndex ------------------------------
(***************************************************************************)
(* SortInfo (src/isort.rs): a cached batch indexed by sample value, and    *)
(* the two comparisons that use it, find_match and verify_overlap.         *)
(*                                                                         *)
(* heads[v] is the last place of the value v, links[i] the last one before *)
(* i that holds the same value, 0 is NONE.  Places count from 1.  The list *)
(* of used buckets speeds up nothing that runs, and the search range is    *)
(* always the whole batch: nothing calls set_search_range.                 *)
(***************************************************************************)
EXTENDS Integers, Sequences

CONSTANT Values      (* what a sample may be: the buckets                   *)

(* a batch whose index is still empty; shift is history: how far ahead of  *)
(* its position the drive was when it gave the batch                       *)
Unindexed(begin, samples, shift) ==
  [begin |-> begin, samples |-> samples, shift |-> shift,
   heads |-> [v \in Values |-> 0], links |-> [i \in DOMAIN samples |-> 0]]

Places(b) == 1 .. Len(b.samples)
EndOf(b)  == b.begin + Len(b.samples)

(* mutants: the chain is cut, or leads back to where it is *)
InsertUnlinked(b, i) == [b EXCEPT !.heads[b.samples[i]] = i]
InsertLooped(b, i) ==
  [b EXCEPT !.heads[b.samples[i]] = i, !.links[i] = i]
Insert(b, i) ==
  [b EXCEPT !.heads[b.samples[i]] = i, !.links[i] = b.heads[b.samples[i]]]

(* get: the sample at an absolute position, where the batch has one        *)
Has(b, pos) == b.begin <= pos /\ pos < EndOf(b)
Get(b, pos) == b.samples[pos - b.begin + 1]

Overlapping(a, b) == a.begin < EndOf(b) /\ EndOf(a) > b.begin

(* how far the place j of b lies behind the place i of a                   *)
OffsetTo(a, i, b, j) == (b.begin + j) - (a.begin + i)

(* find_match at one candidate: minMatch samples from i are those from j;  *)
(* the first of them is equal already                                      *)
MatchesFrom(a, i, b, j, minMatch) ==
  \A k \in 1 .. minMatch - 1 :
    /\ i + k <= Len(a.samples)
    /\ Has(b, b.begin + j + k - 1)
    /\ Get(b, b.begin + j + k - 1) = a.samples[i + k]

(* the count of samples that agree in a row, as the place i leaves it; at  *)
(* minMatch the loop returns.  A sample of which b has no counterpart does *)
(* not end the run.  Mutant: neither does one that differs.                *)
CountScattered(a, b, offset, minMatch, count, i) ==
  LET pos == a.begin + i - 1 + offset IN
    IF count < minMatch /\ Has(b, pos) /\ Get(b, pos) = a.samples[i]
    THEN count + 1 ELSE count
CountTo(a, b, offset, minMatch, count, i) ==
  LET pos == a.begin + i - 1 + offset IN
    IF count >= minMatch \/ ~Has(b, pos) THEN count
    ELSE IF Get(b, pos) = a.samples[i] THEN count + 1 ELSE 0

(* verify_overlap: the batches agree on a run at this offset               *)
MatchesSomewhere(a, b, offset, minMatch) ==
  LET count[i \in 0 .. Len(a.samples)] ==
        IF i = 0 THEN 0 ELSE CountTo(a, b, offset, minMatch, count[i - 1], i)
  IN  count[Len(a.samples)] >= minMatch

-----------------------------------------------------------------------------
(* What the index and the comparisons are for *)

PlacesOf(b, v, n) == {i \in 1 .. n : b.samples[i] = v}
IsLast(p, S) == IF S = {} THEN p = 0 ELSE p \in S /\ \A i \in S : i <= p

(* once n samples are in, every bucket's chain runs through the places of  *)
(* its value, the last one first                                           *)
Describes(b, n) ==
  /\ \A v \in Values : IsLast(b.heads[v], PlacesOf(b, v, n))
  /\ \A i \in 1 .. n : IsLast(b.links[i], PlacesOf(b, b.samples[i], i - 1))

(* somewhere, minMatch samples of a in a row are those of b at the offset  *)
Agree(a, b, offset, minMatch) ==
  \E i \in Places(a) : \A k \in 0 .. minMatch - 1 :
    /\ i + k \in Places(a)
    /\ Has(b, a.begin + i + k - 1 + offset)
    /\ Get(b, a.begin + i + k - 1 + offset) = a.samples[i + k]
=============================================================================
