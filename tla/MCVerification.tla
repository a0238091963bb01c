--------------------------- MODULE MCVerification ---------------------------
(* Verification with short batches: a disc with one silent frame before    *)
(* the music, one with a single loud frame at the end of the batch, and    *)
(* one that is silent but for a frame.  Silence is not all zero.  The      *)
(* music has five values, of which no two come again in the same order.    *)
EXTENDS Verification

Surrounded == -7 .. 16
Music      == <<1, 1, 2, 1, 3, 1, 4, 1, 5, 2, 2, 3, 2, 4, 2, 5, 3, 3, 4, 3, 5, 4, 4, 5>>
Loud(p)    == 20 + Music[p + 8]
QuietLead  == [p \in Surrounded |-> IF p <= 2 THEN p ELSE Loud(p)]
LoudTail   == [p \in Surrounded |-> IF p <= 6 THEN p ELSE Loud(p)]
OneLoud    == [p \in Surrounded |-> IF p \in {3, 4} THEN 20 + p ELSE 0]

Slip(k, d) == [at |-> k, by |-> d]
SomeDiscs  == {QuietLead, LoudTail, OneLoud}
SomeSlips  == {Slip(1, 0), Slip(1, 1), Slip(1, -1), Slip(5, 1)}
Silence    == -7 .. 6
=============================================================================
