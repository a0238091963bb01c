------------------------- MODULE VerificationClaims -------------------------
(***************************************************************************)
(* What the repository's comments and documentation say of verification,   *)
(* as far as Verification can tell and the code does otherwise.            *)
(***************************************************************************)
EXTENDS MCVerification

Confirms(r, p, v) == \E q \in Batch : q - p \in (-search) .. search /\ r.samples[q] = v

(* A sample is called VERIFIED if matching reads confirm it: two of them   *)
(* gave its value there, or as far away as jitter may take it.             *)
VerifiedTwice ==
  phase = "done" =>
    \A p \in result.verified : \A v \in result.samples[p] :
      Cardinality({i \in DOMAIN reads : Confirms(reads[i], p, v)}) >= 2

(* ReadResult::get accounts for jitter: the samples by which a read was    *)
(* found to be shifted are looked up where the first read has them.        *)
ShiftedReadsAligned ==
  \A i \in DOMAIN reads : reads[i].jitter # 0 =>
    \A p \in Middle .. (Middle + MinWordsOverlap - 1) :
      Gives(reads[i], p) /\ Get(reads[i], p) = First[p]

=============================================================================
