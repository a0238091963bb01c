--------------------------- MODULE ReadLoopClaims ---------------------------
(***************************************************************************)
(* What the repository's comments and documentation say of the reader, as  *)
(* far as ReadLoop can tell and the code does otherwise.  One run each,    *)
(* with the counterexample TLC finds.                                      *)
(***************************************************************************)
EXTENDS ReadLoop

(* read_verified_internal, the comments on its fast path: a frame is       *)
(* handed out of the root without a read if it is verified there.          *)
FastPathVerified ==
  [][\A n \in RetryLimits : ReadFromRoot(n) => FrameVerified(root, cursor)]_vars

(* ParanoiaMode::NEVERSKIP: failed reads are not skipped.                  *)
NeverSkipIsNeverSilent ==
  [][pc # "idle" /\ pc' = "idle" /\ "NEVERSKIP" \in mode => out'.source # "silence"]_vars

(* read_limited answers a failing drive with an error, or with silence:    *)
(* merging what was read into the root does not panic.                     *)
MergingNeverPanics ==
  [][BatchRecognised \/ SecondMatches \/ ConsensusVote => pc' # "panicked"]_vars
=============================================================================
