---------------------------- MODULE MCReadLoop ----------------------------
(* ReadLoop on discs small enough for TLC: what the caller may pass.       *)
EXTENDS ReadLoop

AllModes   == {{}, {"VERIFY"}, {"VERIFY", "NEVERSKIP"}}
NearMoves  == {-1, 0}
RangeEnds  == {1, 2}
AskOrTwo   == {-1, 2}
=============================================================================
