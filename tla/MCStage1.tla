------------------------------ MODULE MCStage1 ------------------------------
(* Stage1 on a disc of short sectors that begins in silence; its first     *)
(* loud sample comes again at its end.                                     *)
EXTENDS Stage1

SilentStart == [p \in -1 .. Sectors * FrameWords |->
                  IF p < 3 THEN 0 ELSE IF p = 11 THEN 3 ELSE p]

SomeDiscs   == {SilentStart}
SomeShifts  == {0, 1}
SomeMisread == {{}, {3}}
=============================================================================
