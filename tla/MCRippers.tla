----------------------------- MODULE MCRippers -----------------------------
(* Two drives, and the discs that make opening one go differently.         *)
EXTENDS Rippers, TLC

Disc1(tracks, first, start, leadout, audio) ==
  [tracks |-> tracks, first |-> first, start |-> start, leadout |-> leadout, audio |-> audio]

Music     == Disc1(2, 1, 1 :> 1 @@ 2 :> 2, 4, {1, 2})
DataFirst == Disc1(2, 1, 1 :> 0 @@ 2 :> 1, 3, {2})
DataOnly  == Disc1(1, 1, 1 :> 0, 3, {})
Damaged   == Disc1(2, 1, 1 :> 0 @@ 2 :> InvalidLsn, 4, {1})
Second    == Disc1(2, 2, 2 :> 0 @@ 3 :> 1, 3, {2, 3})
OpenEnd   == Disc1(2, 1, 1 :> 0 @@ 2 :> 1, InvalidLsn, {1, 2})
LateEnd   == Disc1(2, 1, 1 :> 0 @@ 2 :> 1, InvalidLsn, {2})
Blank     == Disc1(InvalidTrack, InvalidTrack, <<>>, InvalidLsn, {})
Headless  == Disc1(2, InvalidTrack, <<>>, InvalidLsn, {})

NoLsn     == -9
SomeMoves == {-1, 15}

AllDiscs == {Music, DataFirst, DataOnly, Damaged, Second, OpenEnd, LateEnd, Blank, Headless}
SomeTrays ==
  {<<disc, Absent>> : disc \in AllDiscs \cup {Absent}}
    \cup {<<DataOnly, DataFirst>>, <<DataFirst, DataFirst>>}
Others == {DataFirst, DataOnly, Damaged}
=============================================================================
