------------------------------- MODULE Drive -------------------------------
(***************************************************************************)
(* The drive handle, CdromDrive (src/cdda.rs): the table of contents it    *)
(* copies from libcdio when it is opened, and the questions about tracks   *)
(* it answers, some from the copy and some by asking libcdio again.  The   *)
(* copy counts tracks from 1; libcdio numbers them from the number of the  *)
(* first track of the disc.                                                *)
(***************************************************************************)
EXTENDS Integers, FiniteSetsExt

CONSTANTS
  MaxTracks,       (* MAXTRK                                                *)
  InvalidLsn,      (* CDIO_INVALID_LSN                                      *)
  InvalidTrack     (* CDIO_INVALID_TRACK                                    *)

ASSUME DriveAssumption ==
  /\ MaxTracks \in Nat \ {0} /\ InvalidLsn \in Int /\ InvalidLsn < 0
  /\ InvalidTrack \in Nat /\ InvalidTrack > MaxTracks
  /\ MaxTracks < 256

-----------------------------------------------------------------------------
(* What libcdio answers about a disc, which is a record of its number of   *)
(* tracks, the number of the first, where they start, where the lead-out   *)
(* starts, and the numbers of those that are audio.                        *)

TrackLsn(disc, n) == IF n \in DOMAIN disc.start THEN disc.start[n] ELSE InvalidLsn

TrackLastLsn(disc, n) ==
  LET next == IF n + 1 \in DOMAIN disc.start THEN disc.start[n + 1] ELSE disc.leadout
  IN  IF n \notin DOMAIN disc.start \/ next = InvalidLsn THEN InvalidLsn ELSE next - 1

TrackAt(disc, lsn) ==
  LET begun == {n \in DOMAIN disc.start : disc.start[n] <= lsn}
  IN  IF begun = {} THEN 0 ELSE IF lsn >= disc.leadout THEN InvalidTrack ELSE Max(begun)

-----------------------------------------------------------------------------
(* The handle *)

Identified(device) ==
  [device |-> device, opened |-> FALSE, tracks |-> 0,
   toc |-> [i \in 1 .. MaxTracks |-> [track |-> 0, start |-> 0]], audio |-> {},
   first |-> 0, last |-> 0]

DriveType(devices) ==
  [device : devices, opened : BOOLEAN, tracks : 0 .. MaxTracks,
   toc : [1 .. MaxTracks -> [track : Nat, start : Int]], audio : SUBSET (1 .. MaxTracks),
   first : Int, last : Int]

Number(disc, i) == disc.first + i - 1
Indices(disc)   == 1 .. disc.tracks
Audio(disc)     == {i \in Indices(disc) : Number(disc, i) \in disc.audio}
Unknown(disc)   == {i \in Indices(disc) : TrackLsn(disc, Number(disc, i)) = InvalidLsn}

(* mutant: only a count of 0 is refused *)
NoTracksZero(disc) == disc.tracks = 0
NoTracks(disc) == disc.tracks \in {0, InvalidTrack}
HasToc(disc)  == ~NoTracks(disc) /\ disc.first # InvalidTrack
TocGood(disc) == HasToc(disc) /\ Unknown(disc) = {} /\ Audio(disc) # {}

(* what a pressed disc is like: its tracks are numbered from 1 or later    *)
(* and follow each other, no other number is audio, and the lead-out       *)
(* follows the last one; libcdio passes on what the drive says             *)
Ordered(disc) ==
  /\ disc.first # 0 /\ disc.audio \subseteq DOMAIN disc.start
  /\ DOMAIN disc.start = Number(disc, 1) .. Number(disc, disc.tracks)
  /\ \A m, n \in DOMAIN disc.start : m < n => disc.start[m] < disc.start[n]
  /\ \A n \in DOMAIN disc.start :
       InvalidLsn < disc.start[n] /\ (disc.leadout # InvalidLsn => disc.start[n] < disc.leadout)

(* the tracks before the first whose start is unknown are copied *)
Entries(d, disc) ==
  LET copied == {i \in Indices(disc) : \A j \in Unknown(disc) : i < j}
  IN  [d EXCEPT
        !.toc = [i \in DOMAIN d.toc |->
                   IF i \in copied
                   THEN [track |-> Number(disc, i), start |-> TrackLsn(disc, Number(disc, i))]
                   ELSE d.toc[i]],
        !.audio = (@ \ copied) \cup (Audio(disc) \cap copied)]

(* and if all were, the audio range; an unknown last sector is passed over *)
AudioFirst(disc) ==
  IF Audio(disc) = {} THEN 0 ELSE TrackLsn(disc, Number(disc, Min(Audio(disc))))
AudioLast(disc) ==
  Max({0} \cup ({TrackLastLsn(disc, Number(disc, i)) : i \in Audio(disc)} \ {InvalidLsn}))

(* read_toc: what it has written when it fails stays written *)
ReadToc(d, disc) ==
  IF NoTracks(disc) THEN d
  ELSE LET counted == [d EXCEPT !.tracks = disc.tracks]
           listed  == Entries(counted, disc)
       IN  IF disc.first = InvalidTrack THEN counted
           ELSE IF Unknown(disc) # {} THEN listed
           ELSE [listed EXCEPT !.first = AudioFirst(disc), !.last = AudioLast(disc)]

(* mutant: opened although the start of a track is unknown *)
OpenDriveAnyway(d, disc) ==
  IF d.opened THEN d
  ELSE [ReadToc(d, disc) EXCEPT !.opened = HasToc(disc) /\ Audio(disc) # {}]
OpenDrive(d, disc) ==
  IF d.opened THEN d ELSE [ReadToc(d, disc) EXCEPT !.opened = TocGood(disc)]

CloseDrive(d) == [d EXCEPT !.opened = FALSE]

(* read_audio asks for nothing else before it asks libcdio *)
Readable(d) == d.opened

-----------------------------------------------------------------------------
(* Questions about tracks; an error is -1 *)

IsTrack(d, t) == t # 0 /\ t <= d.tracks

TrackFirstSector(d, t) == IF IsTrack(d, t) THEN d.toc[t].start ELSE -1

(* mutant: the number is taken for the one libcdio counts from 0 *)
TrackLastSectorOfNext(d, disc, t) ==
  IF ~IsTrack(d, t) THEN -1 ELSE TrackLastLsn(disc, t + 1)
TrackLastSector(d, disc, t) ==
  IF ~IsTrack(d, t) THEN -1
  ELSE IF TrackLastLsn(disc, t) # InvalidLsn THEN TrackLastLsn(disc, t)
  ELSE IF t = d.tracks THEN d.last
  ELSE d.toc[t + 1].start - 1

SectorGetTrack(d, disc, lsn) ==
  LET begun == {i \in 1 .. d.tracks : lsn >= d.toc[i].start}
  IN  IF TrackAt(disc, lsn) # InvalidTrack THEN TrackAt(disc, lsn)
      ELSE IF begun = {} THEN -1
      ELSE d.toc[Max(begun)].track

TrackIsAudio(d, disc, t) == IsTrack(d, t) /\ t \in disc.audio
=============================================================================
