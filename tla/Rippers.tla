------------------------------ MODULE Rippers ------------------------------
(***************************************************************************)
(* The two programs of examples/ that copy a track to a file: cdtest.rs,   *)
(* over the Rust interface, and rip_track.c, over the C one.  Both seek to *)
(* the track's first sector, counted from the first audio sector, and read *)
(* frame by frame; cdtest until the reader's cursor has passed the track's *)
(* last sector, whatever is answered, rip_track for as many frames as the  *)
(* track has, or until a read fails.                                       *)
(***************************************************************************)
EXTENDS CApi, Sequences

VARIABLE rip       (* the copy in progress                                  *)

vars == <<apiVars, rip>>

NoRip == [phase |-> "none", track |-> 0, last |-> 0, promised |-> 0, written |-> <<>>]

Init ==
  /\ ApiInit /\ rip = NoRip
ProgramNext == ApiNext /\ UNCHANGED rip

(* the drive is opened and the program runs on its own from there *)
Begin(who, device, verify) ==
  /\ Calls /\ ~HasDrive /\ ~HasReader /\ tray[device] # Absent
  /\ LET opened == OpenDrive(Identified(device), tray[device])
     IN  /\ opened.opened
         /\ drive' = opened
         /\ reader' = WithMode(NewReader(opened), verify, verify)
  /\ client' = who /\ out' = NoFrame
  /\ UNCHANGED <<tray, moved, swapped>>

(* cdtest reads a frame without verification first *)
StartCdtest(device) ==
  /\ Begin("cdtest", device, FALSE)
  /\ rip' = [NoRip EXCEPT !.phase = "test"]

TestRead ==
  /\ client = "cdtest" /\ rip.phase = "test"
  /\ ReadLimited
  /\ rip' = [rip EXCEPT !.phase = "ready"]
  /\ UNCHANGED <<tray, drive, client, moved, swapped>>

(* mutant: the sector is given as it is *)
TrackStartAbsolute(t) == TrackFirstSector(drive, t)
TrackStart(t) == TrackFirstSector(drive, t) - drive.first

(* the mode is FULL, which includes NEVERSKIP *)
Prepare(t) ==
  LET first == TrackFirstSector(drive, t)
      last  == TrackLastSector(drive, Disc, t)
  IN  /\ reader' = WithMode(SeekTo(reader, reader.first + TrackStart(t)), TRUE, TRUE)
      /\ rip' = [NoRip EXCEPT !.phase = "copying", !.track = t, !.last = last,
                              !.promised = last - first + 1]

StartRipTrack(device) ==
  /\ Begin("rip_track", device, TRUE)
  /\ rip' = [NoRip EXCEPT !.phase = "ready"]

(* rip_track does not ask whether the track is audio *)
Chosen(t) ==
  /\ rip.phase = "ready" /\ IsTrack(drive, t)
  /\ client = "cdtest" => TrackIsAudio(drive, Disc, t)

StartCopy(t) ==
  /\ Chosen(t) /\ reader.first <= reader.last
  /\ Prepare(t)
  /\ UNCHANGED <<tray, drive, out, client, moved, swapped>>

(* the seek clamps between crossed ends: the only audio track has no known end *)
CopyPanics(t) ==
  /\ Chosen(t) /\ reader.first > reader.last
  /\ client' = "gone" /\ rip' = [rip EXCEPT !.phase = "broken"]
  /\ UNCHANGED <<tray, drive, reader, out, moved, swapped>>

More ==
  IF client = "cdtest" THEN reader.cursor <= rip.last ELSE Len(rip.written) < rip.promised

Copy ==
  /\ rip.phase = "copying" /\ More
  /\ ReadLimited
  /\ rip' = CASE out'.kind # "error"      -> [rip EXCEPT !.written = Append(@, out')]
              [] client = "rip_track"     -> [rip EXCEPT !.phase = "broken"]
              [] OTHER                    -> rip
  /\ UNCHANGED <<tray, drive, client, moved, swapped>>

Finish ==
  /\ rip.phase = "copying" /\ ~More
  /\ rip' = [rip EXCEPT !.phase = "done"]
  /\ UNCHANGED apiVars

Next ==
  \/ ProgramNext
  \/ \E device \in Devices : StartCdtest(device) \/ StartRipTrack(device)
  \/ \E t \in 1 .. MaxTracks : StartCopy(t) \/ CopyPanics(t)
  \/ TestRead \/ Copy \/ Finish

Spec == Init /\ [][Next]_vars

(* the programs go on, and no sector fails for ever *)
FrameCopied == Copy /\ out'.kind # "error"
Fairness == WF_vars(Finish) /\ SF_vars(FrameCopied)
FairSpec == Spec /\ Fairness

-----------------------------------------------------------------------------
TypeOK ==
  /\ tray \in [Devices -> Discs \cup {Absent}]
  /\ HasDrive => drive \in DriveType(Devices)
  /\ HasReader => ReaderShape(reader) /\ RootTyped(reader)
  /\ out.kind \in {"none", "frame", "silence", "error"}
  /\ client \in {"program", "cdtest", "rip_track", "gone"}
  /\ moved \in BOOLEAN /\ swapped \in BOOLEAN
  /\ rip.phase \in {"none", "test", "ready", "copying", "broken", "done"}

(* A file that was finished holds the track: as many frames as its header  *)
(* promises, each of the disc, those from where the table of contents says *)
(* the track begins to where it ends, in order and none of them silence    *)
(* (cdtest.rs and rip_track.c, over everything seek and read do).  This is *)
(* said of audio tracks of discs that count from 1 and whose end is known. *)
FileHoldsTrack ==
  rip.phase = "done" /\ Sound(Disc) /\ rip.track \in Disc.audio =>
    /\ Len(rip.written) = rip.promised
    /\ rip.promised = Cardinality(SectorsOf(Disc, rip.track))
    /\ \A i \in DOMAIN rip.written :
         rip.written[i] = FrameAt(TrackLsn(Disc, rip.track) + i - 1)

(* cdtest, which goes on after every error, never asks for a frame past    *)
(* the reader's range, where every read would be refused: its track ends   *)
(* within the range that was made from all audio tracks, on any disc, also *)
(* where libcdio does not know the track's end or counts from another one. *)
NeverRefused ==
  rip.phase = "copying" /\ client = "cdtest" /\ More => reader.cursor <= reader.last

(* A copy ends, unless some sector fails for ever: no track reaches beyond *)
(* the range that the reader took from the drive, where every read would   *)
(* be refused while cdtest keeps asking.                                   *)
CopiesEnd == rip.phase = "copying" ~> rip.phase \in {"broken", "done"}
=============================================================================
