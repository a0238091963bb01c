-------------------------------- MODULE CApi --------------------------------
(***************************************************************************)
(* The C interface (src/ffi.rs) over the drive and the reader: one drive   *)
(* handle, one reader made from it, and a program that calls in any order  *)
(* the interface allows.  It frees the reader before the drive and passes  *)
(* no handle it has freed; a NULL handle is answered and changes nothing.  *)
(* Rust callers have two more operations: the drive's close, which keeps   *)
(* the handle, and with it opening a drive again.                          *)
(*                                                                         *)
(* A read is one step here: what ReadLoop does on the way is left open but *)
(* for the sectors it may leave in the root.  Each sector remembers which  *)
(* disc it was read from.                                                  *)
(***************************************************************************)
EXTENDS Drive

CONSTANTS
  Devices,         (* the drives libcdio lists, counted from 1              *)
  Discs,           (* discs that may lie in them                            *)
  Trays,           (* what lies in them at first                            *)
  Exchanged,       (* the discs one may be exchanged for                    *)
  Absent,          (* a device that does not answer                         *)
  IntLimit,        (* sector numbers are -IntLimit .. IntLimit - 1          *)
  Moves, Bounds,   (* what the program passes to seek and to set_range      *)
  NoDrive, NoReader (* NULL                                                 *)

ASSUME CApiAssumption ==
  /\ Devices \subseteq Nat \ {0} /\ Absent \notin Discs
  /\ Trays \subseteq [Devices -> Discs \cup {Absent}] /\ Exchanged \subseteq Discs
  /\ IntLimit \in Nat \ {0}
  /\ NoDrive \notin DriveType(Devices)
  /\ \A disc \in Discs :
       /\ disc.tracks \in 0 .. MaxTracks \cup {InvalidTrack} /\ disc.first \in Nat
       /\ \A n \in DOMAIN disc.start : disc.start[n] \in -IntLimit .. IntLimit - 1
       /\ disc.leadout \in Int
       /\ TocGood(disc) => Ordered(disc)
  /\ Moves \subseteq -IntLimit .. IntLimit - 1 /\ Bounds \subseteq -IntLimit .. IntLimit - 1

VARIABLES
  tray,            (* the disc in each device                               *)
  drive,           (* the drive handle                                      *)
  reader,          (* the reader: Paranoia                                  *)
  out,             (* what the last call answered, if it was a read         *)
  client,          (* who calls; "gone" after a panic, or when it is done   *)
  moved,           (* history: the drive's range may have changed since the *)
                   (* reader took its own from it                           *)
  swapped          (* history: the disc was exchanged since the last seek   *)

apiVars == <<tray, drive, reader, out, client, moved, swapped>>

NoFrame == [kind |-> "none", sector |-> 0, disc |-> Absent]

(* release builds wrap *)
Wrap(n)     == ((n + IntLimit) % (2 * IntLimit)) - IntLimit
Overflows(n) == Wrap(n) # n

Larger(a, b)  == IF a >= b THEN a ELSE b
Smaller(a, b) == IF a <= b THEN a ELSE b

ApiInit ==
  /\ tray \in Trays
  /\ drive = NoDrive /\ reader = NoReader /\ out = NoFrame
  /\ client = "program"
  /\ moved = FALSE /\ swapped = FALSE

Calls == client = "program"
HasDrive  == drive # NoDrive
HasReader == reader # NoReader
Disc == tray[drive.device]

-----------------------------------------------------------------------------
(* The drive *)

(* somebody exchanges the disc; not while the drive is open *)
ExchangeDisc(disc) ==
  /\ Calls /\ HasDrive /\ ~drive.opened /\ disc # Disc
  /\ tray' = [tray EXCEPT ![drive.device] = disc]
  /\ out' = NoFrame
  /\ swapped' = HasReader
  /\ UNCHANGED <<drive, reader, client, moved>>

Identify(device) ==
  /\ Calls /\ ~HasDrive /\ tray[device] # Absent
  /\ drive' = Identified(device)
  /\ out' = NoFrame
  /\ UNCHANGED <<tray, reader, client, moved, swapped>>

(* find_a_cdrom: the first that opens, and has audio *)
Usable(device) ==
  /\ tray[device] # Absent
  /\ LET d == OpenDrive(Identified(device), tray[device])
     IN  d.opened /\ d.tracks > 0 /\ d.audio # {}
(* mutant: the last *)
FindLastCdrom ==
  /\ Calls /\ ~HasDrive
  /\ \E device \in Devices :
       /\ Usable(device) /\ \A other \in Devices : Usable(other) => other <= device
       /\ drive' = OpenDrive(Identified(device), tray[device])
  /\ out' = NoFrame
  /\ UNCHANGED <<tray, reader, client, moved, swapped>>
FindACdrom ==
  /\ Calls /\ ~HasDrive
  /\ \E device \in Devices :
       /\ Usable(device) /\ \A other \in Devices : Usable(other) => device <= other
       /\ drive' = OpenDrive(Identified(device), tray[device])
  /\ out' = NoFrame
  /\ UNCHANGED <<tray, reader, client, moved, swapped>>

Open ==
  /\ Calls /\ HasDrive /\ Disc # Absent
  /\ drive' = OpenDrive(drive, Disc)
  /\ moved' = (moved \/ (HasReader /\ drive' # drive))
  /\ out' = NoFrame
  /\ UNCHANGED <<tray, reader, client, swapped>>

(* CdromDrive::close, by way of drive_mut *)
Close ==
  /\ Calls /\ HasDrive
  /\ drive' = CloseDrive(drive)
  /\ out' = NoFrame
  /\ UNCHANGED <<tray, reader, client, moved, swapped>>

(* cdio_cddap_close, with or without no_free_cdio, frees the handle *)
CddapClose ==
  /\ Calls /\ HasDrive /\ ~HasReader
  /\ drive' = NoDrive /\ out' = NoFrame
  /\ UNCHANGED <<tray, reader, client, moved, swapped>>

-----------------------------------------------------------------------------
(* The reader *)

FrameAt(sector) == [kind |-> "frame", sector |-> sector, disc |-> Disc]

(* mutant: the last sector is taken for the first that is not audio *)
NewReaderShort(d) ==
  [first |-> d.first, last |-> d.last - 1, cursor |-> d.first,
   verify |-> TRUE, skip |-> TRUE, root |-> <<>>]
NewReader(d) ==
  [first |-> d.first, last |-> d.last, cursor |-> d.first,
   verify |-> TRUE, skip |-> TRUE, root |-> <<>>]

WithMode(r, verify, neverskip) == [r EXCEPT !.verify = verify, !.skip = ~neverskip]

ParanoiaInit ==
  /\ Calls /\ HasDrive /\ ~HasReader
  /\ reader' = NewReader(drive)
  /\ out' = NoFrame /\ moved' = FALSE /\ swapped' = FALSE
  /\ UNCHANGED <<tray, drive, client>>

ParanoiaFree ==
  /\ Calls /\ HasReader
  /\ reader' = NoReader
  /\ out' = NoFrame /\ moved' = FALSE /\ swapped' = FALSE
  /\ UNCHANGED <<tray, drive, client>>

(* mode 0 reads directly; every other flag but NEVERSKIP verifies *)
ModeSet(verify, neverskip) ==
  /\ Calls /\ HasReader
  /\ neverskip => verify
  /\ reader' = WithMode(reader, verify, neverskip)
  /\ out' = NoFrame
  /\ UNCHANGED <<tray, drive, client, moved, swapped>>

(* set_range; the root stays.  Mutant: the end is not cut to the disc *)
InRange(r, first, last) ==
  [r EXCEPT !.first = first, !.last = last,
            !.cursor = IF first <= @ /\ @ <= last THEN @ ELSE first]
CutToDiscAtStart(r, d, start, end) == InRange(r, Larger(start, d.first), end)
CutToDisc(r, d, start, end) == InRange(r, Larger(start, d.first), Smaller(end, d.last))

SetRange(start, end) ==
  /\ Calls /\ HasReader
  /\ reader' = CutToDisc(reader, drive, start, end)
  /\ out' = NoFrame /\ moved' = FALSE
  /\ UNCHANGED <<tray, drive, client, swapped>>

SeekFrom(r, whence) ==
  CASE whence = "SEEK_SET" -> r.first
    [] whence = "SEEK_CUR" -> r.cursor
    [] whence = "SEEK_END" -> r.last
Clamp(n, low, high) == Larger(low, Smaller(n, high))
(* mutant: the root survives *)
SeekToKeepingRoot(r, n) == [r EXCEPT !.cursor = Clamp(Wrap(n), r.first, r.last)]
SeekTo(r, n) == [r EXCEPT !.cursor = Clamp(Wrap(n), r.first, r.last), !.root = <<>>]

Seek(n, whence) ==
  /\ Calls /\ HasReader /\ reader.first <= reader.last
  /\ reader' = SeekTo(reader, SeekFrom(reader, whence) + n)
  /\ out' = NoFrame /\ swapped' = FALSE
  /\ UNCHANGED <<tray, drive, client, moved>>

(* clamp between crossed ends panics; so does a sum too large in a debug build *)
SeekPanics(n, whence) ==
  /\ Calls /\ HasReader
  /\ reader.first > reader.last \/ Overflows(SeekFrom(reader, whence) + n)
  /\ client' = "gone" /\ out' = NoFrame
  /\ UNCHANGED <<tray, drive, reader, moved, swapped>>

-----------------------------------------------------------------------------
(* One call of cdio_paranoia_read_limited; NULL is "error" *)

Advanced == [reader EXCEPT !.cursor = @ + 1]

ReadBeyond ==
  /\ reader.cursor > reader.last
  /\ out' = [kind |-> "error", sector |-> reader.cursor, disc |-> Absent]
  /\ UNCHANGED reader

ReadFromRoot ==
  /\ reader.cursor <= reader.last
  /\ reader.verify /\ reader.cursor \in DOMAIN reader.root
  /\ out' = [kind |-> "frame", sector |-> reader.cursor, disc |-> reader.root[reader.cursor]]
  /\ reader' = Advanced

RootWith(upto) ==
  LET batch == reader.cursor .. upto IN
    [s \in batch \cup DOMAIN reader.root |-> IF s \in batch THEN Disc ELSE reader.root[s]]

(* the batch went to the root, up to a sector of it, or the frame came     *)
(* from a read of its own                                                  *)
ReadFromDrive(upto) ==
  /\ reader.cursor <= reader.last
  /\ ~(reader.verify /\ reader.cursor \in DOMAIN reader.root)
  /\ Readable(drive)
  /\ out' = FrameAt(reader.cursor)
  /\ \/ reader' = Advanced
     \/ /\ reader.verify /\ upto \in reader.cursor .. reader.last
        /\ reader' = [Advanced EXCEPT !.root = RootWith(upto)]

(* a drive that is not open refuses every read, and any drive may fail *)
ReadFails ==
  /\ reader.cursor <= reader.last
  /\ ~(reader.verify /\ reader.cursor \in DOMAIN reader.root)
  /\ out' = [kind |-> IF reader.skip THEN "silence" ELSE "error",
             sector |-> reader.cursor, disc |-> Absent]
  /\ reader' = IF reader.skip THEN Advanced ELSE reader

ReadLimited ==
  \/ ReadBeyond \/ ReadFromRoot \/ ReadFails
  \/ \E upto \in {reader.cursor, reader.last} : ReadFromDrive(upto)

Read ==
  /\ Calls /\ HasReader
  /\ ReadLimited
  /\ UNCHANGED <<tray, drive, client, moved, swapped>>

-----------------------------------------------------------------------------
(* The questions a C program asks; track numbers are cut to 8 bits, and    *)
(* without a drive the answer is -1, or 0                                  *)

Byte(n) == n % 256

CddapTracks == IF HasDrive THEN drive.tracks ELSE 0
CddapTrackFirstSector(t) == IF HasDrive THEN TrackFirstSector(drive, Byte(t)) ELSE -1
CddapTrackLastSector(t) == IF HasDrive THEN TrackLastSector(drive, Disc, Byte(t)) ELSE -1
CddapSectorGetTrack(lsn) == IF HasDrive THEN SectorGetTrack(drive, Disc, lsn) ELSE -1
CddapTrackAudioP(t) == HasDrive /\ TrackIsAudio(drive, Disc, Byte(t))
CddapDiscFirstSector == IF HasDrive THEN drive.first ELSE -1
CddapDiscLastSector  == IF HasDrive THEN drive.last ELSE -1

-----------------------------------------------------------------------------
ApiNext ==
  \/ \E disc \in Exchanged : ExchangeDisc(disc)
  \/ \E device \in Devices : Identify(device)
  \/ FindACdrom \/ Open \/ Close \/ CddapClose
  \/ ParanoiaInit \/ ParanoiaFree \/ Read
  \/ \E verify, neverskip \in BOOLEAN : ModeSet(verify, neverskip)
  \/ \E start, end \in Bounds : SetRange(start, end)
  \/ \E n \in Moves, whence \in {"SEEK_SET", "SEEK_CUR", "SEEK_END"} :
       Seek(n, whence) \/ SeekPanics(n, whence)

-----------------------------------------------------------------------------
(* Properties *)

ReaderShape(r) ==
  r \in [first : Int, last : Int, cursor : Int, verify : BOOLEAN, skip : BOOLEAN,
         root : {r.root}]

RootTyped(r) ==
  /\ DOMAIN r.root \subseteq Int
  /\ \A s \in DOMAIN r.root : r.root[s] \in Discs

CursorInRange(r) ==
  \/ r.cursor \in r.first .. r.last + 1
  \/ r.first > r.last /\ r.cursor = r.first

Sound(disc) == disc.first = 1 /\ disc.leadout # InvalidLsn
SectorsOf(disc, t) == TrackLsn(disc, t) .. TrackLastLsn(disc, t)

(* Whatever was opened, failed to open, closed and opened again before, an *)
(* open drive has the table of contents and the audio range of the disc in *)
(* it: no entry is left from a disc that was read before, and the range is *)
(* the hull of the audio tracks whose last sector is known (read_toc).     *)
TocOfDisc ==
  HasDrive /\ drive.opened =>
    LET audio == Audio(Disc)
    IN  /\ drive.tracks = Disc.tracks
        /\ \A i \in Indices(Disc) :
             drive.toc[i] = [track |-> Number(Disc, i), start |-> TrackLsn(Disc, Number(Disc, i))]
        /\ drive.audio \cap Indices(Disc) = audio
        /\ \A i \in audio : SectorsOf(Disc, Number(Disc, i)) \subseteq drive.first .. drive.last
        /\ \E i \in audio : drive.first = drive.toc[i].start
        /\ drive.last # 0 => \E i \in audio : drive.last = TrackLastLsn(Disc, Number(Disc, i))

(* On a disc that counts from 1 and whose end is known, the answers about  *)
(* tracks agree, though some come from the copied table and some from      *)
(* libcdio: each track begins and ends where track_firstsector and         *)
(* track_lastsector say, sector_gettrack finds it at each of its sectors,  *)
(* and no two tracks share one.                                            *)
TracksAgree ==
  HasDrive /\ drive.opened /\ Sound(Disc) =>
    \A t \in 1 .. CddapTracks :
      LET begin == CddapTrackFirstSector(t)
          end   == CddapTrackLastSector(t)
      IN  /\ begin <= end
          /\ \A s \in begin .. end : CddapSectorGetTrack(s) = t
          /\ CddapTrackAudioP(t) =>
               CddapDiscFirstSector <= begin /\ end <= CddapDiscLastSector
          /\ CddapTrackAudioP(t) <=> t \in drive.audio

(* The reader's range is part of the drive's unless the drive was opened   *)
(* after the reader took it: init copies the range, set_range cuts what it *)
(* is given, and nothing brings it up to date when the drive is opened     *)
(* later (ffi.rs, cdio_paranoia_init).  The cursor stays in the range or   *)
(* one past it, even where the sum in seek wraps.                          *)
RangeOnDisc ==
  HasReader =>
    /\ moved \/ (reader.first >= drive.first /\ reader.last <= drive.last)
    /\ CursorInRange(reader)

(* A frame is one of the disc in the drive, unless the disc was exchanged  *)
(* and the reader not sought since: a seek is enough to forget everything  *)
(* that was read from the disc before.                                     *)
FramesOfDisc ==
  HasDrive /\ out.kind = "frame" /\ ~swapped => out.disc = Disc

(* find_a_cdrom returns an open drive with audio, and passes over none     *)
(* that it could have returned.                                            *)
FindsFirst ==
  [][client' = client /\ ~HasDrive /\ drive' # NoDrive /\ drive'.opened =>
       /\ drive'.audio # {}
       /\ \A device \in Devices :
            tray[device] # Absent /\ TocGood(tray[device]) => drive'.device <= device]_apiVars
=============================================================================
