--------------------------- MODULE RippersProofs ---------------------------
(***************************************************************************)
(* Type correctness of the drive, the reader and the programs over them,   *)
(* and that ranges and frames belong to the disc, for every set of discs   *)
(* and every way they are exchanged.                                       *)
(***************************************************************************)
EXTENDS Rippers, Induction, FiniteSetTheorems

DriveOK == drive \in DriveType(Devices) /\ Disc \in Discs

(* what holds of the reader, and of it with the drive *)
ReaderOK ==
  /\ ReaderShape(reader) /\ CursorInRange(reader) /\ RootTyped(reader)
  /\ moved \/ (reader.first >= drive.first /\ reader.last <= drive.last)
  /\ swapped \/ (\A s \in DOMAIN reader.root : reader.root[s] = Disc)

OutOK ==
  /\ out.kind \in {"none", "frame", "silence", "error"}
  /\ out.kind = "frame" /\ ~swapped => out.disc = Disc

RipOK ==
  /\ rip \in [phase : {"none", "test", "ready", "copying", "broken", "done"},
             track : {rip.track}, last : {rip.last}, promised : {rip.promised},
             written : {rip.written}]
  /\ client = "program" => rip.phase = "none"
  /\ client = "gone" => rip.phase \notin {"test", "ready", "copying"}
  /\ rip.phase \in {"test", "ready", "copying"} => ReaderOK /\ DriveOK

IInv ==
  /\ tray \in [Devices -> Discs \cup {Absent}]
  /\ drive = NoDrive \/ DriveOK
  /\ reader = NoReader \/ (ReaderOK /\ DriveOK)
  /\ OutOK /\ RipOK
  /\ client \in {"program", "cdtest", "rip_track", "gone"}
  /\ moved \in BOOLEAN /\ swapped \in BOOLEAN

-----------------------------------------------------------------------------
(* Reading a table of contents keeps the handle's type and its device, and *)
(* a drive that does not answer cannot be opened.                          *)
LEMMA IdentifiedTyped ==
  ASSUME NEW device \in Devices
  PROVE  Identified(device) \in DriveType(Devices)
BY DriveAssumption DEF Identified, DriveType

(* The largest number of a set that has a bound, the least of a set of     *)
(* natural numbers.                                                        *)
LEMMA MaxOf ==
  ASSUME NEW S \in SUBSET Int, S # {}, NEW bound \in Int, \A x \in S : x <= bound
  PROVE  Max(S) \in S /\ \A x \in S : x <= Max(S)
<1>1. \E m \in S : \A x \in S : m >= x
  BY GreatestOfBounded
<1>2. Max(S) \in S /\ \A x \in S : Max(S) >= x
  BY <1>1 DEF Max
<1> QED BY <1>2

LEMMA MinOf ==
  ASSUME NEW S \in SUBSET Nat, S # {}
  PROVE  Min(S) \in S /\ \A x \in S : Min(S) <= x
  BY LeastNatural DEF Min

LEMMA DiscTyped ==
  ASSUME NEW disc \in Discs
  PROVE  /\ disc.tracks \in Nat /\ disc.first \in Nat /\ disc.leadout \in Int
         /\ \A n : TrackLsn(disc, n) \in Int /\ TrackLastLsn(disc, n) \in Int
         /\ Audio(disc) \in SUBSET Nat
         /\ AudioFirst(disc) \in Int
<1>1. disc.tracks \in Nat /\ disc.first \in Nat /\ disc.leadout \in Int
  BY CApiAssumption, DriveAssumption
<1>2. \A n : TrackLsn(disc, n) \in Int
  BY CApiAssumption, DriveAssumption DEF TrackLsn
<1>3. \A n : TrackLastLsn(disc, n) \in Int
  <2> SUFFICES ASSUME NEW n PROVE TrackLastLsn(disc, n) \in Int
    OBVIOUS
  <2> DEFINE next == IF n + 1 \in DOMAIN disc.start THEN disc.start[n + 1] ELSE disc.leadout
  <2>1. next \in Int
    BY <1>1, CApiAssumption
  <2>2. TrackLastLsn(disc, n) = IF n \notin DOMAIN disc.start \/ next = InvalidLsn
                                THEN InvalidLsn ELSE next - 1
    BY DEF TrackLastLsn
  <2> HIDE DEF next
  <2> QED BY <2>1, <2>2, DriveAssumption
<1>4. Audio(disc) \in SUBSET Nat
  BY <1>1 DEF Audio, Indices
<1> QED BY <1>1, <1>2, <1>3, <1>4 DEF AudioFirst

(* The last audio sector is the largest that is known of an audio track.   *)
LEMMA AudioLastOf ==
  ASSUME NEW disc \in Discs
  PROVE  /\ AudioLast(disc) \in Int
         /\ \A i \in Audio(disc) : TrackLastLsn(disc, Number(disc, i)) # InvalidLsn =>
              TrackLastLsn(disc, Number(disc, i)) <= AudioLast(disc)
         /\ AudioLast(disc) # 0 =>
              \E i \in Audio(disc) : AudioLast(disc) = TrackLastLsn(disc, Number(disc, i))
<1> DEFINE End(i) == TrackLastLsn(disc, Number(disc, i))
           S == {0} \cup ({End(i) : i \in Audio(disc)} \ {InvalidLsn})
           f == [i \in 0 .. disc.tracks - 1 |-> End(i + 1)]
<1>1. disc.tracks \in Nat /\ \A i : End(i) \in Int
  BY DiscTyped
<1>2. PICK bound \in Nat : \A i \in 0 .. disc.tracks - 1 : f[i] <= bound
  <2>1. \A i \in 0 .. disc.tracks - 1 : f[i] \in Int
    BY <1>1
  <2> HIDE DEF f
  <2> QED BY <1>1, <2>1, ValuesBounded
<1>3. ASSUME NEW i \in Audio(disc) PROVE End(i) <= bound
  <2>1. i \in 1 .. disc.tracks
    BY DEF Audio, Indices
  <2>2. i - 1 \in 0 .. disc.tracks - 1 /\ i - 1 + 1 = i
    BY <1>1, <2>1
  <2>3. f[i - 1] = End(i)
    BY <2>2
  <2> QED BY <1>2, <2>2, <2>3
<1>4. S \in SUBSET Int /\ S # {} /\ 0 \in S /\ bound \in Int /\ \A x \in S : x <= bound
  BY <1>1, <1>2, <1>3
<1>5. AudioLast(disc) = Max(S)
  BY DEF AudioLast
<1>6. Max(S) \in S /\ \A x \in S : x <= Max(S)
  <2> HIDE DEF S, f
  <2> QED BY <1>4, MaxOf
<1>7. /\ \A i \in Audio(disc) : End(i) # InvalidLsn => End(i) \in S
      /\ \A x \in S : x # 0 => \E i \in Audio(disc) : x = End(i)
  OBVIOUS
<1> HIDE DEF S, f
<1> QED BY <1>4, <1>5, <1>6, <1>7

LEMMA EntriesTyped ==
  ASSUME NEW d \in DriveType(Devices), NEW disc \in Discs, d.tracks = disc.tracks
  PROVE  Entries(d, disc) \in DriveType(Devices)
<1> DEFINE copied == {i \in Indices(disc) : \A j \in Unknown(disc) : i < j}
           toc == [i \in DOMAIN d.toc |->
                     IF i \in copied
                     THEN [track |-> Number(disc, i), start |-> TrackLsn(disc, Number(disc, i))]
                     ELSE d.toc[i]]
           audio == (d.audio \ copied) \cup (Audio(disc) \cap copied)
<1>1. disc.first \in Nat /\ d.tracks \in 0 .. MaxTracks /\ MaxTracks \in Nat
  BY CApiAssumption, DriveAssumption DEF DriveType
<1>2. copied \subseteq 1 .. MaxTracks
  BY <1>1 DEF Indices
<1>3. \A n : TrackLsn(disc, n) \in Int
  BY CApiAssumption, DriveAssumption DEF TrackLsn
<1>4. \A i \in copied : Number(disc, i) \in Nat
  BY <1>1, <1>2 DEF Number
<1>5. toc \in [1 .. MaxTracks -> [track : Nat, start : Int]]
  BY <1>2, <1>3, <1>4 DEF DriveType
<1>6. audio \in SUBSET (1 .. MaxTracks)
  BY <1>2 DEF DriveType
<1>7. Entries(d, disc) = [d EXCEPT !.toc = toc, !.audio = audio]
  BY DEF Entries
<1> HIDE DEF toc, audio, copied
<1> QED BY <1>5, <1>6, <1>7 DEF DriveType

LEMMA ReadTocTyped ==
  ASSUME NEW d \in DriveType(Devices), NEW disc \in Discs
  PROVE  /\ ReadToc(d, disc) \in DriveType(Devices)
         /\ ReadToc(d, disc).device = d.device
<1> DEFINE counted == [d EXCEPT !.tracks = disc.tracks]
           listed == Entries(counted, disc)
<1>1. CASE NoTracks(disc)
  BY <1>1 DEF ReadToc
<1>2. CASE ~NoTracks(disc)
  <2>1. disc.tracks \in 0 .. MaxTracks
    BY <1>2, CApiAssumption DEF NoTracks
  <2>2. counted \in DriveType(Devices) /\ counted.tracks = disc.tracks /\ counted.device = d.device
    BY <2>1 DEF DriveType
  <2>3. listed \in DriveType(Devices)
    BY <2>2, EntriesTyped
  <2>4. listed.device = d.device
    BY <2>2 DEF Entries, DriveType
  <2>5. AudioFirst(disc) \in Int /\ AudioLast(disc) \in Int
    BY DiscTyped, AudioLastOf
  <2>6. ReadToc(d, disc) \in
          {counted, listed, [listed EXCEPT !.first = AudioFirst(disc), !.last = AudioLast(disc)]}
    BY <1>2 DEF ReadToc
  <2> HIDE DEF counted, listed
  <2> QED BY <2>2, <2>3, <2>4, <2>5, <2>6 DEF DriveType
<1> QED BY <1>1, <1>2

LEMMA OpenTyped ==
  ASSUME NEW d \in DriveType(Devices), NEW disc \in Discs
  PROVE  /\ OpenDrive(d, disc) \in DriveType(Devices)
         /\ OpenDrive(d, disc).device = d.device
<1>1. TocGood(disc) \in BOOLEAN
  BY DEF TocGood, HasToc, NoTracks
<1> QED BY <1>1, ReadTocTyped DEF OpenDrive, DriveType

(* The readers that the operations make *)
LEMMA NewReaderOK ==
  ASSUME NEW d \in DriveType(Devices), NEW r, r = NewReader(d)
  PROVE  /\ ReaderShape(r) /\ CursorInRange(r)
         /\ r.root = <<>> /\ r.first = d.first /\ r.last = d.last
BY DEF NewReader, ReaderShape, CursorInRange, DriveType

LEMMA WrapInt ==
  ASSUME NEW n \in Int
  PROVE  Wrap(n) \in Int
<1>1. n + IntLimit \in Int /\ 2 * IntLimit \in Nat \ {0}
  BY CApiAssumption
<1>2. (n + IntLimit) % (2 * IntLimit) \in Int
  BY <1>1
<1> QED BY <1>2, CApiAssumption DEF Wrap

LEMMA SeekToOK ==
  ASSUME NEW r, ReaderShape(r), r.first <= r.last, NEW n \in Int
  PROVE  /\ ReaderShape(SeekTo(r, n)) /\ CursorInRange(SeekTo(r, n))
         /\ SeekTo(r, n).root = <<>>
         /\ SeekTo(r, n).first = r.first /\ SeekTo(r, n).last = r.last
<1> DEFINE c == Clamp(Wrap(n), r.first, r.last)
<1>1. c \in r.first .. r.last
  BY WrapInt DEF ReaderShape, Clamp, Larger, Smaller
<1>2. c \in Int
  BY <1>1 DEF ReaderShape
<1>3. /\ SeekTo(r, n) \in [first : Int, last : Int, cursor : Int, verify : BOOLEAN,
                         skip : BOOLEAN, root : {<<>>}]
      /\ SeekTo(r, n).first = r.first /\ SeekTo(r, n).last = r.last
      /\ SeekTo(r, n).cursor = c
  BY <1>2 DEF ReaderShape, SeekTo
<1> HIDE DEF c
<1> QED BY <1>1, <1>3 DEF ReaderShape, CursorInRange

LEMMA WithModeOK ==
  ASSUME NEW r, ReaderShape(r), NEW verify \in BOOLEAN, NEW neverskip \in BOOLEAN,
         NEW m, m = WithMode(r, verify, neverskip)
  PROVE  /\ ReaderShape(m)
         /\ CursorInRange(r) => CursorInRange(m)
         /\ m.root = r.root /\ m.first = r.first /\ m.last = r.last
<1>1. /\ m \in [first : Int, last : Int, cursor : Int, verify : BOOLEAN, skip : BOOLEAN,
              root : {r.root}]
      /\ m.first = r.first /\ m.last = r.last /\ m.cursor = r.cursor
  BY DEF ReaderShape, WithMode
<1>2. m.root = r.root
  BY <1>1
<1> QED BY <1>1, <1>2 DEF ReaderShape, CursorInRange

LEMMA CutToDiscOK ==
  ASSUME NEW r, ReaderShape(r), NEW d \in DriveType(Devices), NEW start \in Int,
         NEW end \in Int, NEW c, c = CutToDisc(r, d, start, end)
  PROVE  /\ ReaderShape(c) /\ CursorInRange(c) /\ c.root = r.root
         /\ c.first >= d.first /\ c.last <= d.last
<1> DEFINE first == Larger(start, d.first)
           last  == Smaller(end, d.last)
           cursor == IF first <= r.cursor /\ r.cursor <= last THEN r.cursor ELSE first
<1>1. /\ first \in Int /\ last \in Int /\ first >= d.first /\ last <= d.last
      /\ cursor \in Int
      /\ \/ cursor \in first .. last + 1
         \/ first > last /\ cursor = first
  BY DEF ReaderShape, DriveType, Larger, Smaller
<1>2. /\ c \in [first : Int, last : Int, cursor : Int, verify : BOOLEAN, skip : BOOLEAN,
              root : {r.root}]
      /\ c.first = first /\ c.last = last /\ c.cursor = cursor
  BY <1>1 DEF ReaderShape, CutToDisc, InRange
<1> HIDE DEF first, last, cursor
<1> QED BY <1>1, <1>2 DEF ReaderShape, CursorInRange

LEMMA AdvancedOK ==
  ASSUME ReaderShape(reader), CursorInRange(reader), reader.cursor <= reader.last
  PROVE  /\ ReaderShape(Advanced) /\ CursorInRange(Advanced) /\ Advanced.root = reader.root
         /\ Advanced.first = reader.first /\ Advanced.last = reader.last
<1>1. /\ Advanced \in [first : Int, last : Int, cursor : Int, verify : BOOLEAN,
                      skip : BOOLEAN, root : {reader.root}]
      /\ Advanced.first = reader.first /\ Advanced.last = reader.last
      /\ Advanced.cursor = reader.cursor + 1
  BY DEF ReaderShape, Advanced
<1> QED BY <1>1 DEF ReaderShape, CursorInRange

-----------------------------------------------------------------------------
(* One read, by whoever makes it                                           *)
LEMMA ReadKeeps ==
  ASSUME ReaderOK, DriveOK, swapped \in BOOLEAN, ReadLimited,
         UNCHANGED <<tray, drive, moved, swapped>>
  PROVE  ReaderOK' /\ OutOK'
<1>1. CASE ReadBeyond
  BY <1>1 DEF ReadBeyond, ReaderOK, OutOK, NoFrame, ReaderShape, CursorInRange, RootTyped, Disc
<1>2. CASE ReadFails
  <2>1. out'.kind \in {"silence", "error"}
    BY <1>2, SMT DEF ReadFails, NoFrame, ReaderOK, ReaderShape
  <2>2. OutOK'
    BY <2>1 DEF OutOK
  <2>3. CASE reader' = Advanced
    BY <1>2, <2>2, <2>3, AdvancedOK DEF ReadFails, ReaderOK, RootTyped, Disc
  <2>4. CASE reader' = reader
    BY <2>2, <2>4 DEF ReaderOK, ReaderShape, CursorInRange, RootTyped, Disc
  <2> QED BY <1>2, <2>3, <2>4 DEF ReadFails
<1>3. CASE ReadFromRoot
  <2>1. ReaderOK'
    BY <1>3, AdvancedOK DEF ReadFromRoot, ReaderOK, RootTyped, Disc
  <2>2. OutOK'
    BY <1>3 DEF ReadFromRoot, ReaderOK, OutOK, Disc
  <2> QED BY <2>1, <2>2
<1>4. ASSUME NEW upto \in {reader.cursor, reader.last}, ReadFromDrive(upto)
      PROVE  ReaderOK' /\ OutOK'
  <2>1. OutOK'
    BY <1>4 DEF ReadFromDrive, OutOK, FrameAt, Disc
  <2>2. CASE reader' = Advanced
    BY <1>4, <2>1, <2>2, AdvancedOK DEF ReadFromDrive, ReaderOK, RootTyped, Disc
  <2>3. CASE reader' # Advanced
    <3> DEFINE root == RootWith(upto)
    <3>1. reader' = [Advanced EXCEPT !.root = root] /\ reader.cursor <= reader.last
      BY <1>4, <2>3 DEF ReadFromDrive
    <3>2. /\ DOMAIN root = (reader.cursor .. upto) \cup DOMAIN reader.root
          /\ \A s \in DOMAIN root : root[s] = Disc \/ (s \in DOMAIN reader.root /\ root[s] = reader.root[s])
      BY DEF RootWith
    <3>3. reader.cursor \in Int /\ upto \in Int
      BY <1>4 DEF ReaderOK, ReaderShape
    <3> HIDE DEF root
    <3>4. /\ reader' \in [first : Int, last : Int, cursor : Int, verify : BOOLEAN,
                         skip : BOOLEAN, root : {root}]
          /\ reader'.first = Advanced.first /\ reader'.last = Advanced.last
          /\ reader'.cursor = Advanced.cursor
      BY <3>1, AdvancedOK DEF ReaderOK, ReaderShape
    <3>5. ReaderShape(reader') /\ CursorInRange(reader')
      BY <3>1, <3>4, AdvancedOK DEF ReaderOK, ReaderShape, CursorInRange
    <3>6. RootTyped(reader')
      BY <3>2, <3>3, <3>4 DEF ReaderOK, RootTyped, DriveOK
    <3>7. reader'.first = reader.first /\ reader'.last = reader.last
      BY <3>1, <3>4, AdvancedOK DEF ReaderOK
    <3>8. swapped' \/ \A s \in DOMAIN reader'.root : reader'.root[s] = Disc'
      BY <3>2, <3>4 DEF ReaderOK, Disc
    <3>9. ReaderOK'
      BY <3>5, <3>6, <3>7, <3>8 DEF ReaderOK
    <3> QED BY <2>1, <3>9
  <2> QED BY <2>2, <2>3
<1> QED BY <1>1, <1>2, <1>3, <1>4 DEF ReadLimited
-----------------------------------------------------------------------------
(* The invariant: true at first, ...                                       *)
LEMMA InitOK ==
  Init => IInv
<1> SUFFICES ASSUME Init PROVE IInv
  OBVIOUS
<1>1. OutOK
  BY DEF Init, ApiInit, NoFrame, OutOK
<1>2. RipOK
  BY DEF Init, NoRip, RipOK
<1>3. tray \in [Devices -> Discs \cup {Absent}]
  BY CApiAssumption DEF Init, ApiInit
<1> QED BY <1>1, <1>2, <1>3 DEF Init, ApiInit, IInv

(* ... kept by what a program calls, ...                                   *)
LEMMA ProgramKeeps ==
  ASSUME RipOK, client = "program", rip' = rip, client' \in {"program", "gone"}
  PROVE  RipOK'
BY DEF RipOK

LEMMA NoDriveNoReader ==
  ASSUME IInv, ~HasDrive
  PROVE  reader = NoReader
BY CApiAssumption DEF IInv, DriveOK, HasDrive

LEMMA ApiKeeps ==
  ASSUME IInv, ProgramNext
  PROVE  IInv'
<1> USE DEF Calls, HasDrive, HasReader
<1>1. client = "program" /\ rip' = rip /\ client' \in {"program", "gone"}
  BY DEF ProgramNext, ApiNext, ExchangeDisc, Identify, FindACdrom, Open, Close, CddapClose,
         ParanoiaInit, ParanoiaFree, Read, ModeSet, SetRange, Seek, SeekPanics
<1>2. RipOK'
  BY <1>1, ProgramKeeps DEF IInv
<1>3. ASSUME NEW disc \in Exchanged, ExchangeDisc(disc) PROVE IInv'
  <2>1. disc \in Discs /\ DriveOK
    BY <1>3, CApiAssumption DEF ExchangeDisc, IInv
  <2>2. tray' \in [Devices -> Discs \cup {Absent}] /\ Disc' \in Discs /\ DriveOK'
    BY <1>3, <2>1 DEF ExchangeDisc, IInv, DriveOK, DriveType, Disc
  <2>3. reader' = NoReader \/ (ReaderOK' /\ DriveOK')
    BY <1>3, <2>2 DEF ExchangeDisc, IInv, ReaderOK
  <2> QED BY <1>1, <1>2, <1>3, <2>2, <2>3 DEF ExchangeDisc, IInv, OutOK, NoFrame
<1>4. ASSUME NEW device \in Devices, Identify(device) PROVE IInv'
  <2>1. DriveOK' /\ reader' = NoReader
    BY <1>4, IdentifiedTyped, NoDriveNoReader DEF Identify, IInv, DriveOK, Disc, Identified
  <2> QED BY <1>1, <1>2, <1>4, <2>1 DEF Identify, IInv, OutOK, NoFrame
<1>5. CASE FindACdrom
  <2>1. PICK device \in Devices :
          /\ tray[device] # Absent /\ drive' = OpenDrive(Identified(device), tray[device])
    BY <1>5 DEF FindACdrom, Usable
  <2>2. tray[device] \in Discs
    BY <2>1 DEF IInv
  <2>3. Identified(device) \in DriveType(Devices) /\ Identified(device).device = device
    BY IdentifiedTyped DEF Identified
  <2>4. drive' \in DriveType(Devices) /\ drive'.device = device
    BY <2>1, <2>2, <2>3, OpenTyped
  <2>5. DriveOK' /\ reader' = NoReader
    BY <1>5, <2>2, <2>4, NoDriveNoReader DEF FindACdrom, DriveOK, Disc
  <2> QED BY <1>1, <1>2, <1>5, <2>5 DEF FindACdrom, IInv, OutOK, NoFrame
<1>6. CASE Open
  <2>1. drive' \in DriveType(Devices) /\ drive'.device = drive.device
    BY <1>6, OpenTyped DEF Open, IInv, DriveOK
  <2>2. DriveOK' /\ Disc' = Disc
    BY <1>6, <2>1 DEF Open, IInv, DriveOK, Disc
  <2>3. moved' \in BOOLEAN
    BY <1>6 DEF Open, IInv
  <2>4. reader' = NoReader \/ (ReaderOK' /\ DriveOK')
    BY <1>6, <2>2 DEF Open, IInv, ReaderOK, ReaderShape, RootTyped, CursorInRange
  <2> QED BY <1>1, <1>2, <1>6, <2>2, <2>3, <2>4 DEF Open, IInv, OutOK, NoFrame
<1>7. CASE Close
  <2>1. /\ drive' \in DriveType(Devices) /\ drive'.device = drive.device
        /\ drive'.first = drive.first /\ drive'.last = drive.last
    BY <1>7 DEF Close, CloseDrive, IInv, DriveOK, DriveType
  <2>2. DriveOK' /\ Disc' = Disc
    BY <1>7, <2>1 DEF Close, IInv, DriveOK, Disc
  <2>3. reader' = NoReader \/ (ReaderOK' /\ DriveOK')
    BY <1>7, <2>1, <2>2 DEF Close, IInv, ReaderOK, ReaderShape, RootTyped, CursorInRange
  <2> QED BY <1>1, <1>2, <1>7, <2>2, <2>3 DEF Close, IInv, OutOK, NoFrame
<1>8. CASE CddapClose
  BY <1>1, <1>2, <1>8 DEF CddapClose, IInv, OutOK, NoFrame
<1>9. CASE ParanoiaInit
  <2>1. DriveOK /\ DriveOK' /\ drive' = drive /\ reader' = NewReader(drive)
    BY <1>9 DEF ParanoiaInit, IInv, DriveOK, Disc
  <2>2. /\ ReaderShape(reader') /\ CursorInRange(reader')
        /\ reader'.root = <<>> /\ reader'.first = drive.first /\ reader'.last = drive.last
    BY <2>1, NewReaderOK DEF DriveOK
  <2>3. ReaderOK'
    BY <2>1, <2>2 DEF ReaderOK, RootTyped, DriveOK, DriveType
  <2> QED BY <1>1, <1>2, <1>9, <2>1, <2>3 DEF ParanoiaInit, IInv, OutOK, NoFrame
<1>10. CASE ParanoiaFree
  BY <1>1, <1>2, <1>10 DEF ParanoiaFree, IInv, OutOK, NoFrame, DriveOK, Disc
<1>11. CASE Read
  <2>1. ReaderOK /\ DriveOK /\ ReadLimited /\ UNCHANGED <<tray, drive, moved, swapped>>
    BY <1>11 DEF Read, IInv
  <2>2. ReaderOK' /\ OutOK' /\ DriveOK'
    BY <2>1, ReadKeeps DEF IInv, DriveOK, Disc
  <2> QED BY <1>1, <1>2, <1>11, <2>1, <2>2 DEF Read, IInv
<1>12. ASSUME NEW verify \in BOOLEAN, NEW neverskip \in BOOLEAN, ModeSet(verify, neverskip)
       PROVE  IInv'
  <2>1. ReaderOK /\ DriveOK /\ DriveOK' /\ reader' = WithMode(reader, verify, neverskip)
    BY <1>12 DEF ModeSet, IInv, DriveOK, Disc
  <2>2. ReaderOK'
    BY <1>12, <2>1, WithModeOK DEF ModeSet, ReaderOK, RootTyped, Disc
  <2> QED BY <1>1, <1>2, <1>12, <2>1, <2>2 DEF ModeSet, IInv, OutOK, NoFrame
<1>13. ASSUME NEW start \in Bounds, NEW end \in Bounds, SetRange(start, end)
       PROVE  IInv'
  <2>1. /\ ReaderOK /\ DriveOK /\ DriveOK' /\ reader' = CutToDisc(reader, drive, start, end)
        /\ start \in Int /\ end \in Int
    BY <1>13, CApiAssumption DEF SetRange, IInv, DriveOK, Disc
  <2>2. ReaderOK'
    BY <1>13, <2>1, CutToDiscOK DEF SetRange, ReaderOK, DriveOK, RootTyped, Disc
  <2> QED BY <1>1, <1>2, <1>13, <2>1, <2>2 DEF SetRange, IInv, OutOK, NoFrame
<1>14. ASSUME NEW n \in Moves, NEW whence \in {"SEEK_SET", "SEEK_CUR", "SEEK_END"},
              Seek(n, whence)
       PROVE  IInv'
  <2>1. ReaderOK /\ DriveOK /\ DriveOK' /\ reader' = SeekTo(reader, SeekFrom(reader, whence) + n)
    BY <1>14 DEF Seek, IInv, DriveOK, Disc
  <2>2. SeekFrom(reader, whence) \in Int /\ n \in Int
    BY <2>1, CApiAssumption DEF SeekFrom, ReaderOK, ReaderShape
  <2>3. ReaderOK'
    BY <1>14, <2>1, <2>2, SeekToOK DEF Seek, ReaderOK, RootTyped, Disc
  <2> QED BY <1>1, <1>2, <1>14, <2>1, <2>3 DEF Seek, IInv, OutOK, NoFrame
<1>15. ASSUME NEW n \in Moves, NEW whence \in {"SEEK_SET", "SEEK_CUR", "SEEK_END"},
              SeekPanics(n, whence)
       PROVE  IInv'
  BY <1>1, <1>2, <1>15
     DEF SeekPanics, IInv, OutOK, NoFrame, ReaderOK, ReaderShape, RootTyped, CursorInRange,
         DriveOK, Disc
<1> QED BY <1>3, <1>4, <1>5, <1>6, <1>7, <1>8, <1>9, <1>10, <1>11, <1>12, <1>13, <1>14, <1>15
        DEF ProgramNext, ApiNext

(* ... and by the programs that copy a track.                              *)
LEMMA PrepareOK ==
  ASSUME ReaderOK, DriveOK, DriveOK', drive' = drive, swapped' = swapped, moved' = moved,
         tray' = tray, NEW t \in 1 .. MaxTracks, IsTrack(drive, t), reader.first <= reader.last,
         Prepare(t)
  PROVE  ReaderOK' /\ rip' \in [phase : {"copying"}, track : {t}, last : {rip'.last},
                                promised : {rip'.promised}, written : {<<>>}]
<1> DEFINE n == reader.first + TrackStart(t)
           soughtReader == SeekTo(reader, n)
<1>1. n \in Int
  BY DriveAssumption DEF TrackStart, TrackFirstSector, IsTrack, DriveOK, DriveType, ReaderOK, ReaderShape
<1>2. /\ ReaderShape(soughtReader) /\ CursorInRange(soughtReader) /\ soughtReader.root = <<>>
      /\ soughtReader.first = reader.first /\ soughtReader.last = reader.last
  BY <1>1, SeekToOK DEF ReaderOK
<1>3. reader' = WithMode(soughtReader, TRUE, TRUE)
  BY DEF Prepare
<1> HIDE DEF soughtReader
<1>4. /\ ReaderShape(reader') /\ CursorInRange(reader') /\ reader'.root = <<>>
      /\ reader'.first = reader.first /\ reader'.last = reader.last
  BY <1>2, <1>3, WithModeOK, ZenonT(60)
<1>5. ReaderOK'
  BY <1>4 DEF ReaderOK, RootTyped
<1> QED BY <1>5 DEF Prepare, NoRip

LEMMA BeginOK ==
  ASSUME IInv, NEW who, NEW device \in Devices, NEW verify \in BOOLEAN,
         Begin(who, device, verify)
  PROVE  /\ DriveOK' /\ ReaderOK' /\ OutOK'
         /\ reader'.first = drive'.first /\ reader'.last = drive'.last
         /\ UNCHANGED <<tray, moved, swapped>> /\ client' = who
<1> DEFINE opened == OpenDrive(Identified(device), tray[device])
           made == NewReader(opened)
<1>1. drive' = opened /\ reader' = WithMode(made, verify, verify) /\ tray[device] \in Discs
  BY DEF Begin, IInv
<1>2. opened \in DriveType(Devices) /\ opened.device = device
  <2>1. Identified(device) \in DriveType(Devices) /\ Identified(device).device = device
    BY IdentifiedTyped DEF Identified
  <2> QED BY <1>1, <2>1, OpenTyped
<1> HIDE DEF opened
<1>3. /\ ReaderShape(made) /\ CursorInRange(made)
      /\ made.root = <<>> /\ made.first = opened.first /\ made.last = opened.last
  BY <1>2, NewReaderOK
<1> HIDE DEF made
<1>4. /\ ReaderShape(reader') /\ CursorInRange(reader')
      /\ reader'.root = <<>> /\ reader'.first = opened.first /\ reader'.last = opened.last
  BY <1>1, <1>3, WithModeOK
<1>5. DriveOK'
  BY <1>1, <1>2 DEF Begin, DriveOK, Disc
<1>6. ReaderOK'
  BY <1>1, <1>2, <1>4 DEF ReaderOK, RootTyped, DriveType
<1> QED BY <1>1, <1>4, <1>5, <1>6 DEF Begin, OutOK, NoFrame

LEMMA RippersKeep ==
  ASSUME IInv, ~ProgramNext, Next
  PROVE  IInv'
<1>1. ASSUME NEW device \in Devices, StartCdtest(device) PROVE IInv'
  <2>1. /\ DriveOK' /\ ReaderOK' /\ OutOK'
        /\ UNCHANGED <<tray, moved, swapped>> /\ client' = "cdtest"
    BY <1>1, BeginOK DEF StartCdtest
  <2>2. RipOK'
    BY <1>1, <2>1 DEF StartCdtest, NoRip, RipOK
  <2> QED BY <2>1, <2>2 DEF IInv
<1>2. ASSUME NEW device \in Devices, StartRipTrack(device) PROVE IInv'
  <2>1. /\ DriveOK' /\ ReaderOK' /\ OutOK'
        /\ UNCHANGED <<tray, moved, swapped>> /\ client' = "rip_track"
    BY <1>2, BeginOK DEF StartRipTrack
  <2>2. RipOK'
    BY <1>2, <2>1 DEF StartRipTrack, NoRip, RipOK
  <2> QED BY <2>1, <2>2 DEF IInv
<1>3. ASSUME NEW t \in 1 .. MaxTracks, StartCopy(t) PROVE IInv'
  <2>1. ReaderOK /\ DriveOK /\ client \notin {"program", "gone"}
    BY <1>3 DEF StartCopy, Chosen, IInv, RipOK
  <2>2. DriveOK' /\ UNCHANGED <<tray, drive, out, client, moved, swapped>>
    BY <1>3, <2>1 DEF StartCopy, DriveOK, Disc
  <2>3. ReaderOK' /\ rip' \in [phase : {"copying"}, track : {t}, last : {rip'.last},
                                promised : {rip'.promised}, written : {<<>>}]
    BY <1>3, <2>1, <2>2, PrepareOK DEF StartCopy, Chosen
  <2>4. RipOK'
    BY <2>1, <2>2, <2>3 DEF RipOK
  <2>5. OutOK'
    BY <2>2 DEF IInv, OutOK, Disc
  <2> QED BY <2>2, <2>3, <2>4, <2>5 DEF IInv
<1>4. ASSUME NEW t \in 1 .. MaxTracks, CopyPanics(t) PROVE IInv'
  <2>1. RipOK'
    BY <1>4 DEF CopyPanics, IInv, RipOK
  <2> QED BY <1>4, <2>1 DEF CopyPanics, IInv, DriveOK, OutOK, ReaderOK, ReaderShape, RootTyped,
                            CursorInRange, Disc
<1>5. ASSUME ReadLimited, UNCHANGED <<tray, drive, client, moved, swapped>>,
             rip.phase \in {"test", "copying"},
             \/ rip' = [rip EXCEPT !.phase = "ready"]
             \/ rip' = [rip EXCEPT !.phase = "broken"]
             \/ rip' = [rip EXCEPT !.written = Append(@, out')]
             \/ rip' = rip
      PROVE  IInv'
  <2>1. ReaderOK /\ DriveOK /\ client \notin {"program", "gone"}
    BY <1>5 DEF IInv, RipOK
  <2>2. ReaderOK' /\ OutOK' /\ DriveOK'
    BY <1>5, <2>1, ReadKeeps DEF IInv, DriveOK, Disc
  <2>3. RipOK'
    BY <1>5, <2>1, <2>2 DEF IInv, RipOK
  <2> QED BY <1>5, <2>2, <2>3 DEF IInv
<1>6. CASE TestRead
  BY <1>5, <1>6 DEF TestRead
<1>7. CASE Copy
  BY <1>5, <1>7 DEF Copy
<1>8. CASE Finish
  <2>1. ReaderOK /\ DriveOK /\ client \notin {"program", "gone"}
    BY <1>8 DEF Finish, IInv, RipOK
  <2>2. RipOK'
    BY <1>8, <2>1 DEF Finish, apiVars, IInv, RipOK
  <2> QED BY <1>8, <2>2 DEF Finish, apiVars, IInv, DriveOK, OutOK, ReaderOK, ReaderShape,
                            RootTyped, CursorInRange, Disc
<1> QED BY <1>1, <1>2, <1>3, <1>4, <1>6, <1>7, <1>8 DEF Next

LEMMA Inductive ==
  IInv /\ [Next]_vars => IInv'
<1> SUFFICES ASSUME IInv, [Next]_vars PROVE IInv'
  OBVIOUS
<1>1. CASE UNCHANGED vars
  BY <1>1 DEF vars, apiVars, IInv, DriveOK, OutOK, RipOK, ReaderOK, ReaderShape, RootTyped,
              CursorInRange, Disc
<1> QED BY <1>1, ApiKeeps, RippersKeep

(* The invariant that the properties below are read off.                   *)
THEOREM Invariant == Spec => []IInv
BY InitOK, Inductive, PTL DEF Spec

(* Drive, reader and copy keep their types, whatever lies in the drives    *)
(* and however it is exchanged (cdda.rs, ffi.rs, the programs).            *)
THEOREM TypeCorrect == Spec => []TypeOK
<1>1. IInv => TypeOK
  BY DEF IInv, TypeOK, DriveOK, ReaderOK, OutOK, RipOK, HasDrive, HasReader
<1> QED BY <1>1, Invariant, PTL

(* The reader's range is the drive's, or part of it, until the drive is    *)
(* opened behind its back, and the cursor stays in it: for every number    *)
(* that is passed to seek and set_range, also where the sum wraps.         *)
THEOREM RangesBelongToDisc == Spec => []RangeOnDisc
<1>1. IInv => RangeOnDisc
  BY DEF IInv, RangeOnDisc, ReaderOK, HasReader
<1> QED BY <1>1, Invariant, PTL

(* No frame of a disc that was taken out is handed out after a seek.       *)
THEOREM FramesBelongToDisc == Spec => []FramesOfDisc
<1>1. IInv => FramesOfDisc
  BY DEF IInv, FramesOfDisc, OutOK
<1> QED BY <1>1, Invariant, PTL

-----------------------------------------------------------------------------
(* The table of contents                                                   *)

Copied(d, disc) ==
  /\ d.tracks = disc.tracks
  /\ \A i \in Indices(disc) :
       d.toc[i] = [track |-> Number(disc, i), start |-> TrackLsn(disc, Number(disc, i))]
  /\ d.audio \cap Indices(disc) = Audio(disc)
  /\ d.first = AudioFirst(disc) /\ d.last = AudioLast(disc)

LEMMA OpenCopies ==
  ASSUME NEW d \in DriveType(Devices), NEW disc \in Discs, ~d.opened
  PROVE  /\ OpenDrive(d, disc).opened = TocGood(disc)
         /\ TocGood(disc) => Copied(OpenDrive(d, disc), disc)
<1>1. ReadToc(d, disc) \in DriveType(Devices) /\ TocGood(disc) \in BOOLEAN
  BY ReadTocTyped DEF TocGood, HasToc, NoTracks
<1>2. OpenDrive(d, disc) = [ReadToc(d, disc) EXCEPT !.opened = TocGood(disc)]
  BY DEF OpenDrive
<1>3. OpenDrive(d, disc).opened = TocGood(disc)
  BY <1>1, <1>2 DEF DriveType
<1>4. ASSUME TocGood(disc)
      PROVE  Copied(ReadToc(d, disc), disc)
  <2> DEFINE counted == [d EXCEPT !.tracks = disc.tracks]
             listed == Entries(counted, disc)
             toc == [i \in DOMAIN counted.toc |->
                       IF i \in Indices(disc)
                       THEN [track |-> Number(disc, i), start |-> TrackLsn(disc, Number(disc, i))]
                       ELSE counted.toc[i]]
             audio == (counted.audio \ Indices(disc)) \cup (Audio(disc) \cap Indices(disc))
  <2>1. ~NoTracks(disc) /\ disc.first # InvalidTrack /\ Unknown(disc) = {}
    BY <1>4 DEF TocGood, HasToc
  <2>2. disc.tracks \in 0 .. MaxTracks
    BY <2>1, CApiAssumption DEF NoTracks
  <2>3. counted \in DriveType(Devices) /\ counted.tracks = disc.tracks
    BY <2>2 DEF DriveType
  <2>4. {i \in Indices(disc) : \A j \in Unknown(disc) : i < j} = Indices(disc)
    BY <2>1
  <2>5. listed = [counted EXCEPT !.toc = toc, !.audio = audio]
    BY <2>4 DEF Entries
  <2>6. listed \in DriveType(Devices)
    BY <2>3, EntriesTyped
  <2>7. listed.toc = toc /\ listed.audio = audio /\ listed.tracks = disc.tracks
    <3> HIDE DEF counted, toc, audio, listed
    <3> QED BY <2>3, <2>5 DEF DriveType
  <2>8. DOMAIN counted.toc = 1 .. MaxTracks
    <3> HIDE DEF counted
    <3> QED BY <2>3 DEF DriveType
  <2>9. \A i \in Indices(disc) :
          listed.toc[i] = [track |-> Number(disc, i), start |-> TrackLsn(disc, Number(disc, i))]
    <3>1. Indices(disc) \subseteq 1 .. MaxTracks
      BY <2>2, DriveAssumption DEF Indices
    <3> HIDE DEF counted, listed
    <3> QED BY <2>7, <2>8, <3>1
  <2>10. listed.audio \cap Indices(disc) = Audio(disc)
    <3>1. Audio(disc) \subseteq Indices(disc)
      BY DEF Audio
    <3> HIDE DEF counted, listed
    <3> QED BY <2>7, <3>1
  <2>11. ReadToc(d, disc) = [listed EXCEPT !.first = AudioFirst(disc), !.last = AudioLast(disc)]
    BY <2>1 DEF ReadToc
  <2> HIDE DEF listed
  <2>12. /\ ReadToc(d, disc).toc = listed.toc /\ ReadToc(d, disc).audio = listed.audio
         /\ ReadToc(d, disc).tracks = listed.tracks
         /\ ReadToc(d, disc).first = AudioFirst(disc) /\ ReadToc(d, disc).last = AudioLast(disc)
    BY <2>6, <2>11 DEF DriveType
  <2> QED BY <2>7, <2>9, <2>10, <2>12 DEF Copied
<1>5. ASSUME NEW r \in DriveType(Devices), Copied(r, disc), NEW o \in BOOLEAN
      PROVE  Copied([r EXCEPT !.opened = o], disc)
  <2>1. [r EXCEPT !.opened = o] \in [device : {r.device}, opened : {o}, tracks : {r.tracks},
                                     toc : {r.toc}, audio : {r.audio}, first : {r.first}, last : {r.last}]
    BY DEF DriveType
  <2> QED BY <1>5, <2>1 DEF Copied
<1> QED BY <1>1, <1>2, <1>3, <1>4, <1>5

LEMMA IdentifiedClosed ==
  ASSUME NEW device
  PROVE  ~Identified(device).opened /\ Identified(device).device = device
  BY DEF Identified

(* Whatever is in a table that can be read is in that of the handle.       *)
TocInv == HasDrive /\ drive.opened => TocGood(Disc) /\ Copied(drive, Disc)

LEMMA BeginOpens ==
  ASSUME IInv, NEW who, NEW device \in Devices, NEW verify \in BOOLEAN,
         Begin(who, device, verify)
  PROVE  /\ drive'.opened /\ drive'.device = device /\ tray' = tray
         /\ TocGood(tray[device]) /\ Copied(drive', tray[device])
<1> DEFINE opened == OpenDrive(Identified(device), tray[device])
<1>1. drive' = opened /\ opened.opened /\ tray[device] \in Discs /\ tray' = tray
  BY DEF Begin, IInv
<1>2. Identified(device) \in DriveType(Devices)
  BY IdentifiedTyped
<1>3. opened.device = device
  BY <1>1, <1>2, IdentifiedClosed, OpenTyped
<1> QED BY <1>1, <1>2, <1>3, IdentifiedClosed, OpenCopies

LEMMA TocStep ==
  ASSUME IInv, TocInv, [Next]_vars
  PROVE  TocInv'
<1> USE DEF HasDrive
<1>1. CASE UNCHANGED <<tray, drive>>
  BY <1>1 DEF TocInv, Disc
<1>2. ASSUME NEW disc \in Exchanged, ExchangeDisc(disc) PROVE TocInv'
  BY <1>2 DEF ExchangeDisc, TocInv
<1>3. ASSUME NEW device \in Devices, Identify(device) PROVE TocInv'
  BY <1>3, IdentifiedClosed DEF Identify, TocInv
<1>4. CASE FindACdrom
  <2>1. PICK device \in Devices :
          /\ tray[device] # Absent /\ drive' = OpenDrive(Identified(device), tray[device])
    BY <1>4 DEF FindACdrom, Usable
  <2>2. tray[device] \in Discs /\ tray' = tray
    BY <1>4, <2>1 DEF IInv, FindACdrom
  <2>3. Identified(device) \in DriveType(Devices)
    BY IdentifiedTyped
  <2>4. drive'.device = device
    BY <2>1, <2>2, <2>3, IdentifiedClosed, OpenTyped
  <2> QED BY <2>1, <2>2, <2>3, <2>4, IdentifiedClosed, OpenCopies DEF TocInv, Disc
<1>5. CASE Open
  <2>1. drive \in DriveType(Devices) /\ Disc \in Discs /\ drive' = OpenDrive(drive, Disc) /\ tray' = tray
    BY <1>5 DEF Open, IInv, DriveOK
  <2>2. drive'.device = drive.device
    BY <2>1, OpenTyped
  <2>3. Disc' = Disc
    BY <2>1, <2>2 DEF Disc
  <2>4. CASE drive.opened
    BY <1>1, <2>1, <2>4 DEF OpenDrive
  <2>5. CASE ~drive.opened
    BY <2>1, <2>3, <2>5, OpenCopies DEF TocInv
  <2> QED BY <2>4, <2>5
<1>6. CASE Close
  BY <1>6 DEF Close, CloseDrive, IInv, DriveOK, DriveType, TocInv
<1>7. CASE CddapClose
  BY <1>7 DEF CddapClose, TocInv
<1>8. ASSUME NEW device \in Devices, StartCdtest(device) \/ StartRipTrack(device) PROVE TocInv'
  <2>1. PICK who \in {"cdtest", "rip_track"}, verify \in BOOLEAN : Begin(who, device, verify)
    BY <1>8 DEF StartCdtest, StartRipTrack
  <2> QED BY <2>1, BeginOpens DEF TocInv, Disc
<1>9. CASE \/ ParanoiaInit \/ ParanoiaFree \/ Read
           \/ \E verify, neverskip \in BOOLEAN : ModeSet(verify, neverskip)
           \/ \E start, end \in Bounds : SetRange(start, end)
           \/ \E n \in Moves, whence \in {"SEEK_SET", "SEEK_CUR", "SEEK_END"} :
                Seek(n, whence) \/ SeekPanics(n, whence)
  BY <1>1, <1>9 DEF ParanoiaInit, ParanoiaFree, Read, ModeSet, SetRange, Seek, SeekPanics
<1>10. CASE \/ \E t \in 1 .. MaxTracks : StartCopy(t) \/ CopyPanics(t)
            \/ TestRead \/ Copy \/ Finish \/ UNCHANGED vars
  BY <1>1, <1>10 DEF StartCopy, CopyPanics, TestRead, Copy, Finish, vars, apiVars
<1> QED BY <1>2, <1>3, <1>4, <1>5, <1>6, <1>7, <1>8, <1>9, <1>10 DEF Next, ProgramNext, ApiNext

(* As long as a drive is open, what read_toc copied is what the disc in it *)
(* says, whatever was opened, closed, exchanged or refused before.         *)
THEOREM TocInvariant == Spec => []TocInv
<1>1. Init => TocInv
  BY DEF Init, ApiInit, TocInv, HasDrive
<1>2. IInv /\ TocInv /\ [Next]_vars => TocInv'
  BY TocStep
<1> QED BY <1>1, <1>2, Invariant, PTL DEF Spec

-----------------------------------------------------------------------------
(* The disc whose table can be read: where its tracks begin and end        *)

LEMMA TracksOrdered ==
  ASSUME NEW disc \in Discs, TocGood(disc), NEW i \in Indices(disc),
         NEW start, start = TrackLsn(disc, Number(disc, i)),
         NEW end, end = TrackLastLsn(disc, Number(disc, i))
  PROVE  /\ Number(disc, i) \in DOMAIN disc.start /\ start = disc.start[Number(disc, i)]
         /\ start \in -IntLimit .. IntLimit - 1 /\ end \in Int
         /\ \A j \in Indices(disc) : i <= j => start <= TrackLsn(disc, Number(disc, j))
         /\ \A j \in Indices(disc) : i < j => end < TrackLsn(disc, Number(disc, j))
         /\ disc.leadout # InvalidLsn => start <= end /\ end < disc.leadout
         /\ end # InvalidLsn => start <= end
         /\ InvalidLsn < start
<1> DEFINE first == disc.first
           S == disc.start
           n == Number(disc, i)
<1>0. disc.tracks \in 0 .. MaxTracks /\ first \in Nat /\ disc.leadout \in Int /\ InvalidLsn \in Int
      /\ MaxTracks \in Nat /\ IntLimit \in Nat
  BY CApiAssumption, DriveAssumption DEF TocGood, HasToc, NoTracks
<1>1. Ordered(disc)
  BY CApiAssumption
<1>2. DOMAIN S = first .. first + disc.tracks - 1
  BY <1>0, <1>1 DEF Ordered, Number
<1>3. i \in 1 .. disc.tracks /\ n = first + i - 1 /\ n \in DOMAIN S
  BY <1>0, <1>2 DEF Indices, Number
<1>4. \A m \in DOMAIN S : S[m] \in -IntLimit .. IntLimit - 1
  BY CApiAssumption
<1>5. \A m \in DOMAIN S : S[m] \in Int
  BY <1>0, <1>4
<1>6. /\ \A m, k \in DOMAIN S : m < k => S[m] < S[k]
      /\ \A m \in DOMAIN S : InvalidLsn < S[m] /\ (disc.leadout # InvalidLsn => S[m] < disc.leadout)
  BY <1>1 DEF Ordered
<1>7. start = S[n] /\ start \in Int
  BY <1>3, <1>5 DEF TrackLsn
<1>8. \A j \in Indices(disc) : /\ Number(disc, j) = first + j - 1 /\ Number(disc, j) \in DOMAIN S
                                /\ TrackLsn(disc, Number(disc, j)) = S[first + j - 1]
  BY <1>0, <1>2, SMTT(60) DEF Indices, Number, TrackLsn
<1>9. end = IF n + 1 \in DOMAIN S THEN S[n + 1] - 1
            ELSE IF disc.leadout = InvalidLsn THEN InvalidLsn ELSE disc.leadout - 1
  <2>1. n + 1 \in DOMAIN S => S[n + 1] # InvalidLsn
    BY <1>0, <1>5, <1>6
  <2>2. n \in DOMAIN disc.start
    BY <1>3
  <2> HIDE DEF n
  <2> QED BY <2>1, <2>2 DEF TrackLastLsn, n
<1>10. end \in Int
  BY <1>0, <1>5, <1>9
<1>11. ASSUME NEW j \in Indices(disc), i < j
       PROVE  start < TrackLsn(disc, Number(disc, j)) /\ end < TrackLsn(disc, Number(disc, j))
  <2>1. j \in Nat /\ i \in Nat /\ n \in Int /\ first + j - 1 \in DOMAIN S /\ n < first + j - 1
    BY <1>0, <1>3, <1>8, <1>11 DEF Indices
  <2>2. n + 1 \in DOMAIN S
    <3>1. n + 1 \in Int /\ first <= n + 1 /\ n + 1 <= first + disc.tracks - 1
      BY SMTT(60), <1>0, <1>2, <1>3, <2>1
    <3> QED BY <1>0, <1>2, <3>1
  <2>3. S[n + 1] <= S[first + j - 1]
    <3>1. CASE n + 1 = first + j - 1
      BY <1>5, <2>2, <3>1
    <3>2. CASE n + 1 < first + j - 1
      BY <1>5, <1>6, <2>1, <2>2, <3>2
    <3> QED BY <1>0, <2>1, <3>1, <3>2
  <2>4. S[n] < S[n + 1] /\ S[n] \in Int /\ S[n + 1] \in Int /\ S[first + j - 1] \in Int
    BY <1>3, <1>5, <1>6, <2>1, <2>2
  <2>5. TrackLsn(disc, Number(disc, j)) = S[first + j - 1] /\ end = S[n + 1] - 1
    BY <1>8, <1>9, <2>2
  <2> HIDE DEF S, n, first
  <2> QED BY <1>7, <2>3, <2>4, <2>5
<1>12. \A j \in Indices(disc) : i <= j => start <= TrackLsn(disc, Number(disc, j))
  <2> SUFFICES ASSUME NEW j \in Indices(disc), i <= j
               PROVE  start <= TrackLsn(disc, Number(disc, j))
    OBVIOUS
  <2>1. CASE i = j
    <3>1. TrackLsn(disc, Number(disc, j)) = start
      BY <2>1
    <3> QED BY <1>7, <3>1
  <2>2. CASE i < j
    BY <1>7, <1>11, <2>2, DiscTyped
  <2>3. i \in Nat /\ j \in Nat
    BY <1>0 DEF Indices
  <2> QED BY <2>1, <2>2, <2>3
<1>13. /\ disc.leadout # InvalidLsn => start <= end /\ end < disc.leadout
       /\ end # InvalidLsn => start <= end
  <2>1. CASE n + 1 \in DOMAIN S
    <3>1. S[n] < S[n + 1] /\ S[n + 1] \in Int /\ (disc.leadout # InvalidLsn => S[n + 1] < disc.leadout)
      BY <1>0, <1>3, <1>5, <1>6, <2>1
    <3>2. end = S[n + 1] - 1
      BY <1>9, <2>1
    <3> HIDE DEF S, n
    <3> QED BY <1>0, <1>7, <3>1, <3>2
  <2>2. CASE n + 1 \notin DOMAIN S
    <3>1. end = IF disc.leadout = InvalidLsn THEN InvalidLsn ELSE disc.leadout - 1
      BY <1>9, <2>2
    <3>2. disc.leadout # InvalidLsn => S[n] < disc.leadout
      BY <1>3, <1>6
    <3> HIDE DEF S, n
    <3> QED BY <1>0, <1>7, <3>1, <3>2
  <2> QED BY <2>1, <2>2
<1>14. start \in -IntLimit .. IntLimit - 1 /\ InvalidLsn < start
  BY <1>3, <1>4, <1>6, <1>7
<1> QED BY <1>3, <1>7, <1>10, <1>11, <1>12, <1>13, <1>14

(* The audio range is the hull of the audio tracks.                        *)
LEMMA AudioHull ==
  ASSUME NEW disc \in Discs, TocGood(disc)
  PROVE  /\ \A i \in Audio(disc) :
              SectorsOf(disc, Number(disc, i)) \subseteq AudioFirst(disc) .. AudioLast(disc)
         /\ \E i \in Audio(disc) : AudioFirst(disc) = TrackLsn(disc, Number(disc, i))
<1> DEFINE least == Min(Audio(disc))
<1>1. Audio(disc) # {} /\ Audio(disc) \subseteq Indices(disc)
  BY DEF TocGood, Audio
<1>2. least \in Audio(disc) /\ \A i \in Audio(disc) : least <= i
  BY <1>1, DiscTyped, MinOf
<1> HIDE DEF least
<1>3. AudioFirst(disc) = TrackLsn(disc, Number(disc, least))
  BY <1>1 DEF AudioFirst, least
<1>4. ASSUME NEW i \in Audio(disc)
      PROVE  SectorsOf(disc, Number(disc, i)) \subseteq AudioFirst(disc) .. AudioLast(disc)
  <2> DEFINE start == TrackLsn(disc, Number(disc, i))
             end == TrackLastLsn(disc, Number(disc, i))
  <2>1. start \in Int /\ end \in Int /\ AudioFirst(disc) \in Int /\ AudioLast(disc) \in Int
    BY DiscTyped, AudioLastOf
  <2>2. AudioFirst(disc) <= start
    BY <1>1, <1>2, <1>3, TracksOrdered
  <2>3. end = InvalidLsn => end < start
    BY <1>1, TracksOrdered
  <2>4. end # InvalidLsn => end <= AudioLast(disc)
    BY AudioLastOf
  <2>5. SectorsOf(disc, Number(disc, i)) = start .. end
    BY DEF SectorsOf
  <2> HIDE DEF start, end
  <2> QED BY <2>1, <2>2, <2>3, <2>4, <2>5
<1> QED BY <1>2, <1>3, <1>4

(* An open drive has the table of contents and the audio range of the disc *)
(* in it, whatever was opened, failed to open, closed and opened before.   *)
THEOREM OpenDriveHasToc == Spec => []TocOfDisc
<1>1. ASSUME IInv, TocInv
      PROVE  TocOfDisc
  <2> SUFFICES ASSUME HasDrive, drive.opened
               PROVE  TocOfDisc
    BY DEF TocOfDisc
  <2>1. Disc \in Discs /\ TocGood(Disc) /\ Copied(drive, Disc)
    BY <1>1 DEF IInv, DriveOK, HasDrive, TocInv
  <2>2. /\ \A i \in Audio(Disc) : SectorsOf(Disc, Number(Disc, i)) \subseteq drive.first .. drive.last
        /\ \E i \in Audio(Disc) : drive.first = TrackLsn(Disc, Number(Disc, i))
    BY <2>1, AudioHull DEF Copied
  <2>3. Audio(Disc) \subseteq Indices(Disc)
    BY DEF Audio
  <2>4. \E i \in Audio(Disc) : drive.first = drive.toc[i].start
    <3>1. PICK i \in Audio(Disc) : drive.first = TrackLsn(Disc, Number(Disc, i))
      BY <2>2
    <3>2. drive.toc[i] = [track |-> Number(Disc, i), start |-> TrackLsn(Disc, Number(Disc, i))]
      BY <2>1, <2>3 DEF Copied
    <3> QED BY <3>1, <3>2
  <2>5. drive.last # 0 => \E i \in Audio(Disc) : drive.last = TrackLastLsn(Disc, Number(Disc, i))
    BY <2>1, AudioLastOf DEF Copied
  <2> QED BY <2>1, <2>2, <2>4, <2>5 DEF TocOfDisc, Copied
<1> QED BY <1>1, Invariant, TocInvariant, PTL

(* The tracks of a disc that counts from 1 and whose end is known          *)
LEMMA SoundTracks ==
  ASSUME NEW disc \in Discs, TocGood(disc), Sound(disc), NEW t \in Indices(disc)
  PROVE  /\ t \in 1 .. MaxTracks /\ Number(disc, t) = t
         /\ TrackLsn(disc, t) \in -IntLimit .. IntLimit - 1 /\ TrackLastLsn(disc, t) \in Int
         /\ TrackLsn(disc, t) <= TrackLastLsn(disc, t)
         /\ TrackLastLsn(disc, t) # InvalidLsn
         /\ \A s \in SectorsOf(disc, t) : TrackAt(disc, s) = t
<1> DEFINE begin == TrackLsn(disc, t)
           end == TrackLastLsn(disc, t)
           S == disc.start
<1>0. /\ disc.tracks \in 0 .. MaxTracks /\ disc.leadout \in Int /\ InvalidLsn \in Int
      /\ MaxTracks \in Nat /\ IntLimit \in Nat /\ InvalidTrack \in Nat /\ MaxTracks < InvalidTrack
  BY CApiAssumption, DriveAssumption DEF TocGood, HasToc, NoTracks
<1>1. \A i \in Indices(disc) : Number(disc, i) = i
  BY <1>0 DEF Sound, Number, Indices
<1>2. t \in 1 .. MaxTracks /\ disc.leadout # InvalidLsn
  BY <1>0 DEF Indices, Sound
<1>3. /\ t \in DOMAIN S /\ begin = S[t] /\ begin \in -IntLimit .. IntLimit - 1 /\ end \in Int
      /\ \A j \in Indices(disc) : t < j => end < TrackLsn(disc, j)
      /\ begin <= end /\ end < disc.leadout /\ InvalidLsn < begin
  BY <1>1, <1>2, TracksOrdered
<1>4. DOMAIN S = Indices(disc)
  <2>1. DOMAIN S = Number(disc, 1) .. Number(disc, disc.tracks)
    BY CApiAssumption DEF Ordered
  <2>2. Number(disc, 1) = 1 /\ Number(disc, disc.tracks) = disc.tracks
    BY <1>0 DEF Sound, Number
  <2> QED BY <2>1, <2>2 DEF Indices
<1>5. ASSUME NEW s \in begin .. end
      PROVE  TrackAt(disc, s) = t
  <2> DEFINE begun == {n \in DOMAIN S : S[n] <= s}
  <2>0. s \in Int /\ begin <= s /\ s <= end /\ begin \in Int
    BY <1>0, <1>3
  <2>1. t \in begun /\ ~(s >= disc.leadout)
    BY <1>0, <1>3, <2>0
  <2>2. ASSUME NEW n \in begun PROVE n <= t
    <3>1. n \in Indices(disc) /\ S[n] <= s
      BY <1>4
    <3>2. TrackLsn(disc, n) = S[n] /\ TrackLsn(disc, n) \in Int
      BY DiscTyped, <1>4, <3>1 DEF TrackLsn
    <3>3. t < n => end < S[n]
      BY <1>3, <3>1, <3>2
    <3>4. n \in Int /\ t \in Int
      BY <1>0, <1>2, <3>1 DEF Indices
    <3> HIDE DEF S, end, begin, begun
    <3> QED BY <1>3, <2>0, <3>1, <3>2, <3>3, <3>4
  <2>3. begun \in SUBSET Int /\ t \in Int
    BY <1>0, <1>2, <1>4 DEF Indices
  <2>4. TrackAt(disc, s) = Max(begun)
    BY <2>1 DEF TrackAt
  <2> HIDE DEF begun
  <2>5. begun # {} /\ \A x \in begun : x <= t
    BY <2>1, <2>2
  <2>6. Max(begun) \in begun /\ \A x \in begun : x <= Max(begun)
    BY <2>3, <2>5, MaxOf
  <2>7. Max(begun) <= t /\ t <= Max(begun) /\ Max(begun) \in Int
    BY <2>1, <2>3, <2>5, <2>6
  <2> QED BY <2>3, <2>4, <2>7
<1>6. Number(disc, t) = t /\ end # InvalidLsn /\ begin \in Int
  BY <1>0, <1>1, <1>3
<1> QED BY <1>2, <1>3, <1>5, <1>6 DEF SectorsOf

(* What the handle answers about a track is what the disc says.            *)
LEMMA HandleAnswers ==
  ASSUME NEW disc \in Discs, NEW d \in DriveType(Devices), TocGood(disc), Copied(d, disc),
         Sound(disc), NEW t \in Indices(disc)
  PROVE  /\ IsTrack(d, t)
         /\ TrackFirstSector(d, t) = TrackLsn(disc, t)
         /\ TrackLastSector(d, disc, t) = TrackLastLsn(disc, t)
         /\ TrackIsAudio(d, disc, t) <=> t \in Audio(disc)
         /\ t \in Audio(disc) =>
              /\ TrackLsn(disc, t) \in d.first .. d.last
              /\ TrackLastLsn(disc, t) \in d.first .. d.last
<1>1. /\ t \in 1 .. MaxTracks /\ Number(disc, t) = t
      /\ TrackLsn(disc, t) \in Int /\ TrackLastLsn(disc, t) \in Int
      /\ TrackLsn(disc, t) <= TrackLastLsn(disc, t) /\ TrackLastLsn(disc, t) # InvalidLsn
  BY SoundTracks, DiscTyped
<1>2. IsTrack(d, t)
  BY <1>1, DriveAssumption DEF IsTrack, Copied, Indices
<1>3. d.toc[t] = [track |-> t, start |-> TrackLsn(disc, t)]
  BY <1>1 DEF Copied
<1>4. TrackIsAudio(d, disc, t) <=> t \in Audio(disc)
  BY <1>1, <1>2 DEF TrackIsAudio, Audio
<1>5. t \in Audio(disc) => SectorsOf(disc, t) \subseteq d.first .. d.last
  BY <1>1, AudioHull DEF Copied
<1>6. TrackLsn(disc, t) \in SectorsOf(disc, t) /\ TrackLastLsn(disc, t) \in SectorsOf(disc, t)
  BY <1>1 DEF SectorsOf
<1> QED BY <1>1, <1>2, <1>3, <1>4, <1>5, <1>6 DEF TrackFirstSector, TrackLastSector

(* On a disc that counts from 1 and whose end is known the answers about   *)
(* tracks agree, for every such disc and wherever each answer comes from   *)
(* (cdda.rs, track_first_sector to track_is_audio, through ffi.rs).        *)
THEOREM AnswersAgree == Spec => []TracksAgree
<1>1. ASSUME IInv, TocInv
      PROVE  TracksAgree
  <2> SUFFICES ASSUME HasDrive, drive.opened, Sound(Disc), NEW t \in 1 .. CddapTracks
               PROVE  LET begin == CddapTrackFirstSector(t)
                          end   == CddapTrackLastSector(t)
                      IN  /\ begin <= end
                          /\ \A s \in begin .. end : CddapSectorGetTrack(s) = t
                          /\ CddapTrackAudioP(t) =>
                               CddapDiscFirstSector <= begin /\ end <= CddapDiscLastSector
                          /\ CddapTrackAudioP(t) <=> t \in drive.audio
    BY DEF TracksAgree
  <2>1. /\ Disc \in Discs /\ TocGood(Disc) /\ Copied(drive, Disc) /\ drive \in DriveType(Devices)
    BY <1>1 DEF IInv, DriveOK, HasDrive, TocInv
  <2>2. t \in Indices(Disc)
    BY <2>1 DEF CddapTracks, Copied, Indices
  <2>3. /\ t \in 1 .. MaxTracks /\ TrackLsn(Disc, t) <= TrackLastLsn(Disc, t)
        /\ TrackLsn(Disc, t) \in Int /\ TrackLastLsn(Disc, t) \in Int
        /\ \A s \in SectorsOf(Disc, t) : TrackAt(Disc, s) = t
    BY <2>1, <2>2, SoundTracks, DiscTyped
  <2>4. Byte(t) = t
    BY <2>3, DriveAssumption DEF Byte
  <2>5. /\ CddapTrackFirstSector(t) = TrackLsn(Disc, t)
        /\ CddapTrackLastSector(t) = TrackLastLsn(Disc, t)
        /\ CddapTrackAudioP(t) <=> t \in Audio(Disc)
    BY <2>1, <2>2, <2>4, HandleAnswers
       DEF CddapTrackFirstSector, CddapTrackLastSector, CddapTrackAudioP
  <2>6. \A s \in SectorsOf(Disc, t) : CddapSectorGetTrack(s) = t
    <3>1. t # InvalidTrack
      BY <2>3, DriveAssumption
    <3> QED BY <2>3, <3>1 DEF CddapSectorGetTrack, SectorGetTrack
  <2>7. t \in Audio(Disc) => CddapDiscFirstSector <= TrackLsn(Disc, t)
                             /\ TrackLastLsn(Disc, t) <= CddapDiscLastSector
    <3>1. drive.first \in Int /\ drive.last \in Int
      BY <2>1 DEF DriveType
    <3> QED BY <2>1, <2>2, <2>3, <3>1, HandleAnswers DEF CddapDiscFirstSector, CddapDiscLastSector
  <2>8. t \in Audio(Disc) <=> t \in drive.audio
    BY <2>1, <2>2 DEF Copied
  <2> QED BY <2>3, <2>5, <2>6, <2>7, <2>8 DEF SectorsOf
<1> QED BY <1>1, Invariant, TocInvariant, PTL

(* find_a_cdrom returns an open drive with audio and passes over none that *)
(* it could have returned, whatever lies in the drives.                    *)
THEOREM FindsTheFirst == Spec => FindsFirst
<1> DEFINE Found ==
      client' = client /\ ~HasDrive /\ drive' # NoDrive /\ drive'.opened =>
        /\ drive'.audio # {}
        /\ \A device \in Devices :
             tray[device] # Absent /\ TocGood(tray[device]) => drive'.device <= device
<1>1. ASSUME IInv, [Next]_vars
      PROVE  [Found]_apiVars
  <2> SUFFICES ASSUME Next, client' = client, ~HasDrive, drive' # NoDrive, drive'.opened,
                      drive' # drive
               PROVE  Found
    BY <1>1 DEF vars, apiVars, HasDrive
  <2> USE DEF HasDrive
  <2>1. ASSUME NEW device \in Devices, tray[device] # Absent
        PROVE  LET d == OpenDrive(Identified(device), tray[device])
               IN  /\ d.opened = TocGood(tray[device]) /\ d.device = device
                   /\ TocGood(tray[device]) => d.audio # {} /\ d.tracks > 0
    <3> DEFINE d == OpenDrive(Identified(device), tray[device])
    <3>1. tray[device] \in Discs /\ Identified(device) \in DriveType(Devices)
      BY <1>1, <2>1, IdentifiedTyped DEF IInv
    <3>2. d.opened = TocGood(tray[device]) /\ d.device = device
      BY <3>1, IdentifiedClosed, OpenCopies, OpenTyped
    <3>3. ASSUME TocGood(tray[device])
          PROVE  d.audio # {} /\ d.tracks > 0
      <4>1. Copied(d, tray[device])
        BY <3>1, <3>3, IdentifiedClosed, OpenCopies
      <4>2. PICK i : i \in Audio(tray[device])
        BY <3>3 DEF TocGood
      <4>3. i \in 1 .. tray[device].tracks /\ tray[device].tracks \in Nat
        BY <3>1, <4>2, DiscTyped DEF Audio, Indices
      <4> HIDE DEF d
      <4> QED BY <4>1, <4>2, <4>3 DEF Copied
    <3> QED BY <3>2, <3>3
  <2>2. CASE FindACdrom
    <3>1. PICK device \in Devices :
            /\ Usable(device) /\ \A other \in Devices : Usable(other) => device <= other
            /\ drive' = OpenDrive(Identified(device), tray[device])
      BY <2>2 DEF FindACdrom
    <3>2. tray[device] # Absent /\ drive'.audio # {} /\ drive'.device = device
      BY <2>1, <3>1 DEF Usable
    <3>3. ASSUME NEW other \in Devices, tray[other] # Absent, TocGood(tray[other])
          PROVE  Usable(other)
      BY <2>1, <3>3 DEF Usable
    <3> QED BY <3>1, <3>2, <3>3
  <2>3. ASSUME NEW device \in Devices, Identify(device) PROVE FALSE
    BY <2>3, IdentifiedClosed DEF Identify
  <2>4. ASSUME NEW device \in Devices, StartCdtest(device) \/ StartRipTrack(device) PROVE FALSE
    BY <2>4 DEF StartCdtest, StartRipTrack, Begin, Calls
  <2>5. ASSUME NEW disc \in Exchanged, ExchangeDisc(disc) PROVE FALSE
    BY <2>5 DEF ExchangeDisc
  <2>6. CASE \/ Open \/ Close \/ CddapClose \/ ParanoiaInit \/ ParanoiaFree \/ Read
             \/ \E verify, neverskip \in BOOLEAN : ModeSet(verify, neverskip)
             \/ \E start, end \in Bounds : SetRange(start, end)
             \/ \E n \in Moves, whence \in {"SEEK_SET", "SEEK_CUR", "SEEK_END"} :
                  Seek(n, whence) \/ SeekPanics(n, whence)
    BY <2>6 DEF Open, Close, CddapClose, ParanoiaInit, ParanoiaFree, Read, ModeSet, SetRange, Seek,
                SeekPanics
  <2>7. CASE \/ \E t \in 1 .. MaxTracks : StartCopy(t) \/ CopyPanics(t)
             \/ TestRead \/ Copy \/ Finish
    BY <2>7 DEF StartCopy, CopyPanics, TestRead, Copy, Finish, apiVars
  <2> QED BY <2>2, <2>3, <2>4, <2>5, <2>6, <2>7 DEF Next, ProgramNext, ApiNext
<1> QED BY <1>1, Invariant, PTL DEF Spec, FindsFirst

-----------------------------------------------------------------------------
(* The copy of a track                                                     *)

LEMMA WrapSmall ==
  ASSUME NEW n \in -IntLimit .. IntLimit - 1
  PROVE  Wrap(n) = n
<1>1. IntLimit \in Nat \ {0} /\ 2 * IntLimit \in Nat \ {0} /\ n \in Int
  BY CApiAssumption
<1>2. n + IntLimit \in 0 .. 2 * IntLimit - 1
  BY <1>1
<1>3. (n + IntLimit) % (2 * IntLimit) = n + IntLimit
  <2> DEFINE m == 2 * IntLimit
             y == n + IntLimit
  <2>1. m \in Nat \ {0} /\ y \in Int /\ y \in 0 .. m - 1
    BY <1>1, <1>2
  <2> HIDE DEF m, y
  <2>2. y % m = y
    BY <2>1, RemainderNear
  <2> QED BY <2>2 DEF m, y
<1> QED BY <1>1, <1>3 DEF Wrap

Frames == [kind : {"frame"}, sector : Int, disc : Discs]

(* What the file holds, and where the reader stands                        *)
Copies ==
  LET begin == TrackLsn(Disc, rip.track)
      end   == TrackLastLsn(Disc, rip.track)
  IN  /\ rip.track \in Indices(Disc)
      /\ rip.last = end /\ rip.promised = end - begin + 1
      /\ rip.written \in Seq(Frames) /\ Len(rip.written) <= rip.promised
      /\ \A i \in DOMAIN rip.written : rip.written[i] = FrameAt(begin + i - 1)
      /\ rip.phase = "copying" =>
           /\ reader.cursor = begin + Len(rip.written)
           /\ reader.skip = FALSE /\ begin \in reader.first .. reader.last /\ end <= reader.last
           /\ \A s \in DOMAIN reader.root : reader.root[s] = Disc
      /\ rip.phase = "done" => Len(rip.written) = rip.promised

CopyInv ==
  /\ rip.phase \in {"test", "ready", "copying", "done"} =>
       client # "program" /\ HasDrive /\ drive.opened
  /\ rip.phase \in {"test", "ready", "copying"} =>
       reader.first = drive.first /\ reader.last = drive.last
  /\ rip.phase = "copying" /\ client = "cdtest" => rip.last \in Int /\ rip.last <= reader.last
  /\ rip.phase \in {"copying", "done"} /\ Sound(Disc) /\ rip.track \in Disc.audio => Copies

(* What a read does to the reader *)
LEMMA ReadMoves ==
  ASSUME ReaderOK, ReadLimited
  PROVE  /\ reader'.first = reader.first /\ reader'.last = reader.last
         /\ reader'.skip = reader.skip
         /\ reader.cursor <= reader.last /\ reader.skip = FALSE /\ out'.kind = "error" =>
              reader' = reader
         /\ out'.kind = "frame" =>
              reader'.cursor = reader.cursor + 1 /\ out'.sector = reader.cursor
         /\ out'.kind = "silence" => reader.skip = TRUE
         /\ (\A s \in DOMAIN reader.root : reader.root[s] = Disc) =>
              /\ out'.kind = "frame" => out' = FrameAt(reader.cursor)
              /\ \A s \in DOMAIN reader'.root : reader'.root[s] = Disc
<1>1. reader \in [first : Int, last : Int, cursor : Int, verify : BOOLEAN, skip : BOOLEAN,
                  root : {reader.root}]
  BY DEF ReaderOK, ReaderShape
<1>2. /\ Advanced \in [first : Int, last : Int, cursor : Int, verify : BOOLEAN, skip : BOOLEAN,
                       root : {reader.root}]
      /\ Advanced.first = reader.first /\ Advanced.last = reader.last
      /\ Advanced.cursor = reader.cursor + 1 /\ Advanced.skip = reader.skip
  BY <1>1 DEF Advanced
<1>3. Advanced.root = reader.root
  BY <1>2
<1>4. CASE ReadBeyond
  BY <1>1, <1>4 DEF ReadBeyond
<1>5. CASE ReadFromRoot
  BY <1>2, <1>3, <1>5 DEF ReadFromRoot, FrameAt
<1>6. CASE ReadFails
  <2>1. /\ out'.kind = IF reader.skip THEN "silence" ELSE "error"
        /\ reader' = IF reader.skip THEN Advanced ELSE reader
    BY <1>6 DEF ReadFails
  <2> QED BY <1>1, <1>2, <1>3, <2>1
<1>7. ASSUME NEW upto, ReadFromDrive(upto),
             reader' = Advanced
                \/ reader' = [Advanced EXCEPT !.root = RootWith(upto)]
      PROVE  /\ reader'.first = reader.first /\ reader'.last = reader.last
             /\ reader'.skip = reader.skip /\ reader'.cursor = reader.cursor + 1
             /\ out' = FrameAt(reader.cursor)
             /\ (\A s \in DOMAIN reader.root : reader.root[s] = Disc) =>
                  \A s \in DOMAIN reader'.root : reader'.root[s] = Disc
  <2>1. out' = FrameAt(reader.cursor)
    BY <1>7 DEF ReadFromDrive
  <2>2. CASE reader' = Advanced
    BY <1>2, <1>3, <2>1, <2>2
  <2>3. CASE reader' = [Advanced EXCEPT !.root = RootWith(upto)]
    <3> DEFINE root == RootWith(upto)
    <3>1. \A s \in DOMAIN root : root[s] = Disc \/ (s \in DOMAIN reader.root /\ root[s] = reader.root[s])
      BY DEF RootWith
    <3> HIDE DEF root
    <3>2. /\ reader'.first = reader.first /\ reader'.last = reader.last
          /\ reader'.skip = reader.skip /\ reader'.cursor = reader.cursor + 1
          /\ reader'.root = root
      BY <1>2, <2>3 DEF root
    <3> QED BY <2>1, <3>1, <3>2
  <2> QED BY <1>7, <2>2, <2>3
<1>8. ASSUME NEW upto \in {reader.cursor, reader.last}, ReadFromDrive(upto)
      PROVE  reader' = Advanced \/ reader' = [Advanced EXCEPT !.root = RootWith(upto)]
  BY <1>8 DEF ReadFromDrive
<1>9. FrameAt(reader.cursor).kind = "frame" /\ FrameAt(reader.cursor).sector = reader.cursor
  BY DEF FrameAt
<1> QED BY <1>4, <1>5, <1>6, <1>7, <1>8, <1>9 DEF ReadLimited

LEMMA BeginCopies ==
  ASSUME IInv, NEW device \in Devices, NEW who \in {"cdtest", "rip_track"},
         NEW verify \in BOOLEAN, Begin(who, device, verify), rip'.phase \in {"test", "ready"}
  PROVE  CopyInv'
<1>1. /\ reader'.first = drive'.first /\ reader'.last = drive'.last /\ DriveOK' /\ client' = who
  BY BeginOK
<1>2. drive'.opened
  BY BeginOpens
<1>3. drive' # NoDrive
  BY <1>1, CApiAssumption DEF DriveOK
<1> QED BY <1>1, <1>2, <1>3 DEF CopyInv, HasDrive

(* An audio track ends within the drive's range, whichever of the three    *)
(* answers it is that says so.                                             *)
LEMMA LastWithinRange ==
  ASSUME NEW disc \in Discs, NEW d \in DriveType(Devices), TocGood(disc), Copied(d, disc),
         NEW t \in 1 .. MaxTracks, TrackIsAudio(d, disc, t)
  PROVE  TrackLastSector(d, disc, t) \in Int /\ TrackLastSector(d, disc, t) <= d.last
<1> DEFINE first == disc.first
           count == disc.tracks
           S == disc.start
           last == TrackLastLsn(disc, t)
           i == t - first + 1
<1>1. /\ first \in Nat /\ count \in Nat /\ last \in Int /\ t \in Nat /\ d.last \in Int
      /\ InvalidLsn \in Int
  BY DiscTyped, DriveAssumption DEF DriveType
<1>2. Ordered(disc)
  BY CApiAssumption
<1>3. /\ IsTrack(d, t) /\ d.tracks = count /\ t <= count /\ t \in disc.audio
      /\ d.last = AudioLast(disc)
  BY DEF TrackIsAudio, IsTrack, Copied
<1>4. DOMAIN S = first .. first + count - 1 /\ first # 0 /\ t \in DOMAIN S
  <2>1. DOMAIN S = Number(disc, 1) .. Number(disc, count)
    BY <1>2 DEF Ordered
  <2>2. Number(disc, 1) = first /\ Number(disc, count) = first + count - 1
    BY <1>1 DEF Number
  <2>3. first # 0 /\ t \in DOMAIN S
    BY <1>2, <1>3 DEF Ordered
  <2> QED BY <2>1, <2>2, <2>3
<1>5. i \in 1 .. count /\ first + i - 1 = t
  BY <1>1, <1>4
<1>6. i \in Audio(disc) /\ Number(disc, i) = t
  BY <1>3, <1>5 DEF Audio, Indices, Number
<1>7. CASE last # InvalidLsn
  <2>1. last <= d.last
    BY <1>3, <1>6, <1>7, AudioLastOf
  <2>2. TrackLastSector(d, disc, t) = last
    BY <1>3, <1>7 DEF TrackLastSector
  <2> QED BY <1>1, <2>1, <2>2
<1>8. CASE last = InvalidLsn /\ t = d.tracks
  <2>1. TrackLastSector(d, disc, t) = d.last
    BY <1>3, <1>8 DEF TrackLastSector
  <2> QED BY <1>1, <2>1
<1>9. CASE last = InvalidLsn /\ t # d.tracks
  <2>1. t + 1 \in DOMAIN S
    BY <1>1, <1>3, <1>4, <1>9
  <2>2. S[t] < S[t + 1] /\ InvalidLsn < S[t] /\ S[t] \in Int /\ S[t + 1] \in Int
    <3>1. t < t + 1
      BY <1>1
    <3>2. \A n \in DOMAIN S : S[n] \in -IntLimit .. IntLimit - 1
      BY CApiAssumption
    <3>3. IntLimit \in Nat
      BY CApiAssumption
    <3>4. \A n \in DOMAIN S : S[n] \in Int
      BY <3>2, <3>3
    <3> QED BY <1>2, <1>4, <2>1, <3>1, <3>4 DEF Ordered
  <2>3. last = S[t + 1] - 1
    BY <1>1, <1>4, <2>1, <2>2 DEF TrackLastLsn
  <2> QED BY <1>1, <1>9, <2>2, <2>3
<1> QED BY <1>7, <1>8, <1>9

LEMMA PrepareCopies ==
  ASSUME IInv, TocInv, CopyInv, NEW t \in 1 .. MaxTracks, StartCopy(t)
  PROVE  CopyInv'
<1>1. /\ rip.phase = "ready" /\ IsTrack(drive, t) /\ Prepare(t) /\ reader.first <= reader.last
      /\ UNCHANGED <<tray, drive, out, client, moved, swapped>>
  BY DEF StartCopy, Chosen
<1>2. /\ ReaderOK /\ DriveOK /\ drive.opened /\ HasDrive /\ client # "program"
      /\ reader.first = drive.first /\ reader.last = drive.last
  BY <1>1 DEF IInv, RipOK, CopyInv
<1>3. drive \in DriveType(Devices) /\ Disc \in Discs /\ TocGood(Disc) /\ Copied(drive, Disc)
  BY <1>2 DEF DriveOK, TocInv
<1>4. Disc' = Disc /\ HasDrive' /\ drive' = drive
  BY <1>1, <1>2 DEF Disc, HasDrive
<1> DEFINE n == reader.first + TrackStart(t)
           sought == SeekTo(reader, n)
<1>5. TrackStart(t) \in Int /\ n \in Int
  <2>1. TrackStart(t) \in Int
    BY <1>1, <1>3, DriveAssumption DEF TrackStart, TrackFirstSector, IsTrack, DriveType
  <2> QED BY <1>2, <2>1 DEF ReaderOK, ReaderShape
<1>6. /\ ReaderShape(sought) /\ sought.root = <<>>
      /\ sought.first = reader.first /\ sought.last = reader.last
      /\ sought.cursor = Clamp(Wrap(n), reader.first, reader.last)
  <2>1. /\ ReaderShape(sought) /\ sought.root = <<>>
        /\ sought.first = reader.first /\ sought.last = reader.last
    BY <1>1, <1>2, <1>5, SeekToOK DEF ReaderOK
  <2>2. sought.cursor = Clamp(Wrap(n), reader.first, reader.last)
    <3> HIDE DEF n
    <3> QED BY <1>2 DEF SeekTo, ReaderOK, ReaderShape
  <2> QED BY <2>1, <2>2
<1>7. reader' = WithMode(sought, TRUE, TRUE)
  BY <1>1 DEF Prepare
<1> HIDE DEF sought
<1>8. /\ reader'.root = <<>> /\ reader'.first = reader.first /\ reader'.last = reader.last
      /\ reader'.cursor = sought.cursor /\ reader'.skip = FALSE
  <2>1. sought \in [first : Int, last : Int, cursor : Int, verify : BOOLEAN, skip : BOOLEAN,
                    root : {<<>>}]
    BY <1>6 DEF ReaderShape
  <2> QED BY <1>6, <1>7, <2>1 DEF WithMode
<1>9. /\ rip'.phase = "copying" /\ rip'.track = t /\ rip'.written = <<>>
      /\ rip'.last = TrackLastSector(drive, Disc, t)
      /\ rip'.promised = TrackLastSector(drive, Disc, t) - TrackFirstSector(drive, t) + 1
  BY <1>1 DEF Prepare, NoRip
<1>10. ASSUME Sound(Disc), t \in Disc.audio
       PROVE  Copies'
  <2> DEFINE begin == TrackLsn(Disc, t)
             end == TrackLastLsn(Disc, t)
  <2>1. t \in Indices(Disc)
    BY <1>1, <1>3, DriveAssumption, CApiAssumption
       DEF IsTrack, Copied, Indices, TocGood, HasToc, NoTracks
  <2>2. /\ begin \in -IntLimit .. IntLimit - 1 /\ begin \in Int /\ end \in Int /\ begin <= end
        /\ Number(Disc, t) = t
    BY <1>3, <1>10, <2>1, SoundTracks, DiscTyped
  <2>3. t \in Audio(Disc)
    BY <1>10, <2>1, <2>2 DEF Audio
  <2>4. /\ TrackFirstSector(drive, t) = begin /\ TrackLastSector(drive, Disc, t) = end
        /\ begin \in drive.first .. drive.last /\ end \in drive.first .. drive.last
    BY <1>3, <1>10, <2>1, <2>3, HandleAnswers
  <2>5. drive.first \in Int /\ drive.last \in Int
    BY <1>3 DEF DriveType
  <2> HIDE DEF begin, end
  <2>6. n = begin
    BY <1>2, <2>2, <2>4, <2>5 DEF TrackStart
  <2>7. reader'.cursor = begin
    BY <1>2, <1>6, <1>8, <2>2, <2>4, <2>5, <2>6, WrapSmall DEF Clamp, Larger, Smaller
  <2>8. /\ rip'.last = end /\ rip'.promised = end - begin + 1
        /\ rip'.written \in Seq(Frames) /\ Len(rip'.written) = 0
        /\ Len(rip'.written) <= rip'.promised /\ DOMAIN rip'.written = {}
        /\ reader'.cursor = begin + Len(rip'.written)
        /\ begin \in reader'.first .. reader'.last /\ end <= reader'.last
    BY <1>2, <1>8, <1>9, <2>2, <2>4, <2>5, <2>7
  <2> QED BY <1>4, <1>8, <1>9, <2>1, <2>8 DEF Copies, begin, end
<1>11. client' = "cdtest" => rip'.last \in Int /\ rip'.last <= reader'.last
  <2>1. client = "cdtest" => TrackIsAudio(drive, Disc, t)
    BY DEF StartCopy, Chosen
  <2> QED BY <1>1, <1>2, <1>3, <1>8, <1>9, <2>1, LastWithinRange
<1> QED BY <1>1, <1>2, <1>4, <1>8, <1>9, <1>10, <1>11 DEF CopyInv

LEMMA CopyCopies ==
  ASSUME IInv, TocInv, CopyInv, Copy
  PROVE  CopyInv'
<1>1. /\ rip.phase = "copying" /\ More /\ ReadLimited
      /\ UNCHANGED <<tray, drive, client, moved, swapped>>
  BY DEF Copy
<1>2. /\ ReaderOK /\ DriveOK /\ drive.opened /\ HasDrive /\ client # "program"
      /\ reader.first = drive.first /\ reader.last = drive.last
  BY <1>1 DEF IInv, RipOK, CopyInv
<1>3. Disc \in Discs /\ TocGood(Disc)
  BY <1>2 DEF DriveOK, TocInv
<1>4. Disc' = Disc /\ HasDrive' = HasDrive /\ drive' = drive
  BY <1>1 DEF Disc, HasDrive
<1>5. reader'.first = reader.first /\ reader'.last = reader.last /\ reader'.skip = reader.skip
  BY <1>1, <1>2, ReadMoves
<1>6. /\ rip'.track = rip.track /\ rip'.last = rip.last /\ rip'.promised = rip.promised
      /\ \/ /\ out'.kind # "error" /\ rip'.phase = "copying"
            /\ rip'.written = Append(rip.written, out')
         \/ rip'.phase = "broken"
         \/ out'.kind = "error" /\ rip' = rip
  <2>1. rip \in [phase : {"copying"}, track : {rip.track}, last : {rip.last},
                 promised : {rip.promised}, written : {rip.written}]
    BY <1>1 DEF IInv, RipOK
  <2>2. \/ out'.kind # "error" /\ rip' = [rip EXCEPT !.written = Append(@, out')]
        \/ rip' = [rip EXCEPT !.phase = "broken"]
        \/ out'.kind = "error" /\ rip' = rip
    BY DEF Copy
  <2> QED BY <2>1, <2>2
<1>7. ASSUME Sound(Disc), rip.track \in Disc.audio, rip'.phase \in {"copying", "done"}
      PROVE  Copies'
  <2> DEFINE begin == TrackLsn(Disc, rip.track)
             end == TrackLastLsn(Disc, rip.track)
             count == Len(rip.written)
  <2>1. Copies
    BY <1>1, <1>7 DEF CopyInv
  <2>2. /\ rip.track \in Indices(Disc) /\ rip.last = end /\ rip.promised = end - begin + 1
        /\ rip.written \in Seq(Frames) /\ count <= rip.promised /\ count \in Nat
        /\ \A i \in DOMAIN rip.written : rip.written[i] = FrameAt(begin + i - 1)
        /\ reader.cursor = begin + count /\ reader.skip = FALSE
        /\ begin \in reader.first .. reader.last /\ end <= reader.last
        /\ \A s \in DOMAIN reader.root : reader.root[s] = Disc
    BY <1>1, <2>1 DEF Copies
  <2>3. begin \in Int /\ end \in Int /\ reader.last \in Int
    BY <1>2, <1>3, DiscTyped DEF ReaderOK, ReaderShape
  <2> HIDE DEF begin, end, count
  <2>4. reader.cursor <= end /\ count + 1 <= rip.promised /\ reader.cursor <= reader.last
    <3>1. reader.cursor <= rip.last \/ count < rip.promised
      BY <1>1 DEF More, count
    <3> QED BY <2>2, <2>3, <3>1
  <2>5. out'.kind # "silence" /\ out'.kind \in {"none", "frame", "silence", "error"}
    <3>1. out'.kind # "silence"
      BY <1>1, <1>2, <2>2, ReadMoves
    <3>2. OutOK'
      BY <1>1, <1>2, ReadKeeps DEF IInv
    <3> QED BY <3>1, <3>2 DEF OutOK
  <2>6. CASE out'.kind = "error" /\ rip' = rip
    <3>1. reader' = reader
      BY <1>1, <1>2, <2>2, <2>4, <2>6, ReadMoves
    <3> QED BY <1>1, <1>4, <2>1, <2>6, <3>1 DEF Copies, FrameAt, Disc
  <2>7. CASE /\ out'.kind # "error" /\ rip'.phase = "copying"
             /\ rip'.written = Append(rip.written, out')
    <3>1. out'.kind = "frame"
      <4>1. out'.kind # "none"
        BY <1>1 DEF ReadLimited, ReadBeyond, ReadFromRoot, ReadFails, ReadFromDrive, FrameAt
      <4> QED BY <2>5, <2>7, <4>1
    <3>2. out' = FrameAt(reader.cursor) /\ reader'.cursor = reader.cursor + 1
      BY <1>1, <1>2, <2>2, <3>1, ReadMoves
    <3>3. \A s \in DOMAIN reader'.root : reader'.root[s] = Disc
      BY <1>1, <1>2, <2>2, ReadMoves
    <3>4. out' \in Frames
      BY <1>3, <2>2, <2>3, <3>2 DEF FrameAt, Frames
    <3>5. /\ rip'.written \in Seq(Frames) /\ Len(rip'.written) = count + 1
          /\ DOMAIN rip'.written = 1 .. count + 1
          /\ rip'.written[count + 1] = out'
          /\ \A i \in 1 .. count : rip'.written[i] = rip.written[i]
      BY <2>2, <2>7, <3>4 DEF count
    <3>6. \A i \in 1 .. count : i \in DOMAIN rip.written
      BY <2>2 DEF count
    <3>7. \A i \in DOMAIN rip'.written : rip'.written[i] = FrameAt(begin + i - 1)
      <4> SUFFICES ASSUME NEW i \in 1 .. count + 1
                   PROVE  rip'.written[i] = FrameAt(begin + i - 1)
        BY <3>5
      <4>1. CASE i = count + 1
        <5>1. begin + i - 1 = reader.cursor
          BY <2>2, <2>3, <4>1
        <5> QED BY <3>2, <3>5, <4>1, <5>1
      <4>2. CASE i # count + 1
        <5>1. i \in 1 .. count
          BY <2>2, <4>2
        <5> QED BY <2>2, <3>5, <3>6, <5>1
      <4> QED BY <4>1, <4>2
    <3>8. reader'.cursor = begin + Len(rip'.written)
      BY <2>2, <2>3, <3>2, <3>5
    <3>9. \A x : FrameAt(x)' = FrameAt(x)
      BY <1>4 DEF FrameAt
    <3>10. Len(rip'.written) <= rip'.promised
      BY <1>6, <2>4, <3>5
    <3>11. /\ rip'.track \in Indices(Disc) /\ rip'.last = end /\ rip'.promised = end - begin + 1
           /\ reader'.skip = FALSE /\ begin \in reader'.first .. reader'.last
           /\ end <= reader'.last
      BY <1>5, <1>6, <2>2
    <3> QED BY <1>4, <1>6, <2>7, <3>3, <3>5, <3>7, <3>8, <3>10, <3>11 DEF Copies, FrameAt, begin, end
  <2> QED BY <1>6, <1>7, <2>6, <2>7
<1> QED BY <1>1, <1>2, <1>4, <1>5, <1>6, <1>7 DEF CopyInv

LEMMA FinishCopies ==
  ASSUME IInv, TocInv, CopyInv, Finish
  PROVE  CopyInv'
<1>1. /\ rip.phase = "copying" /\ ~More
      /\ UNCHANGED <<tray, drive, reader, client>> /\ Disc' = Disc
  BY DEF Finish, apiVars, Disc
<1>2. /\ rip'.phase = "done" /\ rip'.track = rip.track /\ rip'.last = rip.last
      /\ rip'.promised = rip.promised /\ rip'.written = rip.written
  <2>1. rip \in [phase : {"copying"}, track : {rip.track}, last : {rip.last},
                 promised : {rip.promised}, written : {rip.written}]
    BY <1>1 DEF IInv, RipOK
  <2> QED BY <2>1 DEF Finish
<1>3. ASSUME Copies
      PROVE  Copies'
  <2> DEFINE begin == TrackLsn(Disc, rip.track)
             end == TrackLastLsn(Disc, rip.track)
             count == Len(rip.written)
  <2>1. Disc \in Discs
    BY <1>1 DEF IInv, RipOK, DriveOK
  <2>2. begin \in Int /\ end \in Int
    BY <2>1, DiscTyped
  <2>3. /\ rip.last = end /\ rip.promised = end - begin + 1 /\ count <= rip.promised /\ count \in Nat
        /\ reader.cursor = begin + count
    BY <1>1, <1>3 DEF Copies
  <2>4. ~(reader.cursor <= rip.last) \/ ~(count < rip.promised)
    BY <1>1 DEF More
  <2>5. count = rip.promised
    <3> HIDE DEF begin, end, count
    <3> QED BY <2>2, <2>3, <2>4
  <2> QED BY <1>1, <1>2, <1>3, <2>5 DEF Copies, FrameAt
<1> QED BY <1>1, <1>2, <1>3 DEF CopyInv, HasDrive

LEMMA CopyStep ==
  ASSUME IInv, TocInv, CopyInv, [Next]_vars
  PROVE  CopyInv'
<1>1. CASE UNCHANGED vars
  BY <1>1 DEF vars, apiVars, CopyInv, Copies, FrameAt, HasDrive, Disc
<1>2. CASE ProgramNext
  <2>1. client = "program" /\ rip' = rip
    BY <1>2 DEF ProgramNext, ApiNext, ExchangeDisc, Identify, FindACdrom, Open, Close, CddapClose,
         ParanoiaInit, ParanoiaFree, Read, ModeSet, SetRange, Seek, SeekPanics, Calls
  <2>2. rip'.phase = "none"
    BY <2>1 DEF IInv, RipOK
  <2> QED BY <2>2 DEF CopyInv
<1>3. ASSUME NEW device \in Devices, StartCdtest(device) PROVE CopyInv'
  BY <1>3, BeginCopies DEF StartCdtest, NoRip
<1>4. ASSUME NEW device \in Devices, StartRipTrack(device) PROVE CopyInv'
  BY <1>4, BeginCopies DEF StartRipTrack, NoRip
<1>5. ASSUME NEW t \in 1 .. MaxTracks, CopyPanics(t) PROVE CopyInv'
  <2>1. rip'.phase = "broken"
    BY <1>5 DEF CopyPanics, IInv, RipOK
  <2> QED BY <2>1 DEF CopyInv
<1>6. CASE TestRead
  <2>1. /\ rip.phase = "test" /\ ReadLimited /\ rip'.phase = "ready"
        /\ UNCHANGED <<tray, drive, client, moved, swapped>>
    BY <1>6 DEF TestRead, IInv, RipOK
  <2>2. ReaderOK
    BY <2>1 DEF IInv, RipOK
  <2>3. reader'.first = reader.first /\ reader'.last = reader.last
    BY <2>1, <2>2, ReadMoves
  <2> QED BY <2>1, <2>3 DEF CopyInv, HasDrive
<1> QED BY <1>1, <1>2, <1>3, <1>4, <1>5, <1>6, PrepareCopies, CopyCopies, FinishCopies DEF Next

(* A file that was finished holds the track, whatever the disc, the other  *)
(* drives, the batches that reads left in the root, and the errors on the  *)
(* way (cdtest.rs and rip_track.c).                                        *)
THEOREM FilesHoldTracks == Spec => []FileHoldsTrack
<1>1. Init => CopyInv
  BY DEF Init, NoRip, CopyInv
<1>2. IInv /\ TocInv /\ CopyInv /\ [Next]_vars => CopyInv'
  BY CopyStep
<1>3. ASSUME IInv, TocInv, CopyInv
      PROVE  FileHoldsTrack
  <2> SUFFICES ASSUME rip.phase = "done", Sound(Disc), rip.track \in Disc.audio
               PROVE  FileHoldsTrack
    BY DEF FileHoldsTrack
  <2>1. Copies /\ HasDrive /\ drive.opened
    BY <1>3 DEF CopyInv
  <2>2. Disc \in Discs /\ TocGood(Disc)
    BY <1>3, <2>1 DEF IInv, DriveOK, TocInv, HasDrive
  <2>3. rip.track \in Indices(Disc)
    BY <2>1 DEF Copies
  <2> DEFINE begin == TrackLsn(Disc, rip.track)
             end == TrackLastLsn(Disc, rip.track)
  <2>4. begin \in Int /\ end \in Int /\ begin <= end
    BY <1>3, <2>2, <2>3, SoundTracks, DiscTyped
  <2>5. Cardinality(begin .. end) = end - begin + 1
    <3> HIDE DEF begin, end
    <3> QED BY <2>4, FS_Interval
  <2>6. SectorsOf(Disc, rip.track) = begin .. end
    BY DEF SectorsOf
  <2> QED BY <2>1, <2>5, <2>6 DEF FileHoldsTrack, Copies
<1> QED BY <1>1, <1>2, <1>3, Invariant, TocInvariant, PTL DEF Spec

(* cdtest never asks for a frame past the reader's range, for every disc   *)
(* and track it may choose: where it reads on after an error, the read is  *)
(* not refused.                                                            *)
THEOREM ReadsAreNotRefused == Spec => []NeverRefused
<1>1. Init => CopyInv
  BY DEF Init, NoRip, CopyInv
<1>2. IInv /\ TocInv /\ CopyInv /\ [Next]_vars => CopyInv'
  BY CopyStep
<1>3. ASSUME IInv, CopyInv
      PROVE  NeverRefused
  <2> SUFFICES ASSUME rip.phase = "copying", client = "cdtest", More
               PROVE  reader.cursor <= reader.last
    BY DEF NeverRefused
  <2>1. reader.cursor <= rip.last /\ rip.last \in Int /\ rip.last <= reader.last
    BY <1>3 DEF CopyInv, More
  <2>2. reader.cursor \in Int /\ reader.last \in Int
    BY <1>3 DEF IInv, RipOK, ReaderOK, ReaderShape
  <2> QED BY <2>1, <2>2
<1> QED BY <1>1, <1>2, <1>3, Invariant, TocInvariant, PTL DEF Spec
=============================================================================
