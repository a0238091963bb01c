SPECIFICATION FairSpec
CONSTANTS
  MaxTracks = 2
  InvalidLsn <- NoLsn
  InvalidTrack = 255
  Devices = {1, 2}
  Discs <- AllDiscs
  Trays <- SomeTrays
  Exchanged <- Others
  Absent = Absent
  IntLimit = 16
  Moves <- SomeMoves
  Bounds = {2, 9}
  NoDrive = NoDrive
  NoReader = NoReader
CHECK_DEADLOCK FALSE
INVARIANTS TypeOK TocOfDisc TracksAgree RangeOnDisc FramesOfDisc FileHoldsTrack NeverRefused
PROPERTIES FindsFirst CopiesEnd
