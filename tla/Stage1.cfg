SPECIFICATION FairSpec
CONSTANTS
  FrameWords = 3
  MinWordsOverlap = 3
  MinWordsSearch = 3
  MaxSectorOverlap = 2
  RingSize = 2
  Interval = 2
  Values = {0, 1, 2, 3, 4, 5, 6, 7, 8, 9, 10, 11, 12, 13}
  Sectors = 4
  BatchSectors = 1
  MinSectors = 1
  CacheLimit = 2
  Click = 13
  Discs <- SomeDiscs
  Shifts <- SomeShifts
  Misread <- SomeMisread
  SecondShifts = {0, 1}
  Overlaps = {6}
INVARIANTS TypeOK IndexDescribesBlock FoundIsRun MissedMeansNone JitterIsTheDrives RingsHoldLatest OverlapCovers
PROPERTIES SearchEnds SearchesAdvance
