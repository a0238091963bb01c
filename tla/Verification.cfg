SPECIFICATION Spec
CONSTANTS
  BatchWords = 8
  FrameWords = 2
  MinWordsOverlap = 2
  MinWordsRift = 2
  MaxSearch = 3
  MinReads = 3
  MaxAdditional = 2
  Quiet <- Silence
  Values = {0, 40}
  Weak = {3, 7}
  Slips <- SomeSlips
  Discs <- SomeDiscs
  Searches = {2, 5}
CHECK_DEADLOCK FALSE
INVARIANTS RiftsRecognised ShiftsMeasured ReliableSamplesRight
