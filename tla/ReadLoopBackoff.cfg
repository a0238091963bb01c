SPECIFICATION FairSpec
CONSTANTS
  ErrorThreshold = 3
  BaseSectors = 16
  MaxSectors = 128
  BaseDelay = 50
  MaxDelay = 500
  NoSector = NoSector
  DiscFirst = 10
  DiscLast = 11
  BatchSize = 26
  MinOverlap = 2
  MaxOverlap = 1
  MaxBackoffs = 3
  MinReads = 3
  MaxAdditional = 5
  MinCacheBlocks = 1
  DefaultModel = 1
  RetryLimits = {20}
  Moves = {}
  Bounds = {}
  Overlaps = {}
  CacheSizes <- AskOrTwo
  Modes = {}
CHECK_DEADLOCK FALSE
INVARIANTS TypeOK BackoffBelongsToRead BackoffLadder VerifiedMeansFromRoot
PROPERTIES ReadsAdvance EveryReadEnds
