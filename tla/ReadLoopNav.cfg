SPECIFICATION Spec
CONSTANTS
  ErrorThreshold = 1
  BaseSectors = 1
  MaxSectors = 2
  BaseDelay = 1
  MaxDelay = 1
  NoSector = NoSector
  DiscFirst = 0
  DiscLast = 4
  BatchSize = 2
  MinOverlap = 1
  MaxOverlap = 2
  MaxBackoffs = 1
  MinReads = 4
  MaxAdditional = 1
  MinCacheBlocks = 1
  DefaultModel = 1
  RetryLimits = {0, 2}
  Moves <- NearMoves
  Bounds <- RangeEnds
  Overlaps = {3}
  CacheSizes = {0, 2}
  Modes <- AllModes
CHECK_DEADLOCK FALSE
INVARIANTS ReadInv RequestsInRange GapNeedsStrays
PROPERTIES CacheStaysBounded ReadsInOrder RootGrowsAroundCursor
