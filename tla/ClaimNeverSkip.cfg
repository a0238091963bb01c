SPECIFICATION Spec
CONSTANTS
  ErrorThreshold = 2
  BaseSectors = 1
  MaxSectors = 2
  BaseDelay = 1
  MaxDelay = 1
  NoSector = NoSector
  DiscFirst = 0
  DiscLast = 3
  BatchSize = 1
  MinOverlap = 1
  MaxOverlap = 1
  MaxBackoffs = 1
  MinReads = 3
  MaxAdditional = 2
  MinCacheBlocks = 1
  DefaultModel = 2
  RetryLimits = {2}
  Moves = {}
  Bounds = {}
  Overlaps = {}
  CacheSizes = {}
  Modes = {}
CHECK_DEADLOCK FALSE
PROPERTY NeverSkipIsNeverSilent
