SPECIFICATION Spec
CONSTANTS
  Values = {0, 1}
  FrameWords = 2
  Frames = 3
  Overlaps = {0, 1}
  BatchFrames = 1
  RetainFrames = 2
  Correct = 0
  Weak = {1, 2, 3}
  MaxMisread = 1
CHECK_DEADLOCK FALSE
INVARIANTS TypeOK FragmentsApart FragmentsBacked RootBacked
PROPERTIES VerifiedRootStays RootMergesPointwise RootKeptInSectors
