SPECIFICATION FairSpec
CONSTANTS
  Readers = {r1}
  Writers = {w1, w2}
  BufferSize = 2
  IncreasedBufferSize = 5
  MaxPooledBufferSize = 4
  SliceLens = {1}
  Options <- MCOptions
  MaxLen = 2
  MaxCalls = 2
  MaxEpoch = 1
  Free = Free
INVARIANTS PipeInv WritesAgree
PROPERTIES PipeLive
CHECK_DEADLOCK FALSE
