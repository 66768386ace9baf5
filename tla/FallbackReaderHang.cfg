SPECIFICATION ReaderFairSpec
CONSTANTS
  Fallbacks = {TRUE}
  ReadLens = {1}
  MaxBytes = 2
  MaxSets = 2

PROPERTIES DeadlineEndsRead
CHECK_DEADLOCK FALSE
