SPECIFICATION ReaderFairSpec
CONSTANTS
  Fallbacks = {FALSE}
  ReadLens = {1, 2}
  MaxBytes = 4
  MaxSets = 3
PROPERTIES DeadlineEndsRead
CHECK_DEADLOCK FALSE
