SPECIFICATION TablesSpec
CONSTANTS
  Keys = {1, 2, 3}
  Values = {v}
  Cap = 2
  Lifetimes = {0, 1}
  DefaultLifetime = 2
  MaxTime = 2
  Size = 3
  HashRange = 16
  Hash <- HashOfKey
  EmptyKey = 1
  CacheKeys = {1, 2, 3}
  CacheOptions <- MCCacheOptions
  MaxClock = 3
  MaxValues = 3
  Fallbacks = {TRUE, FALSE}
  ReadLens = {1, 2}
  MaxBytes = 4
  MaxSets = 3
INVARIANTS LRUsInv CacheAccounts ReaderInv BytesInOrder
PROPERTIES NoneLostNoneStale ImplementsLRUs DeadlineEndsSelect
CHECK_DEADLOCK FALSE
