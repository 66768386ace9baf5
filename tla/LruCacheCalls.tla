----------------------------- MODULE LruCacheCalls ----------------------------
(***************************************************************************)
(* Every sequence of calls of an LruCache, while time passes.              *)
(***************************************************************************)
EXTENDS LruCache

CONSTANTS CacheKeys,
          CacheOptions,          \* what New is given: maxAge, maxSize, ...
          MaxClock, MaxValues    \* bounds: seconds, and values that are stored

ASSUME CacheAssumption ==
  /\ CacheOptions \subseteq [maxAge : Nat, maxSize : Nat, updateAgeOnGet : BOOLEAN, staleReturn : BOOLEAN]
  /\ MaxClock \in Nat /\ MaxValues \in Nat

-----------------------------------------------------------------------------
VARIABLES options, lruList, clock,
          made,      \* the number of values that were stored: 1, 2, ...
          evictions, \* calls of onEvict, in their order
          replaced,  \* values that Store has overwritten
          answer     \* of the last call: its key, its value and whether it looked

lruVars == <<options, lruList, clock, made, evictions, replaced, answer>>

CacheInit ==
  /\ options \in CacheOptions
  /\ lruList = <<>> /\ clock = 0 /\ made = 0 /\ evictions = <<>> /\ replaced = {}
  /\ answer = [looked |-> FALSE, key |-> Miss, value |-> Miss]

CacheReply(k, o, looked) ==
  /\ lruList' = o.lru
  /\ evictions' = evictions \o [i \in 1 .. Len(o.evicts) |-> o.evicts[i].value]
  /\ answer' = [looked |-> looked, key |-> k, value |-> o.value]
  /\ UNCHANGED <<options, clock>>

CacheLoad(k) == CacheReply(k, getEntry(options, lruList, k, clock), TRUE) /\ UNCHANGED <<made, replaced>>

CacheLoadOrStore(k, age) ==
  /\ made < MaxValues
  /\ LET o == LoadOrStore(options, lruList, k, AgeOf(options, age), made + 1, clock)
     IN CacheReply(k, o, TRUE) /\ made' = IF o.value = made + 1 THEN made + 1 ELSE made
  /\ UNCHANGED replaced

CacheStore(k, age) ==
  /\ made < MaxValues
  /\ CacheReply(k, StoreWithExpire(options, lruList, k, made + 1,
                           IF options.maxAge > 0 THEN clock + AgeOf(options, age) ELSE 0, clock), FALSE)
  /\ made' = made + 1
  /\ replaced' = IF Has(lruList, k) THEN replaced \cup {EntryOf(lruList, k).value} ELSE replaced

CacheDelete(k) == CacheReply(k, deleteKey(lruList, k), FALSE) /\ UNCHANGED <<made, replaced>>
CacheClear == lruList # <<>> /\ CacheReply(lruList[1].key, ClearList(lruList), FALSE) /\ UNCHANGED <<made, replaced>>

CacheTick == clock < MaxClock /\ clock' = clock + 1 /\ UNCHANGED <<options, lruList, made, evictions, replaced, answer>>

CacheNext ==
  \/ CacheTick \/ CacheClear
  \/ \E k \in CacheKeys :
       \/ CacheLoad(k) \/ CacheDelete(k)
       \/ \E age \in {0, options.maxAge + 1} : CacheLoadOrStore(k, age) \/ CacheStore(k, age)
CacheSpec == CacheInit /\ [][CacheNext]_lruVars

-----------------------------------------------------------------------------
InCache == {lruList[i].value : i \in 1 .. Len(lruList)}
EvictedValues == {evictions[i] : i \in 1 .. Len(evictions)}

\* The cache accounts for every value: it is held under one key, or onEvict
\* was called for it, once, or a Store has replaced it; there are never more
\* than maxSize, and a caller is given only a value that is held, that is the
\* newest of its key and that has not expired.
CacheAccounts ==
  /\ \A i, j \in 1 .. Len(lruList) : lruList[i].key = lruList[j].key => i = j
  /\ options.maxSize > 0 => Len(lruList) <= options.maxSize
  /\ Len(evictions) = Cardinality(EvictedValues)
  /\ InCache \cap EvictedValues = {} /\ InCache \cap replaced = {} /\ EvictedValues \cap replaced = {}
  /\ InCache \cup EvictedValues \cup replaced = 1 .. made
  /\ answer.looked /\ answer.value # Miss => answer.value \in InCache

\* A look-up does not give an expired value, unless the cache may: the clock
\* that the entry was made or renewed by and the one it is found by differ.
NothingExpired ==
  [][answer'.looked /\ answer' # answer /\ answer'.value # Miss /\ ~options.staleReturn =>
       \A i \in 1 .. Len(lruList) : lruList[i].value = answer'.value => ~Expired(options, lruList[i], clock)]_lruVars
=============================================================================
