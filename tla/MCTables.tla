------------------------------- MODULE MCTables -------------------------------
(***************************************************************************)
(* What keeps things for later calls, one at a time: a freelru.LRU with    *)
(* three keys, the first two of which collide; a longer one whose four     *)
(* keys all collide, so that its bucket holds up to three entries;         *)
(* LruCaches with and without an age, a size and stale answers; and the    *)
(* readers of deadline.Conn, with the results of earlier reads.            *)
(***************************************************************************)
EXTENDS FreeLRU, LruCacheCalls, DeadlineReader

HashOfKey(k) == IF k < 3 THEN 0 ELSE HashRange - 1

CacheOf(age, size, update, stale) ==
  [maxAge |-> age, maxSize |-> size, updateAgeOnGet |-> update, staleReturn |-> stale]
MCCacheOptions ==
  {CacheOf(2, 2, TRUE, FALSE), CacheOf(2, 0, FALSE, FALSE), CacheOf(1, 2, FALSE, TRUE), CacheOf(0, 2, FALSE, FALSE)}

\* The longer freelru.LRU.
ChainHash(k) == 0
Chain == INSTANCE FreeLRU WITH Keys <- 1 .. 4, Cap <- 3, Size <- 3, Hash <- ChainHash,
                               Lifetimes <- {0}, DefaultLifetime <- 0, MaxTime <- 1

VARIABLE part   \* what is called
tableVars == <<part, vars, lruVars, readerVars>>

TablesInit ==
  /\ part \in {"freelru", "chain", "lrucache", "reader"} /\ Init
  /\ part = "lrucache" \/ options = CacheOf(0, 2, FALSE, FALSE)
  /\ CacheInit
  /\ part = "reader" \/ fallback = FALSE
  /\ ReaderInit

TablesNext ==
  \/ part = "freelru" /\ Next /\ UNCHANGED <<part, lruVars, readerVars>>
  \/ part = "chain" /\ Chain!Next /\ UNCHANGED <<part, lruVars, readerVars>>
  \/ part = "lrucache" /\ CacheNext /\ UNCHANGED <<part, vars, readerVars>>
  \/ part = "reader" /\ ReaderNext /\ UNCHANGED <<part, vars, lruVars>>

\* Nothing that ReaderFairness speaks of is enabled in the reader's initial
\* state, where it stays when it is not what is called.
TablesSpec == TablesInit /\ [][TablesNext]_tableVars /\ ReaderFairness

-----------------------------------------------------------------------------
\* The array, the rings and the buckets of either LRU are well formed after
\* every operation (FreeLRU's LRUInv).
LRUsInv == IF part = "chain" THEN Chain!LRUInv ELSE LRUInv

\* Every operation of either LRU does what AbstractLRU says.
LRUStep ==
  CASE part = "freelru" -> Abstract!Next
    [] part = "chain" -> Chain!Abstract!Next
    [] part \in {"lrucache", "reader"} -> UNCHANGED vars
ImplementsLRUs == Abstract!Init /\ [][LRUStep]_vars

\* What a step of either cache may not do: let an entry go without a call of
\* the callback (EvictionsReported), or give an expired one (NothingExpired).
NoneLostNoneStale == EvictionsReported /\ NothingExpired
=============================================================================
