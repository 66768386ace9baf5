------------------------------- MODULE LruCache -------------------------------
(***************************************************************************)
(* cache.LruCache (src/common/cache/lrucache.go): a map and a list with    *)
(* the least recently used entry in front, an age after which an entry has *)
(* expired and a number of entries it may hold.  Every method runs under   *)
(* one mutex.  The map and the list are always changed together, so the    *)
(* list alone is the state; what a method evicts it reports to onEvict.    *)
(* o below is what New was given: maxAge, maxSize, updateAgeOnGet and      *)
(* staleReturn.                                                            *)
(***************************************************************************)
EXTENDS Naturals, Sequences, FiniteSets

Entry(k, v, expires) == [key |-> k, value |-> v, expires |-> expires]

IndexOf(l, k) == {i \in 1 .. Len(l) : l[i].key = k}
Has(l, k) == IndexOf(l, k) # {}
PlaceOf(l, k) == CHOOSE i \in IndexOf(l, k) : TRUE
EntryOf(l, k) == l[PlaceOf(l, k)]
Without(l, k) ==
  IF Has(l, k) THEN SubSeq(l, 1, PlaceOf(l, k) - 1) \o SubSeq(l, PlaceOf(l, k) + 1, Len(l)) ELSE l

\* What a method leaves in the list, what it evicts, and what it returns.
Outcome(l, evicts, value) == [lru |-> l, evicts |-> evicts, value |-> value]
Miss == 0

Expired(o, e, now) == o.maxAge > 0 /\ e.expires <= now

\* deleteElement
deleteElement(l, k) == Outcome(Without(l, k), <<EntryOf(l, k)>>, Miss)

\* How many entries in front have expired: maybeDeleteOldest stops at the
\* first that has not, whatever is behind it.
ExpiredInFront(o, l, now) ==
  Cardinality({i \in 1 .. Len(l) : \A j \in 1 .. i : Expired(o, l[j], now)})

\* Mutation: nothing is deleted for the cache's size.
DeleteOldestLate(o, l, now) ==
  LET n == IF o.staleReturn THEN 0 ELSE ExpiredInFront(o, l, now)
  IN Outcome(SubSeq(l, n + 1, Len(l)), SubSeq(l, 1, n), Miss)

maybeDeleteOldest(o, l, now) ==
  LET n == IF o.staleReturn THEN 0 ELSE ExpiredInFront(o, l, now)
      over == IF o.maxSize > 0 /\ Len(l) - n > o.maxSize THEN 1 ELSE 0
  IN Outcome(SubSeq(l, n + over + 1, Len(l)), SubSeq(l, 1, n + over), Miss)

\* A hit: to the back, and younger where the cache says so.
Touch(o, l, k, age, now) ==
  LET e == EntryOf(l, k)
  IN Append(Without(l, k),
            [e EXCEPT !.expires = IF o.maxAge > 0 /\ o.updateAgeOnGet THEN now + age ELSE @])

\* get, of Load and LoadWithExpire
getEntry(o, l, k, now) ==
  IF ~Has(l, k) THEN Outcome(l, <<>>, Miss)
  ELSE IF ~o.staleReturn /\ Expired(o, EntryOf(l, k), now)
  THEN LET rest == maybeDeleteOldest(o, Without(l, k), now)
       IN Outcome(rest.lru, <<EntryOf(l, k)>> \o rest.evicts, Miss)
  ELSE Outcome(Touch(o, l, k, o.maxAge, now), <<>>, EntryOf(l, k).value)

\* Mutation: an entry that has expired is a hit.
LoadStale(o, l, k, age, v, now) ==
  IF Has(l, k)
  THEN Outcome(Touch(o, l, k, age, now), <<>>, EntryOf(l, k).value)
  ELSE LET rest == maybeDeleteOldest(o, Append(l, Entry(k, v, now + o.maxAge)), now)
       IN Outcome(rest.lru, rest.evicts, v)

\* LoadOrStore and LoadOrStoreWithAge: an expired entry is evicted and a new
\* one made, whose age is the cache's even when the caller gives another.
LoadOrStore(o, l, k, age, v, now) ==
  IF Has(l, k) /\ ~Expired(o, EntryOf(l, k), now)
  THEN Outcome(Touch(o, l, k, age, now), <<>>, EntryOf(l, k).value)
  ELSE LET old == IF Has(l, k) THEN <<EntryOf(l, k)>> ELSE <<>>
           rest == maybeDeleteOldest(o, Append(Without(l, k), Entry(k, v, now + o.maxAge)), now)
       IN Outcome(rest.lru, old \o rest.evicts, v)

\* LoadOrStoreWithAge: no age is the cache's.
AgeOf(o, age) == IF age = 0 THEN o.maxAge ELSE age

\* StoreWithExpire, and Store: a value that is replaced is not evicted.
StoreWithExpire(o, l, k, v, expires, now) ==
  maybeDeleteOldest(o, Append(Without(l, k), Entry(k, v, expires)), now)

deleteKey(l, k) == IF Has(l, k) THEN deleteElement(l, k) ELSE Outcome(l, <<>>, Miss)

\* Clear walks the list with Next, which is nil for an element that was
\* removed: the first entry goes, and the rest stays.
ClearList(l) == IF l = <<>> THEN Outcome(l, <<>>, Miss) ELSE deleteElement(l, l[1].key)
=============================================================================
