------------------------------- MODULE FreeLRU --------------------------------
(***************************************************************************)
(* freelru.LRU (src/contrab/freelru/lru.go): the entries live in an array  *)
(* without gaps; indices link them into one ring by age and into one ring  *)
(* per hash bucket.  The operations are translated assignment by           *)
(* assignment, as functions from the struct to the struct; each exported   *)
(* operation is one action, which is what the mutex of SyncedLRU makes it. *)
(* The metrics are left out.                                               *)
(***************************************************************************)
EXTENDS Integers, Sequences, FiniteSets

CONSTANTS Keys, Values, Cap, Lifetimes, DefaultLifetime, MaxTime,
          Size,        \* of the arrays, at least Cap
          HashRange,   \* hashes are 0 .. HashRange - 1: 2^32 in the code
          Hash(_),
          EmptyKey     \* the zero value of the key type, a key like any other

ASSUME FreeLRUAssumption ==
  /\ Cap \in Nat \ {0} /\ Size \in Nat /\ Size >= Cap
  /\ HashRange \in Nat /\ \A k \in Keys : Hash(k) \in 0 .. HashRange - 1
  /\ Lifetimes \subseteq Nat /\ DefaultLifetime \in Nat /\ MaxTime \in Nat
  /\ EmptyKey \in Keys

VARIABLES lru,       \* the struct
          ret, now, healthy

vars == <<lru, ret, now, healthy>>

None == "none"
emptyBucket == Size   \* math.MaxUint32: no position
Positions == 0 .. Size - 1

\* The zero element, and a new LRU.  gone and panicked are not fields: gone is
\* what onEvict was called with during the last operation.
zeroElement ==
  [key |-> EmptyKey, value |-> None, nextBucket |-> 0, prevBucket |-> 0, bucketPos |-> 0,
   next |-> 0, prev |-> 0, expire |-> 0, lifetime |-> 0]
initLRU ==
  [buckets |-> [p \in Positions |-> emptyBucket],
   elements |-> [p \in Positions |-> zeroElement],
   head |-> 0, len |-> 0, gone |-> <<>>, panicked |-> FALSE]

-----------------------------------------------------------------------------
\* x & (size - 1) when size is a power of two, (x * size) >> 32 otherwise.
PowersOfTwo == {2, 4, 8, 16}
hashToBucketPos(k) ==
  IF Size \in PowersOfTwo THEN Hash(k) % Size ELSE (Hash(k) * Size) \div HashRange

\* Milliseconds() cuts half milliseconds off.
expire(lifetime) == IF lifetime = 0 THEN 0 ELSE now + lifetime \div 2

\* Mutation: an entry lives a millisecond longer.
IsExpiredLate(e) == e.expire # 0 /\ e.expire < now

IsExpired(e) == e.expire # 0 /\ e.expire <= now

setHead(l, pos) ==
  LET oldest == l.elements[l.head].next
  IN IF pos = l.head THEN [l EXCEPT !.panicked = TRUE]
     ELSE [l EXCEPT !.elements[pos].prev = l.head, !.elements[pos].next = oldest,
                    !.elements[oldest].prev = pos, !.elements[l.head].next = pos,
                    !.head = pos]

unlinkElement(l, pos) ==
  LET e == l.elements[pos]
  IN [l EXCEPT !.elements[e.prev].next = e.next, !.elements[e.next].prev = e.prev]

unlinkBucket(l, pos) ==
  LET e == l.elements[pos]
  IN IF e.prevBucket = e.nextBucket /\ e.prevBucket = pos
     THEN [l EXCEPT !.buckets[e.bucketPos] = emptyBucket]
     ELSE [l EXCEPT !.elements[e.prevBucket].nextBucket = e.nextBucket,
                    !.elements[e.nextBucket].prevBucket = e.prevBucket,
                    !.buckets[e.bucketPos] = e.nextBucket]

\* evict, up to the call of onEvict.
evict(l, pos) ==
  LET h == IF pos = l.head THEN [l EXCEPT !.head = l.elements[pos].prev] ELSE l
      m == unlinkBucket(unlinkElement(h, pos), pos)
  IN [m EXCEPT !.len = @ - 1,
               !.gone = Append(@, <<l.elements[pos].key, l.elements[pos].value>>)]

move(l, to, from) ==
  LET e == l.elements[from]
      h == IF from = l.head THEN [l EXCEPT !.head = to] ELSE l
      m == [h EXCEPT !.elements[e.prev].next = to, !.elements[e.next].prev = to,
                     !.elements[e.prevBucket].nextBucket = to,
                     !.elements[e.nextBucket].prevBucket = to]
      c == [m EXCEPT !.elements[to] = m.elements[from]]
  IN IF to = from THEN l
     ELSE IF c.buckets[e.bucketPos] = from THEN [c EXCEPT !.buckets[e.bucketPos] = to]
     ELSE c

insert(l, pos, k, v, lifetime) ==
  LET e == [l EXCEPT !.elements[pos].key = k, !.elements[pos].value = v,
                     !.elements[pos].expire = expire(lifetime),
                     !.elements[pos].lifetime = lifetime]
      h == IF l.len = 0
           THEN [e EXCEPT !.elements[pos].prev = pos, !.elements[pos].next = pos,
                          !.head = pos]
           ELSE IF pos # l.head THEN setHead(e, pos) ELSE e
  IN [h EXCEPT !.len = @ + 1]

\* unlinkElement and setHead, as every hit does.
Use(l, pos) == IF pos # l.head THEN setHead(unlinkElement(l, pos), pos) ELSE l

\* clearKeyAndValue and the rest of removeAt.
removeAt(l, pos) ==
  LET e == evict(l, pos)
      m == move(e, pos, e.len)
  IN [m EXCEPT !.elements[m.len].key = EmptyKey, !.elements[m.len].value = None]

-----------------------------------------------------------------------------
\* The walk through a bucket: the position of k, or emptyBucket.
BucketWalk(l, k) ==
  LET start == l.buckets[hashToBucketPos(k)]
      walk[i \in 0 .. Size - 1] ==
        IF i = 0 THEN start ELSE l.elements[walk[i - 1]].nextBucket
      hits == {i \in 0 .. Size - 1 :
                 /\ l.elements[walk[i]].key = k
                 /\ \A j \in 1 .. i : walk[j] # start}
  IN IF start = emptyBucket THEN emptyBucket
     ELSE IF hits = {} THEN emptyBucket
     ELSE walk[CHOOSE i \in hits : \A j \in hits : i <= j]

\* findKey and findKeyNoExpire: the entry at pos is dropped, or found.
Dies(l, pos, expiring) ==
  (expiring /\ IsExpired(l.elements[pos])) \/ l.elements[pos].value \notin healthy
findKey(l, k, expiring) ==
  LET pos == BucketWalk(l, k)
  IN IF pos = emptyBucket THEN [lru |-> l, pos |-> emptyBucket]
     ELSE IF Dies(l, pos, expiring) THEN [lru |-> removeAt(l, pos), pos |-> emptyBucket]
     ELSE [lru |-> l, pos |-> pos]

\* Mutation: the start of the bucket is not read again after the eviction.
StartPosStale(l, e, bucketPos, pos) ==
  IF l.buckets[bucketPos] = emptyBucket THEN pos ELSE l.buckets[bucketPos]

\* The element before which a new one is linked into its bucket: the bucket
\* may have lost its first, or its only, element to the eviction.
StartPos(l, e, bucketPos, pos) ==
  IF e.buckets[bucketPos] = emptyBucket THEN pos ELSE e.buckets[bucketPos]

\* addWithLifetime.  An empty bucket is a ring of one: the code sets both its
\* links to pos, which is what linking pos before itself does.
addWithLifetime(l, k, v, lifetime) ==
  LET bucketPos == hashToBucketPos(k)
      found == BucketWalk(l, k)
      full == l.len = Cap
      pos == IF full THEN l.elements[l.head].next ELSE l.len
      e == IF full THEN evict(l, pos) ELSE l
      start == StartPos(l, e, bucketPos, pos)
      self == IF l.buckets[bucketPos] = emptyBucket
              THEN [e EXCEPT !.elements[pos].prevBucket = pos] ELSE e
      before == self.elements[start].prevBucket
      b == [self EXCEPT !.buckets[bucketPos] = pos, !.elements[pos].bucketPos = bucketPos,
                        !.elements[pos].nextBucket = start,
                        !.elements[pos].prevBucket = before,
                        !.elements[before].nextBucket = pos,
                        !.elements[start].prevBucket = pos]
      u == [l EXCEPT !.elements[found].value = v, !.elements[found].expire = expire(lifetime),
                     !.elements[found].lifetime = lifetime]
  IN IF found # emptyBucket THEN Use(u, found) ELSE insert(b, pos, k, v, lifetime)

\* The ring by age: positions, oldest first.
Order(l) ==
  LET walk[i \in 1 .. Size] ==
        IF i = 1 THEN l.elements[l.head].next ELSE l.elements[walk[i - 1]].next
  IN [i \in 1 .. l.len |-> walk[i]]

\* One round of PurgeExpired's loop: the oldest expired element goes.
PurgeOne(l) ==
  LET stale == {i \in 1 .. l.len : IsExpired(l.elements[Order(l)[i]])}
  IN IF stale = {} THEN l
     ELSE removeAt(l, Order(l)[CHOOSE i \in stale : \A j \in stale : i <= j])

purgeExpired(l) ==
  LET rounds[i \in 0 .. Cap] == IF i = 0 THEN l ELSE PurgeOne(rounds[i - 1])
  IN rounds[Cap]

removeOldest(l) == removeAt(l, l.elements[l.head].next)

-----------------------------------------------------------------------------
Init ==
  /\ lru = initLRU
  /\ ret = [op |-> None]
  /\ now = 1
  /\ healthy = Values

\* The struct at the beginning of an operation, and its end.  SyncedLRU holds
\* its mutex from the one to the other, so that each operation is a step.
Called == [lru EXCEPT !.gone = <<>>]
Returns(op, l, r) ==
  /\ lru' = l
  /\ ret' = [op |-> op, result |-> r]
  /\ UNCHANGED <<now, healthy>>

\* Add, AddWithLifetime
Add(k, v, lifetime) ==
  Returns("Add", addWithLifetime(Called, k, v, lifetime),
          BucketWalk(lru, k) = emptyBucket /\ lru.len = Cap)

\* Get and GetWithLifetime; GetWithLifetimeNoExpire when not expiring.
Get(k, expiring) ==
  LET f == findKey(Called, k, expiring)
  IN IF f.pos = emptyBucket THEN Returns("Get", f.lru, <<None>>)
     ELSE Returns("Get", Use(f.lru, f.pos),
                  <<f.lru.elements[f.pos].value, f.lru.elements[f.pos].expire>>)

\* The hit of GetAndRefresh and GetAndRefreshOrAdd.
RefreshAt(l, pos) ==
  [Use(l, pos) EXCEPT !.elements[pos].expire = expire(l.elements[pos].lifetime)]

GetAndRefresh(k) ==
  LET f == findKey(Called, k, FALSE)
  IN IF f.pos = emptyBucket THEN Returns("Refresh", f.lru, None)
     ELSE Returns("Refresh", RefreshAt(f.lru, f.pos), f.lru.elements[f.pos].value)

\* v is what the constructor returns, or None when it fails.
GetAndRefreshOrAdd(k, v) ==
  LET f == findKey(Called, k, FALSE)
  IN \/ /\ f.pos # emptyBucket
        /\ Returns("OrAdd", RefreshAt(f.lru, f.pos), f.lru.elements[f.pos].value)
     \/ /\ f.pos = emptyBucket /\ v = None
        /\ Returns("OrAdd", f.lru, None)
     \/ /\ f.pos = emptyBucket /\ v # None
        /\ Returns("OrAdd", purgeExpired(addWithLifetime(f.lru, k, v, DefaultLifetime)), v)

\* Peek, PeekWithLifetime, Contains
Peek(k) ==
  LET f == findKey(Called, k, TRUE)
  IN Returns("Peek", f.lru,
             IF f.pos = emptyBucket THEN <<None>>
             ELSE <<lru.elements[f.pos].value, lru.elements[f.pos].expire>>)

UpdateLifetime(k, v, lifetime) ==
  LET pos == BucketWalk(lru, k)
      u == [Called EXCEPT !.elements[pos].lifetime = lifetime,
                          !.elements[pos].expire = expire(lifetime)]
  IN IF pos = emptyBucket \/ (pos # emptyBucket /\ lru.elements[pos].value # v)
     THEN Returns("UpdateLifetime", Called, FALSE)
     ELSE Returns("UpdateLifetime", Use(u, pos), TRUE)

Remove(k) ==
  LET f == findKey(Called, k, FALSE)
  IN IF f.pos = emptyBucket THEN Returns("Remove", f.lru, FALSE)
     ELSE Returns("Remove", removeAt(f.lru, f.pos), TRUE)

RemoveOldest ==
  LET e == lru.elements[lru.elements[lru.head].next]
  IN IF lru.len = 0 THEN Returns("RemoveOldest", Called, <<>>)
     ELSE Returns("RemoveOldest", removeOldest(Called), <<e.key, e.value>>)

\* Keys; PurgeExpired is its first half.
ListKeys ==
  LET l == purgeExpired(Called)
  IN Returns("Keys", l, [i \in 1 .. l.len |-> l.elements[Order(l)[i]].key])

Purge ==
  LET rounds[i \in 0 .. Cap] == IF i = 0 THEN Called ELSE removeOldest(rounds[i - 1])
  IN Returns("Purge", rounds[lru.len], <<>>)

\* Time passes; a value becomes unhealthy.
Tick ==
  /\ now < MaxTime
  /\ now' = now + 1
  /\ UNCHANGED <<lru, ret, healthy>>
Sicken(v) ==
  /\ v \in healthy
  /\ healthy' = healthy \ {v}
  /\ UNCHANGED <<lru, ret, now>>

Next ==
  \/ \E k \in Keys, v \in Values, t \in Lifetimes : Add(k, v, t) \/ UpdateLifetime(k, v, t)
  \/ \E k \in Keys, expiring \in BOOLEAN : Get(k, expiring)
  \/ \E k \in Keys : GetAndRefresh(k) \/ Peek(k) \/ Remove(k)
  \/ \E k \in Keys, v \in Values \cup {None} : GetAndRefreshOrAdd(k, v)
  \/ RemoveOldest \/ ListKeys \/ Purge
  \/ Tick
  \/ \E v \in Values : Sicken(v)

Spec == Init /\ [][Next]_vars

-----------------------------------------------------------------------------
TypeOK ==
  /\ lru.buckets \in [Positions -> Positions \cup {emptyBucket}]
  /\ lru.elements \in
       [Positions ->
         [key : Keys, value : Values \cup {None}, nextBucket : Positions,
          prevBucket : Positions, bucketPos : Positions, next : Positions,
          prev : Positions, expire : Nat, lifetime : Nat]]
  /\ lru.head \in Positions /\ lru.len \in 0 .. Cap

\* setHead's panic, which says that the rings are corrupt, is never reached.
NeverPanics == ~lru.panicked

Live == 0 .. lru.len - 1

\* The array has no gaps and the rings are rings: every live element, and no
\* other, is on the ring by age and on the ring of its bucket, in both
\* directions, and a key is stored once.
RingsIntact ==
  /\ lru.len > 0 => lru.head \in Live
  /\ \A p \in Live :
       LET e == lru.elements[p]
       IN /\ e.next \in Live /\ lru.elements[e.next].prev = p
          /\ e.prev \in Live /\ lru.elements[e.prev].next = p
          /\ e.nextBucket \in Live /\ lru.elements[e.nextBucket].prevBucket = p
          /\ e.prevBucket \in Live /\ lru.elements[e.prevBucket].nextBucket = p
          /\ e.bucketPos = hashToBucketPos(e.key)
          /\ BucketWalk(lru, e.key) = p
  /\ \A b \in Positions : lru.buckets[b] # emptyBucket => lru.buckets[b] \in Live
  /\ {Order(lru)[i] : i \in 1 .. lru.len} = Live

\* The struct is well formed after every operation.
LRUInv == TypeOK /\ NeverPanics /\ RingsIntact

\* onEvict hears of every key and value that leaves the cache, and of nothing
\* else, except of a value that Add replaced under its key.
Held(l) == {<<l.elements[p].key, l.elements[p].value>> : p \in 0 .. l.len - 1}
EvictionsReported ==
  [][lru' # lru =>
       LET out == {lru'.gone[i] : i \in DOMAIN lru'.gone}
       IN \A kv \in Held(lru) \ Held(lru') :
            kv \in out \/ \E p \in 0 .. lru'.len - 1 : lru'.elements[p].key = kv[1]]_lru

\* The array is an LRU cache: it implements AbstractLRU.
Entries ==
  [i \in 1 .. lru.len |->
     LET e == lru.elements[Order(lru)[i]]
     IN [key |-> e.key, value |-> e.value, expire |-> e.expire, lifetime |-> e.lifetime]]

Abstract == INSTANCE AbstractLRU WITH entries <- Entries, gone <- lru.gone
=============================================================================
