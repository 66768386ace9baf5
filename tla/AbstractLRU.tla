----------------------------- MODULE AbstractLRU ------------------------------
(***************************************************************************)
(* What a freelru cache promises (the interface Cache of                   *)
(* src/contrab/freelru/cache.go): at most Cap entries, kept in the order   *)
(* in which they were last used; what is expired or unhealthy is not       *)
(* found; onEvict is called for what leaves.  Time is in milliseconds,     *)
(* lifetimes are in half milliseconds because the code cuts fractions off. *)
(***************************************************************************)
EXTENDS Integers, Sequences

CONSTANTS Keys, Values,
          Cap,
          Lifetimes,        \* arguments of AddWithLifetime, UpdateLifetime
          DefaultLifetime,  \* SetLifetime
          MaxTime           \* bound on the clock

VARIABLES entries,   \* the cache, oldest first
          gone,      \* what onEvict was called with during the last operation
          ret,       \* what the last operation returned
          now,
          healthy    \* values that pass the health check

lruVars == <<entries, gone, ret, now, healthy>>

None == "none"

-----------------------------------------------------------------------------
\* 0 means forever.
Expire(t, lifetime) == IF lifetime = 0 THEN 0 ELSE t + lifetime \div 2

Expired(e, t) == e.expire # 0 /\ e.expire <= t

Has(s, k) == \E i \in DOMAIN s : s[i].key = k
EntryOf(s, k) == s[CHOOSE i \in DOMAIN s : s[i].key = k]
Without(s, k) == SelectSeq(s, LAMBDA e : e.key # k)
KV(e) == <<e.key, e.value>>

\* What is left of s, and what leaves it, in a lookup of k.
Dead(s, k, expiring) ==
  Has(s, k) /\ ((expiring /\ Expired(EntryOf(s, k), now)) \/ EntryOf(s, k).value \notin healthy)
Kept(s, k, expiring) == IF Dead(s, k, expiring) THEN Without(s, k) ELSE s
Dropped(s, k, expiring) == IF Dead(s, k, expiring) THEN <<KV(EntryOf(s, k))>> ELSE <<>>

\* k was used, with a new lifetime or not.
Used(s, k) == Append(Without(s, k), EntryOf(s, k))
UsedFor(s, k, v, lifetime) ==
  Append(Without(s, k),
         [key |-> k, value |-> v, expire |-> Expire(now, lifetime), lifetime |-> lifetime])
Refreshed(s, k) == UsedFor(s, k, EntryOf(s, k).value, EntryOf(s, k).lifetime)

\* Adding k makes room for it first.
Overflows(s, k) == ~Has(s, k) /\ Len(s) = Cap
Added(s, k, v, lifetime) ==
  UsedFor(IF Overflows(s, k) THEN Tail(s) ELSE s, k, v, lifetime)
PushedOut(s, k) == IF Overflows(s, k) THEN <<KV(Head(s))>> ELSE <<>>

Fresh(s) == SelectSeq(s, LAMBDA e : ~Expired(e, now))
Stale(s) == SelectSeq(s, LAMBDA e : Expired(e, now))
KVs(s) == [i \in DOMAIN s |-> KV(s[i])]

-----------------------------------------------------------------------------
Init ==
  /\ entries = <<>> /\ gone = <<>> /\ ret = [op |-> None]
  /\ now = 1
  /\ healthy = Values

\* One operation: the cache afterwards, the evicted and the result.
Does(op, s, out, r) ==
  /\ ret'.op = op
  /\ entries' = s /\ gone' = out /\ ret' = [op |-> op, result |-> r]
  /\ UNCHANGED <<now, healthy>>

Add(k, v, lifetime) ==
  Does("Add", Added(entries, k, v, lifetime), PushedOut(entries, k), Overflows(entries, k))

\* Get, and GetWithLifetimeNoExpire when not expiring.
Get(k, expiring) ==
  LET s == Kept(entries, k, expiring)
  IN Does("Get", IF Has(s, k) THEN Used(s, k) ELSE s, Dropped(entries, k, expiring),
          IF Has(s, k) THEN <<EntryOf(s, k).value, EntryOf(s, k).expire>> ELSE <<None>>)

GetAndRefresh(k) ==
  LET s == Kept(entries, k, FALSE)
  IN Does("Refresh", IF Has(s, k) THEN Refreshed(s, k) ELSE s, Dropped(entries, k, FALSE),
          IF Has(s, k) THEN EntryOf(s, k).value ELSE None)

\* v is what the constructor makes, or None when it fails.
GetAndRefreshOrAdd(k, v) ==
  LET s == Kept(entries, k, FALSE)
      a == Added(s, k, v, DefaultLifetime)
  IN \/ /\ Has(s, k)
        /\ Does("OrAdd", Refreshed(s, k), <<>>, EntryOf(s, k).value)
     \/ /\ ~Has(s, k) /\ v = None
        /\ Does("OrAdd", s, Dropped(entries, k, FALSE), None)
     \/ /\ ~Has(s, k) /\ v # None
        /\ Does("OrAdd", Fresh(a), Dropped(entries, k, FALSE) \o PushedOut(s, k) \o KVs(Stale(a)),
                v)

\* Peek, PeekWithLifetime, Contains.
Peek(k) ==
  LET s == Kept(entries, k, TRUE)
  IN Does("Peek", s, Dropped(entries, k, TRUE),
          IF Has(s, k) THEN <<EntryOf(s, k).value, EntryOf(s, k).expire>> ELSE <<None>>)

UpdateLifetime(k, v, lifetime) ==
  LET match == Has(entries, k) /\ EntryOf(entries, k).value = v
  IN Does("UpdateLifetime", IF match THEN UsedFor(entries, k, v, lifetime) ELSE entries, <<>>,
          match)

\* An unhealthy entry leaves too, but counts as absent.
Remove(k) ==
  LET s == Kept(entries, k, FALSE)
  IN Does("Remove", Without(entries, k),
          IF Has(entries, k) THEN <<KV(EntryOf(entries, k))>> ELSE <<>>, Has(s, k))

RemoveOldest ==
  IF entries = <<>>
  THEN Does("RemoveOldest", entries, <<>>, <<>>)
  ELSE Does("RemoveOldest", Tail(entries), <<KV(Head(entries))>>, KV(Head(entries)))

\* Keys and PurgeExpired.
ListKeys ==
  Does("Keys", Fresh(entries), KVs(Stale(entries)),
       [i \in DOMAIN Fresh(entries) |-> Fresh(entries)[i].key])

Purge == Does("Purge", <<>>, KVs(entries), <<>>)

\* Time passes; a value becomes unhealthy.
Tick ==
  /\ now < MaxTime
  /\ now' = now + 1
  /\ UNCHANGED <<entries, gone, ret, healthy>>
Sicken(v) ==
  /\ v \in healthy
  /\ healthy' = healthy \ {v}
  /\ UNCHANGED <<entries, gone, ret, now>>

Next ==
  \/ \E k \in Keys, v \in Values, t \in Lifetimes : Add(k, v, t) \/ UpdateLifetime(k, v, t)
  \/ \E k \in Keys, expiring \in BOOLEAN : Get(k, expiring)
  \/ \E k \in Keys : GetAndRefresh(k) \/ Peek(k) \/ Remove(k)
  \/ \E k \in Keys, v \in Values \cup {None} : GetAndRefreshOrAdd(k, v)
  \/ RemoveOldest \/ ListKeys \/ Purge
  \/ Tick
  \/ \E v \in Values : Sicken(v)

Spec == Init /\ [][Next]_lruVars
=============================================================================
