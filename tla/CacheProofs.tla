----------------------------- MODULE CacheProofs ------------------------------
(***************************************************************************)
(* cache.LruCache for any keys, options and values, and any sequence of    *)
(* calls.                                                                  *)
(*                                                                         *)
(* No two entries of the list have the same key or the same value, so what *)
(* a method takes out of the list is exactly one entry; and it is either   *)
(* evicted, or put back younger, or replaced.  A method that adds an entry *)
(* makes the list longer than maxSize by at most one, which is what        *)
(* maybeDeleteOldest takes off again.                                      *)
(*                                                                         *)
(* udpnat.Service, whose table such a cache is, for any sources, senders,  *)
(* size of the queues and age: an entry is the newest connection of its    *)
(* source, what is out of the table was closed by onEvict, and what a      *)
(* handler has read and will read of a connection is its senders' packets, *)
(* each once and in their order.                                           *)
(***************************************************************************)
EXTENDS LruCacheCalls, UdpNat, SequenceTheorems, FiniteSetTheorems, FunctionTheorems, TLAPS

Entries(K) == [key : K, value : Nat, expires : Nat]

\* The entries of a list, and lists without repetitions of a key or a value.
Items(s) == {s[i] : i \in 1 .. Len(s)}
KeysOf(s) == {s[i].key : i \in 1 .. Len(s)}
ValuesOf(s) == {s[i].value : i \in 1 .. Len(s)}
Proper(s) == \A i, j \in 1 .. Len(s) : s[i].key = s[j].key \/ s[i].value = s[j].value => i = j
Distinct(s) == \A i, j \in 1 .. Len(s) : s[i] = s[j] => i = j

CacheTypeOK ==
  /\ options \in CacheOptions
  /\ lruList \in Seq(Entries(CacheKeys))
  /\ clock \in Nat /\ made \in Nat
  /\ evictions \in Seq(Nat) /\ replaced \subseteq Nat
  /\ answer \in [looked : BOOLEAN, key : CacheKeys \cup {Miss}, value : Nat]

\* Where the values 1, 2, ... that were stored are.
Accounted ==
  /\ InCache \cap EvictedValues = {} /\ InCache \cap replaced = {} /\ EvictedValues \cap replaced = {}
  /\ InCache \cup EvictedValues \cup replaced = 1 .. made

CacheIInv ==
  /\ CacheTypeOK /\ Proper(lruList) /\ Distinct(evictions) /\ Accounted
  /\ options.maxSize > 0 => Len(lruList) <= options.maxSize
  /\ answer.looked /\ answer.value # Miss => answer.value \in InCache

-----------------------------------------------------------------------------
\* The fields of the entries of a list.
LEMMA Fields ==
  ASSUME NEW K, NEW l \in Seq(Entries(K))
  PROVE  /\ Len(l) \in Nat /\ KeysOf(l) \subseteq K /\ ValuesOf(l) \subseteq Nat
         /\ \A i \in 1 .. Len(l) :
              /\ l[i] \in Entries(K) /\ l[i].key \in KeysOf(l) /\ l[i].value \in ValuesOf(l)
              /\ l[i].expires \in Nat
<1>1. Len(l) \in Nat /\ \A i \in 1 .. Len(l) : l[i] \in Entries(K)
  BY LenProperties, ElementOfSeq
<1> QED BY <1>1 DEF Entries, KeysOf, ValuesOf

LEMMA EmptyList ==
  ASSUME NEW K
  PROVE  /\ << >> \in Seq(Entries(K)) /\ Len(<< >>) = 0
         /\ KeysOf(<< >>) = {} /\ ValuesOf(<< >>) = {} /\ Proper(<< >>)
<1>1. << >> \in Seq(Entries(K)) /\ Len(<< >>) = 0 /\ 1 .. 0 = {}
  OBVIOUS
<1> QED BY <1>1 DEF KeysOf, ValuesOf, Proper

\* A new entry at the end of a list.
LEMMA AppendEntry ==
  ASSUME NEW K, NEW l \in Seq(Entries(K)), Proper(l), NEW e \in Entries(K),
         e.key \notin KeysOf(l), e.value \notin ValuesOf(l)
  PROVE  /\ Append(l, e) \in Seq(Entries(K)) /\ Len(Append(l, e)) = Len(l) + 1
         /\ Append(l, e)[Len(l) + 1] = e /\ Proper(Append(l, e))
         /\ KeysOf(Append(l, e)) = KeysOf(l) \cup {e.key}
         /\ ValuesOf(Append(l, e)) = ValuesOf(l) \cup {e.value}
<1> DEFINE m == Append(l, e)
<1>1. /\ m \in Seq(Entries(K)) /\ Len(m) = Len(l) + 1 /\ Len(l) \in Nat
      /\ m[Len(l) + 1] = e /\ \A i \in 1 .. Len(l) : m[i] = l[i]
  BY AppendProperties, LenProperties
<1> HIDE DEF m
<1>2. \A i : i \in 1 .. Len(m) <=> i \in 1 .. Len(l) \/ i = Len(l) + 1
  BY <1>1
<1>3. \A i \in 1 .. Len(l) : m[i].key # e.key /\ m[i].value # e.value
  BY <1>1 DEF KeysOf, ValuesOf
<1>4. Proper(m)
  <2> SUFFICES ASSUME NEW i \in 1 .. Len(m), NEW j \in 1 .. Len(m),
                      m[i].key = m[j].key \/ m[i].value = m[j].value
               PROVE  i = j
    BY DEF Proper
  <2>1. CASE i \in 1 .. Len(l) /\ j \in 1 .. Len(l)
    BY <1>1, <2>1 DEF Proper
  <2> QED BY <1>1, <1>2, <1>3, <2>1
<1>5. KeysOf(m) = KeysOf(l) \cup {e.key} /\ ValuesOf(m) = ValuesOf(l) \cup {e.value}
  BY <1>1, <1>2 DEF KeysOf, ValuesOf
<1> QED BY <1>1, <1>4, <1>5 DEF m

\* A list behind another one.
LEMMA ConcatEntries ==
  ASSUME NEW K, NEW a \in Seq(Entries(K)), NEW b \in Seq(Entries(K)), Proper(a), Proper(b),
         KeysOf(a) \cap KeysOf(b) = {}, ValuesOf(a) \cap ValuesOf(b) = {}
  PROVE  /\ a \o b \in Seq(Entries(K)) /\ Len(a \o b) = Len(a) + Len(b) /\ Proper(a \o b)
         /\ KeysOf(a \o b) = KeysOf(a) \cup KeysOf(b) /\ ValuesOf(a \o b) = ValuesOf(a) \cup ValuesOf(b)
<1> DEFINE m == a \o b
<1>1. /\ m \in Seq(Entries(K)) /\ Len(m) = Len(a) + Len(b) /\ Len(a) \in Nat /\ Len(b) \in Nat
      /\ \A i \in 1 .. Len(a) + Len(b) : m[i] = IF i <= Len(a) THEN a[i] ELSE b[i - Len(a)]
  BY ConcatProperties, LenProperties
<1> HIDE DEF m
<1>2. \A i \in 1 .. Len(m) : \/ i \in 1 .. Len(a) /\ m[i] = a[i]
                             \/ i - Len(a) \in 1 .. Len(b) /\ m[i] = b[i - Len(a)]
  BY <1>1
<1>3. \A i \in 1 .. Len(a) : i \in 1 .. Len(m) /\ m[i] = a[i]
  BY <1>1
<1>4. ASSUME NEW i \in 1 .. Len(b) PROVE i + Len(a) \in 1 .. Len(m) /\ m[i + Len(a)] = b[i]
  <2>1. i + Len(a) \in 1 .. Len(a) + Len(b) /\ ~(i + Len(a) <= Len(a)) /\ (i + Len(a)) - Len(a) = i
    BY <1>1
  <2> QED BY <1>1, <2>1
<1>5. /\ \A i \in 1 .. Len(a) : a[i].key \in KeysOf(a) /\ a[i].value \in ValuesOf(a)
      /\ \A i \in 1 .. Len(b) : b[i].key \in KeysOf(b) /\ b[i].value \in ValuesOf(b)
  BY DEF KeysOf, ValuesOf
<1>6. Proper(m)
  <2> SUFFICES ASSUME NEW i \in 1 .. Len(m), NEW j \in 1 .. Len(m),
                      m[i].key = m[j].key \/ m[i].value = m[j].value
               PROVE  i = j
    BY DEF Proper
  <2>1. CASE i \in 1 .. Len(a) /\ m[i] = a[i]
    <3>1. j \in 1 .. Len(a) /\ m[j] = a[j]
      BY <1>2, <1>5, <2>1
    <3> QED BY <2>1, <3>1 DEF Proper
  <2>2. CASE i - Len(a) \in 1 .. Len(b) /\ m[i] = b[i - Len(a)]
    <3>1. j - Len(a) \in 1 .. Len(b) /\ m[j] = b[j - Len(a)]
      BY <1>2, <1>5, <2>2
    <3>2. i - Len(a) = j - Len(a)
      BY <2>2, <3>1 DEF Proper
    <3> QED BY <1>1, <3>2
  <2> QED BY <1>2, <2>1, <2>2
<1>7. KeysOf(m) = KeysOf(a) \cup KeysOf(b)
  <2>1. KeysOf(m) \subseteq KeysOf(a) \cup KeysOf(b)
    BY <1>2 DEF KeysOf
  <2>2. KeysOf(a) \subseteq KeysOf(m)
    BY <1>3 DEF KeysOf
  <2>3. KeysOf(b) \subseteq KeysOf(m)
    BY <1>4 DEF KeysOf
  <2> QED BY <2>1, <2>2, <2>3
<1>8. ValuesOf(m) = ValuesOf(a) \cup ValuesOf(b)
  <2>1. ValuesOf(m) \subseteq ValuesOf(a) \cup ValuesOf(b)
    BY <1>2 DEF ValuesOf
  <2>2. ValuesOf(a) \subseteq ValuesOf(m)
    BY <1>3 DEF ValuesOf
  <2>3. ValuesOf(b) \subseteq ValuesOf(m)
    BY <1>4 DEF ValuesOf
  <2> QED BY <2>1, <2>2, <2>3
<1> QED BY <1>1, <1>6, <1>7, <1>8 DEF m

\* The first n entries of a list, and the others.
LEMMA Cut ==
  ASSUME NEW K, NEW l \in Seq(Entries(K)), Proper(l), NEW n \in 0 .. Len(l)
  PROVE  LET a == SubSeq(l, 1, n)
             b == SubSeq(l, n + 1, Len(l))
         IN /\ a \in Seq(Entries(K)) /\ b \in Seq(Entries(K)) /\ Len(a) = n /\ Len(b) = Len(l) - n
            /\ \A i \in 1 .. n : a[i] = l[i]
            /\ \A i \in 1 .. Len(l) - n : b[i] = l[n + i]
            /\ Proper(a) /\ Proper(b)
            /\ KeysOf(a) \cap KeysOf(b) = {} /\ KeysOf(a) \cup KeysOf(b) = KeysOf(l)
            /\ ValuesOf(a) \cap ValuesOf(b) = {} /\ ValuesOf(a) \cup ValuesOf(b) = ValuesOf(l)
<1> DEFINE a == SubSeq(l, 1, n)  b == SubSeq(l, n + 1, Len(l))
<1>1. Len(l) \in Nat /\ n \in Nat /\ n <= Len(l) /\ \A i \in 1 .. Len(l) : l[i] \in Entries(K)
  BY Fields
<1>2. a \in Seq(Entries(K)) /\ Len(a) = n /\ \A i \in 1 .. n : a[i] = l[i]
  <2>1. \A i \in 1 .. n : l[i] \in Entries(K)
    BY <1>1
  <2>2. /\ a \in Seq(Entries(K)) /\ Len(a) = IF 1 <= n THEN n - 1 + 1 ELSE 0
        /\ \A i \in 1 .. n - 1 + 1 : a[i] = l[1 + i - 1]
    BY <1>1, <2>1, SubSeqProperties
  <2> HIDE DEF a
  <2> QED BY <1>1, <2>2
<1>3. b \in Seq(Entries(K)) /\ Len(b) = Len(l) - n /\ \A i \in 1 .. Len(l) - n : b[i] = l[n + i]
  <2>1. \A i \in n + 1 .. Len(l) : l[i] \in Entries(K)
    BY <1>1
  <2>2. /\ b \in Seq(Entries(K)) /\ Len(b) = IF n + 1 <= Len(l) THEN Len(l) - (n + 1) + 1 ELSE 0
        /\ \A i \in 1 .. Len(l) - (n + 1) + 1 : b[i] = l[n + 1 + i - 1]
    BY <1>1, <2>1, SubSeqProperties
  <2> HIDE DEF b
  <2>3. \A i \in 1 .. Len(l) - n : i \in 1 .. Len(l) - (n + 1) + 1 /\ n + 1 + i - 1 = n + i
    BY <1>1
  <2> QED BY <1>1, <2>2, <2>3
<1> HIDE DEF a, b
<1>4. /\ \A i \in 1 .. n : i \in 1 .. Len(l)
      /\ \A i \in 1 .. Len(l) - n : n + i \in 1 .. Len(l)
      /\ \A i \in 1 .. n, j \in 1 .. Len(l) - n : i # n + j
      /\ \A i \in 1 .. Len(l) : i \in 1 .. n \/ (i - n \in 1 .. Len(l) - n /\ n + (i - n) = i)
      /\ \A i, j \in 1 .. Len(l) - n : n + i = n + j => i = j
  BY <1>1
<1>5. Proper(a)
  BY <1>2, <1>4 DEF Proper
<1>6. Proper(b)
  <2> SUFFICES ASSUME NEW i \in 1 .. Len(l) - n, NEW j \in 1 .. Len(l) - n,
                      b[i].key = b[j].key \/ b[i].value = b[j].value
               PROVE  i = j
    BY <1>3 DEF Proper
  <2>1. b[i] = l[n + i] /\ b[j] = l[n + j] /\ n + i \in 1 .. Len(l) /\ n + j \in 1 .. Len(l)
    BY <1>3, <1>4
  <2>2. n + i = n + j
    BY <2>1 DEF Proper
  <2> QED BY <1>4, <2>2
<1>7. ASSUME NEW i \in 1 .. n, NEW j \in 1 .. Len(l) - n
      PROVE  a[i].key # b[j].key /\ a[i].value # b[j].value
  <2>1. a[i] = l[i] /\ b[j] = l[n + j] /\ i \in 1 .. Len(l) /\ n + j \in 1 .. Len(l) /\ i # n + j
    BY <1>2, <1>3, <1>4
  <2> QED BY <2>1 DEF Proper
<1>8. KeysOf(a) \cap KeysOf(b) = {}
  <2> SUFFICES ASSUME NEW i \in 1 .. Len(a), NEW j \in 1 .. Len(b) PROVE a[i].key # b[j].key
    BY DEF KeysOf
  <2> QED BY <1>2, <1>3, <1>7
<1>9. ValuesOf(a) \cap ValuesOf(b) = {}
  <2> SUFFICES ASSUME NEW i \in 1 .. Len(a), NEW j \in 1 .. Len(b) PROVE a[i].value # b[j].value
    BY DEF ValuesOf
  <2> QED BY <1>2, <1>3, <1>7
<1>10. ASSUME NEW i \in 1 .. Len(l)
       PROVE  (i \in 1 .. Len(a) /\ a[i] = l[i]) \/ (i - n \in 1 .. Len(b) /\ b[i - n] = l[i])
  <2>1. CASE i \in 1 .. n
    BY <1>2, <2>1
  <2>2. CASE i - n \in 1 .. Len(l) - n /\ n + (i - n) = i
    <3>1. b[i - n] = l[n + (i - n)]
      BY <1>3, <2>2
    <3> QED BY <1>3, <2>2, <3>1
  <2> QED BY <1>4, <2>1, <2>2
<1>11. (\A i \in 1 .. Len(a) : a[i] \in Items(l)) /\ (\A i \in 1 .. Len(b) : b[i] \in Items(l))
  <2>1. \A i \in 1 .. Len(l) : l[i] \in Items(l)
    BY DEF Items
  <2>2. ASSUME NEW i \in 1 .. Len(b) PROVE b[i] \in Items(l)
    <3>1. b[i] = l[n + i] /\ n + i \in 1 .. Len(l)
      BY <1>3, <1>4
    <3> QED BY <2>1, <3>1
  <2> QED BY <1>2, <1>4, <2>1, <2>2
<1>12. KeysOf(a) \cup KeysOf(b) = KeysOf(l)
  <2>1. KeysOf(a) \subseteq KeysOf(l) /\ KeysOf(b) \subseteq KeysOf(l)
    BY <1>11 DEF KeysOf, Items
  <2>2. KeysOf(l) \subseteq KeysOf(a) \cup KeysOf(b)
    BY <1>10 DEF KeysOf
  <2> QED BY <2>1, <2>2
<1>13. ValuesOf(a) \cup ValuesOf(b) = ValuesOf(l)
  <2>1. ValuesOf(a) \subseteq ValuesOf(l) /\ ValuesOf(b) \subseteq ValuesOf(l)
    BY <1>11 DEF ValuesOf, Items
  <2>2. ValuesOf(l) \subseteq ValuesOf(a) \cup ValuesOf(b)
    BY <1>10 DEF ValuesOf
  <2> QED BY <2>1, <2>2
<1> QED BY <1>2, <1>3, <1>5, <1>6, <1>8, <1>9, <1>12, <1>13 DEF a, b

LEMMA OneEntry ==
  ASSUME NEW K, NEW e \in Entries(K)
  PROVE  /\ <<e>> \in Seq(Entries(K)) /\ Len(<<e>>) = 1 /\ Proper(<<e>>)
         /\ KeysOf(<<e>>) = {e.key} /\ ValuesOf(<<e>>) = {e.value}
<1>1. <<e>> \in Seq(Entries(K)) /\ Len(<<e>>) = 1 /\ <<e>>[1] = e /\ 1 .. 1 = {1}
  OBVIOUS
<1> DEFINE m == <<e>>
<1>2. m \in Seq(Entries(K)) /\ Len(m) = 1 /\ m[1] = e /\ 1 .. 1 = {1}
  BY <1>1
<1> HIDE DEF m
<1>3. Proper(m) /\ KeysOf(m) = {e.key} /\ ValuesOf(m) = {e.value}
  BY <1>2 DEF Proper, KeysOf, ValuesOf
<1> QED BY <1>2, <1>3 DEF m

\* The list without its entry of a key: every other entry stays.
LEMMA WithoutEntry ==
  ASSUME NEW K, NEW l \in Seq(Entries(K)), Proper(l), NEW k, Has(l, k)
  PROVE  /\ EntryOf(l, k) \in Entries(K) /\ EntryOf(l, k).key = k
         /\ PlaceOf(l, k) \in 1 .. Len(l)
         /\ Without(l, k) \in Seq(Entries(K)) /\ Len(Without(l, k)) = Len(l) - 1 /\ Proper(Without(l, k))
         /\ k \in KeysOf(l) /\ KeysOf(Without(l, k)) = KeysOf(l) \ {k}
         /\ EntryOf(l, k).value \in ValuesOf(l)
         /\ ValuesOf(Without(l, k)) = ValuesOf(l) \ {EntryOf(l, k).value}
<1> DEFINE p == PlaceOf(l, k)
<1>1. p \in 1 .. Len(l) /\ l[p].key = k
  BY DEF Has, PlaceOf, IndexOf
<1> HIDE DEF p
<1>2. /\ Len(l) \in Nat /\ p \in Nat /\ p - 1 \in 0 .. Len(l) /\ p \in 0 .. Len(l) /\ (p - 1) + 1 = p
      /\ l[p] \in Entries(K)
  BY <1>1, Fields
<1> DEFINE front == SubSeq(l, 1, p - 1)  back == SubSeq(l, p + 1, Len(l))
           first == SubSeq(l, 1, p)  rest == SubSeq(l, p, Len(l))
<1>3. /\ front \in Seq(Entries(K)) /\ rest \in Seq(Entries(K)) /\ Len(front) = p - 1
      /\ Proper(front) /\ Len(rest) = Len(l) - (p - 1)
      /\ \A i \in 1 .. p - 1 : front[i] = l[i]
      /\ \A i \in 1 .. Len(l) - (p - 1) : rest[i] = l[(p - 1) + i]
      /\ KeysOf(front) \cap KeysOf(rest) = {} /\ KeysOf(front) \cup KeysOf(rest) = KeysOf(l)
      /\ ValuesOf(front) \cap ValuesOf(rest) = {} /\ ValuesOf(front) \cup ValuesOf(rest) = ValuesOf(l)
  BY <1>2, Cut
<1>4. /\ back \in Seq(Entries(K)) /\ first \in Seq(Entries(K)) /\ Len(back) = Len(l) - p
      /\ Proper(back) /\ Len(first) = p /\ \A i \in 1 .. p : first[i] = l[i]
      /\ \A i \in 1 .. Len(l) - p : back[i] = l[p + i]
      /\ KeysOf(first) \cap KeysOf(back) = {} /\ KeysOf(first) \cup KeysOf(back) = KeysOf(l)
      /\ ValuesOf(first) \cap ValuesOf(back) = {} /\ ValuesOf(first) \cup ValuesOf(back) = ValuesOf(l)
  BY <1>2, Cut
<1>5. Without(l, k) = front \o back /\ EntryOf(l, k) = l[p]
  BY DEF Without, EntryOf, p
<1> HIDE DEF front, back, first, rest
\* The entry itself is the last of the first ones and the first of the rest.
<1>6. k \in KeysOf(first) /\ l[p].value \in ValuesOf(first)
  <2>1. p \in 1 .. Len(first) /\ first[p] = l[p]
    BY <1>1, <1>2, <1>4
  <2> QED BY <1>1, <2>1 DEF KeysOf, ValuesOf
<1>7. k \in KeysOf(rest) /\ l[p].value \in ValuesOf(rest)
  <2>1. 1 \in 1 .. Len(l) - (p - 1) /\ (p - 1) + 1 = p
    BY <1>1, <1>2
  <2>2. 1 \in 1 .. Len(rest) /\ rest[1] = l[p]
    BY <1>3, <2>1
  <2> QED BY <1>1, <2>2 DEF KeysOf, ValuesOf
<1>8. ASSUME NEW i \in 1 .. Len(l), i # p
      PROVE  \/ l[i].key \in KeysOf(front) /\ l[i].value \in ValuesOf(front)
             \/ l[i].key \in KeysOf(back) /\ l[i].value \in ValuesOf(back)
  <2>1. l[i].key # k /\ l[i].value # l[p].value
    BY <1>1, <1>8 DEF Proper
  <2>2. CASE i < p
    <3>1. i \in 1 .. p /\ i \in 1 .. p - 1
      BY <1>2, <2>2
    <3> QED BY <1>3, <3>1 DEF KeysOf, ValuesOf
  <2>3. CASE i > p
    <3>1. i - p \in 1 .. Len(l) - p /\ p + (i - p) = i
      BY <1>2, <2>3
    <3>2. back[i - p] = l[p + (i - p)]
      BY <1>4, <3>1
    <3>3. i - p \in 1 .. Len(back) /\ back[i - p] = l[i]
      BY <1>4, <3>1, <3>2
    <3> QED BY <3>3 DEF KeysOf, ValuesOf
  <2> QED BY <1>2, <1>8, <2>2, <2>3
<1>9. k \notin KeysOf(front) /\ k \notin KeysOf(back) /\ l[p].value \notin ValuesOf(front) /\ l[p].value \notin ValuesOf(back)
  BY <1>3, <1>4, <1>6, <1>7
<1>10. KeysOf(front) \cup KeysOf(back) = KeysOf(l) \ {k}
  <2>1. KeysOf(l) \ {k} \subseteq KeysOf(front) \cup KeysOf(back)
    <3> SUFFICES ASSUME NEW i \in 1 .. Len(l), l[i].key # k PROVE l[i].key \in KeysOf(front) \cup KeysOf(back)
      BY DEF KeysOf
    <3> QED BY <1>1, <1>8
  <2> QED BY <1>3, <1>4, <1>9, <2>1
<1>11. ValuesOf(front) \cup ValuesOf(back) = ValuesOf(l) \ {l[p].value}
  <2>1. ValuesOf(l) \ {l[p].value} \subseteq ValuesOf(front) \cup ValuesOf(back)
    <3> SUFFICES ASSUME NEW i \in 1 .. Len(l), l[i].value # l[p].value
                 PROVE  l[i].value \in ValuesOf(front) \cup ValuesOf(back)
      BY DEF ValuesOf
    <3> QED BY <1>1, <1>8
  <2> QED BY <1>3, <1>4, <1>9, <2>1
<1>12. KeysOf(front) \cap KeysOf(back) = {} /\ ValuesOf(front) \cap ValuesOf(back) = {}
  <2> SUFFICES KeysOf(front) \subseteq KeysOf(first) /\ ValuesOf(front) \subseteq ValuesOf(first)
    BY <1>4
  <2>1. \A i \in 1 .. p - 1 : i \in 1 .. p
    BY <1>2
  <2>2. \A i \in 1 .. Len(front) : i \in 1 .. Len(first) /\ front[i] = first[i]
    BY <1>3, <1>4, <2>1
  <2> QED BY <2>2 DEF KeysOf, ValuesOf
<1>13. /\ front \o back \in Seq(Entries(K)) /\ Len(front \o back) = Len(front) + Len(back) /\ Proper(front \o back)
       /\ KeysOf(front \o back) = KeysOf(front) \cup KeysOf(back)
       /\ ValuesOf(front \o back) = ValuesOf(front) \cup ValuesOf(back)
  <2>1. front \in Seq(Entries(K)) /\ back \in Seq(Entries(K)) /\ Proper(front) /\ Proper(back)
    BY <1>3, <1>4
  <2> QED BY <1>12, <2>1, ConcatEntries
<1>14. Len(front) + Len(back) = Len(l) - 1
  BY <1>2, <1>3, <1>4
<1>15. k \in KeysOf(l) /\ l[p].value \in ValuesOf(l)
  BY <1>4, <1>6
<1> QED BY <1>1, <1>2, <1>5, <1>10, <1>11, <1>13, <1>14, <1>15 DEF p

LEMMA AbsentKey ==
  ASSUME NEW l, NEW k, ~Has(l, k)
  PROVE  Without(l, k) = l /\ k \notin KeysOf(l)
BY DEF Has, IndexOf, Without, KeysOf

-----------------------------------------------------------------------------
\* What a method may do with a list: every value is kept or evicted.
CacheOption == [maxAge : Nat, maxSize : Nat, updateAgeOnGet : BOOLEAN, staleReturn : BOOLEAN]
Parts(K, r, values) ==
  /\ r.lru \in Seq(Entries(K)) /\ r.evicts \in Seq(Entries(K)) /\ Proper(r.lru) /\ Proper(r.evicts)
  /\ ValuesOf(r.lru) \cap ValuesOf(r.evicts) = {} /\ ValuesOf(r.lru) \cup ValuesOf(r.evicts) = values
Fits(o, l) == o.maxSize > 0 => Len(l) <= o.maxSize

LEMMA OutcomeFields ==
  ASSUME NEW a, NEW b, NEW v
  PROVE  Outcome(a, b, v).lru = a /\ Outcome(a, b, v).evicts = b /\ Outcome(a, b, v).value = v
BY DEF Outcome

\* maybeDeleteOldest's loop stops at the first entry that has not expired.
LEMMA ExpiredFront ==
  ASSUME NEW K, NEW l \in Seq(Entries(K)), NEW o, NEW now
  PROVE  /\ ExpiredInFront(o, l, now) \in 0 .. Len(l)
         /\ Len(l) > 0 /\ ~Expired(o, l[Len(l)], now) => ExpiredInFront(o, l, now) < Len(l)
<1> DEFINE S == {i \in 1 .. Len(l) : \A j \in 1 .. i : Expired(o, l[j], now)}
<1>1. Len(l) \in Nat
  BY Fields
<1>2. IsFiniteSet(1 .. Len(l)) /\ Cardinality(1 .. Len(l)) = Len(l)
  <2>1. /\ IsFiniteSet(1 .. Len(l))
        /\ Cardinality(1 .. Len(l)) = IF 1 > Len(l) THEN 0 ELSE Len(l) - 1 + 1
    <3>1. 1 \in Int /\ Len(l) \in Int
      BY <1>1
    <3> QED BY <3>1, FS_Interval
  <2> QED BY <1>1, <2>1
<1>3. S \in SUBSET (1 .. Len(l))
  OBVIOUS
<1>4. ExpiredInFront(o, l, now) = Cardinality(S)
  BY DEF ExpiredInFront
<1>5. Len(l) > 0 /\ ~Expired(o, l[Len(l)], now) => S # 1 .. Len(l)
  <2> SUFFICES ASSUME Len(l) > 0, ~Expired(o, l[Len(l)], now) PROVE Len(l) \in 1 .. Len(l) /\ Len(l) \notin S
    OBVIOUS
  <2> QED BY <1>1
<1> HIDE DEF S
<1>6. IsFiniteSet(S) /\ Cardinality(S) <= Len(l) /\ (Len(l) = Cardinality(S) => S = 1 .. Len(l))
  <2>1. /\ IsFiniteSet(S) /\ Cardinality(S) <= Cardinality(1 .. Len(l))
        /\ Cardinality(1 .. Len(l)) = Cardinality(S) => 1 .. Len(l) = S
    BY <1>2, <1>3, FS_Subset
  <2> QED BY <1>2, <2>1
<1>7. Cardinality(S) \in Nat
  BY <1>6, FS_CardinalityType
<1> QED BY <1>1, <1>4, <1>5, <1>6, <1>7

\* maybeDeleteOldest evicts a front of the list: it brings a list that is one
\* too long back to maxSize, and an entry at the end that has not expired stays.
LEMMA Oldest ==
  ASSUME NEW K, NEW l \in Seq(Entries(K)), Proper(l), NEW o \in CacheOption, NEW now \in Nat
  PROVE  LET r == maybeDeleteOldest(o, l, now)
         IN /\ Parts(K, r, ValuesOf(l)) /\ r.value = Miss
            /\ KeysOf(r.lru) \cap KeysOf(r.evicts) = {} /\ KeysOf(r.lru) \cup KeysOf(r.evicts) = KeysOf(l)
            /\ o.maxSize > 0 /\ Len(l) <= o.maxSize + 1 => Len(r.lru) <= o.maxSize
            /\ Len(l) > 0 /\ ~Expired(o, l[Len(l)], now) =>
                 l[Len(l)].key \in KeysOf(r.lru) /\ l[Len(l)].value \in ValuesOf(r.lru)
<1> DEFINE n == IF o.staleReturn THEN 0 ELSE ExpiredInFront(o, l, now)
           over == IF o.maxSize > 0 /\ Len(l) - n > o.maxSize THEN 1 ELSE 0
           m == n + over
<1>1. Len(l) \in Nat /\ o.maxSize \in Nat
  BY Fields DEF CacheOption
<1>2. n \in 0 .. Len(l) /\ (Len(l) > 0 /\ ~Expired(o, l[Len(l)], now) => n < Len(l))
  BY <1>1, ExpiredFront
<1> HIDE DEF n
<1>3. over \in {0, 1} /\ (over = 1 => o.maxSize > 0 /\ Len(l) - n > o.maxSize)
      /\ (over = 0 => ~(o.maxSize > 0 /\ Len(l) - n > o.maxSize))
  OBVIOUS
<1> HIDE DEF over
<1>4. /\ m \in 0 .. Len(l) /\ (Len(l) > 0 /\ ~Expired(o, l[Len(l)], now) => m < Len(l))
      /\ (o.maxSize > 0 /\ Len(l) <= o.maxSize + 1 => Len(l) - m <= o.maxSize)
  BY <1>1, <1>2, <1>3
<1> DEFINE a == SubSeq(l, 1, m)  b == SubSeq(l, m + 1, Len(l))
<1>5. maybeDeleteOldest(o, l, now) = Outcome(b, a, Miss)
  BY DEF maybeDeleteOldest, n, over
<1> HIDE DEF m
<1>6. /\ a \in Seq(Entries(K)) /\ b \in Seq(Entries(K)) /\ Len(b) = Len(l) - m
      /\ \A i \in 1 .. Len(l) - m : b[i] = l[m + i]
      /\ Proper(a) /\ Proper(b)
      /\ KeysOf(a) \cap KeysOf(b) = {} /\ KeysOf(a) \cup KeysOf(b) = KeysOf(l)
      /\ ValuesOf(a) \cap ValuesOf(b) = {} /\ ValuesOf(a) \cup ValuesOf(b) = ValuesOf(l)
  <2>1. m \in 0 .. Len(l)
    BY <1>4
  <2> QED BY <2>1, Cut
<1>7. /\ maybeDeleteOldest(o, l, now).lru = b /\ maybeDeleteOldest(o, l, now).evicts = a
      /\ maybeDeleteOldest(o, l, now).value = Miss
  <2> HIDE DEF a, b
  <2> QED BY <1>5, OutcomeFields
<1> HIDE DEF a, b
<1>8. ASSUME Len(l) > 0, ~Expired(o, l[Len(l)], now)
      PROVE  l[Len(l)].key \in KeysOf(b) /\ l[Len(l)].value \in ValuesOf(b)
  <2>1. Len(l) - m \in 1 .. Len(l) - m /\ m + (Len(l) - m) = Len(l)
    BY <1>1, <1>4, <1>8
  <2>2. b[Len(l) - m] = l[m + (Len(l) - m)]
    BY <1>6, <2>1
  <2>3. Len(l) - m \in 1 .. Len(b) /\ b[Len(l) - m] = l[Len(l)]
    BY <1>6, <2>1, <2>2
  <2> QED BY <2>3 DEF KeysOf, ValuesOf
<1>9. Parts(K, maybeDeleteOldest(o, l, now), ValuesOf(l))
  BY <1>6, <1>7 DEF Parts
<1> QED BY <1>4, <1>6, <1>7, <1>8, <1>9

\* A hit moves the entry to the back and changes no more than its age.
LEMMA Touched ==
  ASSUME NEW K, NEW l \in Seq(Entries(K)), Proper(l), NEW k, Has(l, k),
         NEW o \in CacheOption, NEW age \in Nat, NEW now \in Nat
  PROVE  LET m == Touch(o, l, k, age, now)
         IN /\ m \in Seq(Entries(K)) /\ Len(m) = Len(l) /\ Proper(m)
            /\ ValuesOf(m) = ValuesOf(l) /\ EntryOf(l, k).value \in ValuesOf(m)
<1> DEFINE e == EntryOf(l, k)  w == Without(l, k)
           f == [e EXCEPT !.expires = IF o.maxAge > 0 /\ o.updateAgeOnGet THEN now + age ELSE @]
<1>1. /\ e \in Entries(K) /\ e.key = k /\ w \in Seq(Entries(K)) /\ Len(w) = Len(l) - 1 /\ Proper(w)
      /\ KeysOf(w) = KeysOf(l) \ {k} /\ e.value \in ValuesOf(l) /\ ValuesOf(w) = ValuesOf(l) \ {e.value}
  BY WithoutEntry
<1>2. Touch(o, l, k, age, now) = Append(w, f)
  BY DEF Touch
<1> HIDE DEF w
<1>3. f \in Entries(K) /\ f.key = e.key /\ f.value = e.value
  <2> HIDE DEF e
  <2>1. now + age \in Nat
    OBVIOUS
  <2> QED BY <1>1, <2>1 DEF Entries
<1> HIDE DEF e, f
<1>4. /\ Append(w, f) \in Seq(Entries(K)) /\ Len(Append(w, f)) = Len(w) + 1 /\ Proper(Append(w, f))
      /\ ValuesOf(Append(w, f)) = ValuesOf(w) \cup {f.value}
  BY <1>1, <1>3, AppendEntry
<1>5. Len(l) \in Nat /\ (Len(l) - 1) + 1 = Len(l)
  BY Fields
<1> QED BY <1>1, <1>2, <1>3, <1>4, <1>5 DEF e

\* An entry that is evicted before those that maybeDeleteOldest evicts.
LEMMA EvictedFirst ==
  ASSUME NEW K, NEW e \in Entries(K), NEW s \in Seq(Entries(K)), Proper(s),
         e.key \notin KeysOf(s), e.value \notin ValuesOf(s)
  PROVE  /\ <<e>> \o s \in Seq(Entries(K)) /\ Proper(<<e>> \o s)
         /\ ValuesOf(<<e>> \o s) = {e.value} \cup ValuesOf(s)
<1> DEFINE a == <<e>>
<1>1. a \in Seq(Entries(K)) /\ Proper(a) /\ KeysOf(a) = {e.key} /\ ValuesOf(a) = {e.value}
  BY OneEntry
<1> HIDE DEF a
<1>2. KeysOf(a) \cap KeysOf(s) = {} /\ ValuesOf(a) \cap ValuesOf(s) = {}
  BY <1>1
<1>3. a \o s \in Seq(Entries(K)) /\ Proper(a \o s) /\ ValuesOf(a \o s) = ValuesOf(a) \cup ValuesOf(s)
  BY <1>1, <1>2, ConcatEntries
<1> QED BY <1>1, <1>3 DEF a

\* get: an entry that is found is given and kept, unless it has expired.
LEMMA Gets ==
  ASSUME NEW K, NEW l \in Seq(Entries(K)), Proper(l), NEW k \in K,
         NEW o \in CacheOption, Fits(o, l), NEW now \in Nat
  PROVE  LET r == getEntry(o, l, k, now)
         IN /\ Parts(K, r, ValuesOf(l)) /\ Fits(o, r.lru)
            /\ \/ r.value = Miss
               \/ /\ Has(l, k) /\ r.value = EntryOf(l, k).value /\ r.value \in ValuesOf(r.lru)
                  /\ o.staleReturn \/ ~Expired(o, EntryOf(l, k), now)
<1> DEFINE r == getEntry(o, l, k, now)  e == EntryOf(l, k)  w == Without(l, k)
           rest == maybeDeleteOldest(o, w, now)
<1>1. Len(l) \in Nat /\ o.maxAge \in Nat /\ o.maxSize \in Nat
  BY Fields DEF CacheOption
<1>2. CASE ~Has(l, k)
  <2>1. r.lru = l /\ r.evicts = << >> /\ r.value = Miss
    BY <1>2, OutcomeFields DEF getEntry
  <2> HIDE DEF r
  <2>2. Parts(K, r, ValuesOf(l)) /\ Fits(o, r.lru)
    BY <2>1, EmptyList DEF Parts
  <2> QED BY <2>1, <2>2 DEF r
<1>3. CASE Has(l, k) /\ ~o.staleReturn /\ Expired(o, e, now)
  <2>1. /\ e \in Entries(K) /\ e.key = k /\ w \in Seq(Entries(K)) /\ Len(w) = Len(l) - 1 /\ Proper(w)
        /\ KeysOf(w) = KeysOf(l) \ {k} /\ e.value \in ValuesOf(l) /\ ValuesOf(w) = ValuesOf(l) \ {e.value}
    BY <1>3, WithoutEntry
  <2>2. r.lru = rest.lru /\ r.evicts = <<e>> \o rest.evicts /\ r.value = Miss
    <3> DEFINE f == <<e>> \o rest.evicts
    <3>1. r = Outcome(rest.lru, f, Miss)
      BY <1>3 DEF getEntry
    <3> HIDE DEF r, f, rest
    <3>2. r.lru = rest.lru /\ r.evicts = f /\ r.value = Miss
      BY <3>1, OutcomeFields
    <3> QED BY <3>2 DEF f
  <2> HIDE DEF r, w, e
  <2>3. /\ Parts(K, rest, ValuesOf(w)) /\ KeysOf(rest.lru) \cup KeysOf(rest.evicts) = KeysOf(w)
        /\ o.maxSize > 0 /\ Len(w) <= o.maxSize + 1 => Len(rest.lru) <= o.maxSize
    BY <2>1, Oldest
  <2> HIDE DEF rest
  <2>5. /\ <<e>> \o rest.evicts \in Seq(Entries(K)) /\ Proper(<<e>> \o rest.evicts)
        /\ ValuesOf(<<e>> \o rest.evicts) = {e.value} \cup ValuesOf(rest.evicts)
    <3>1. /\ rest.evicts \in Seq(Entries(K)) /\ Proper(rest.evicts)
          /\ e.key \notin KeysOf(rest.evicts) /\ e.value \notin ValuesOf(rest.evicts)
      BY <2>1, <2>3 DEF Parts
    <3> QED BY <2>1, <3>1, EvictedFirst
  <2>6. Parts(K, r, ValuesOf(l))
    BY <2>1, <2>2, <2>3, <2>5 DEF Parts
  <2>7. Fits(o, r.lru)
    BY <1>1, <2>1, <2>2, <2>3 DEF Fits
  <2> QED BY <2>2, <2>6, <2>7 DEF r
<1>4. CASE Has(l, k) /\ (o.staleReturn \/ ~Expired(o, e, now))
  <2> DEFINE m == Touch(o, l, k, o.maxAge, now)
  <2>1. r.lru = m /\ r.evicts = << >> /\ r.value = e.value
    BY <1>4, OutcomeFields DEF getEntry
  <2>2. /\ m \in Seq(Entries(K)) /\ Len(m) = Len(l) /\ Proper(m)
        /\ ValuesOf(m) = ValuesOf(l) /\ e.value \in ValuesOf(m)
    BY <1>1, <1>4, Touched
  <2> HIDE DEF r, m, e
  <2>3. Parts(K, r, ValuesOf(l)) /\ Fits(o, r.lru)
    BY <2>1, <2>2, EmptyList DEF Parts, Fits
  <2> QED BY <1>4, <2>1, <2>2, <2>3 DEF r, e
<1> QED BY <1>2, <1>3, <1>4

\* The list without a key, in either case.
LEMMA WithoutKey ==
  ASSUME NEW K, NEW l \in Seq(Entries(K)), Proper(l), NEW k
  PROVE  /\ Without(l, k) \in Seq(Entries(K)) /\ Proper(Without(l, k)) /\ Len(Without(l, k)) <= Len(l)
         /\ k \notin KeysOf(Without(l, k)) /\ ValuesOf(Without(l, k)) \subseteq ValuesOf(l)
<1>1. Len(l) \in Nat
  BY Fields
<1>2. CASE Has(l, k)
  <2>1. /\ Without(l, k) \in Seq(Entries(K)) /\ Len(Without(l, k)) = Len(l) - 1 /\ Proper(Without(l, k))
        /\ KeysOf(Without(l, k)) = KeysOf(l) \ {k}
        /\ ValuesOf(Without(l, k)) = ValuesOf(l) \ {EntryOf(l, k).value}
    BY <1>2, WithoutEntry
  <2> QED BY <1>1, <2>1
<1>3. CASE ~Has(l, k)
  <2>1. Without(l, k) = l /\ k \notin KeysOf(l)
    BY <1>3, AbsentKey
  <2> QED BY <1>1, <2>1
<1> QED BY <1>2, <1>3

\* A new entry at the back of the list, and the oldest ones taken off: the new
\* one is still there unless it was stored with an age that is over.
LEMMA Inserted ==
  ASSUME NEW K, NEW l \in Seq(Entries(K)), Proper(l), NEW k \in K,
         NEW o \in CacheOption, Fits(o, l), NEW now \in Nat,
         NEW v \in Nat, v \notin ValuesOf(l), NEW expires \in Nat
  PROVE  LET r == maybeDeleteOldest(o, Append(Without(l, k), Entry(k, v, expires)), now)
         IN /\ Parts(K, r, ValuesOf(Without(l, k)) \cup {v}) /\ Fits(o, r.lru) /\ r.value = Miss
            /\ ~Expired(o, Entry(k, v, expires), now) => k \notin KeysOf(r.evicts) /\ v \in ValuesOf(r.lru)
<1> DEFINE w == Without(l, k)  e == Entry(k, v, expires)  m == Append(w, e)
           r == maybeDeleteOldest(o, m, now)
<1>1. /\ w \in Seq(Entries(K)) /\ Proper(w) /\ Len(w) <= Len(l) /\ Len(w) \in Nat /\ Len(l) \in Nat
      /\ o.maxSize \in Nat /\ k \notin KeysOf(w) /\ v \notin ValuesOf(w)
  BY WithoutKey, LenProperties DEF CacheOption
<1>2. e \in Entries(K) /\ e.key = k /\ e.value = v
  BY DEF Entry, Entries
<1> HIDE DEF w, e
<1>3. /\ m \in Seq(Entries(K)) /\ Len(m) = Len(w) + 1 /\ m[Len(w) + 1] = e /\ Proper(m)
      /\ ValuesOf(m) = ValuesOf(w) \cup {v}
  BY <1>1, <1>2, AppendEntry
<1> HIDE DEF m
<1>4. /\ Parts(K, r, ValuesOf(m)) /\ r.value = Miss /\ KeysOf(r.lru) \cap KeysOf(r.evicts) = {}
      /\ o.maxSize > 0 /\ Len(m) <= o.maxSize + 1 => Len(r.lru) <= o.maxSize
      /\ Len(m) > 0 /\ ~Expired(o, m[Len(m)], now) =>
           m[Len(m)].key \in KeysOf(r.lru) /\ m[Len(m)].value \in ValuesOf(r.lru)
  <2>1. m \in Seq(Entries(K)) /\ Proper(m)
    BY <1>3
  <2>2. Parts(K, r, ValuesOf(m))
    BY <2>1, Oldest
  <2>3. r.value = Miss
    BY <2>1, Oldest
  <2>4. KeysOf(r.lru) \cap KeysOf(r.evicts) = {}
    BY <2>1, Oldest
  <2>5. o.maxSize > 0 /\ Len(m) <= o.maxSize + 1 => Len(r.lru) <= o.maxSize
    BY <2>1, Oldest
  <2>6. Len(m) > 0 /\ ~Expired(o, m[Len(m)], now) =>
          m[Len(m)].key \in KeysOf(r.lru) /\ m[Len(m)].value \in ValuesOf(r.lru)
    BY <2>1, Oldest
  <2> QED BY <2>2, <2>3, <2>4, <2>5, <2>6
<1> HIDE DEF r
<1>5. Fits(o, r.lru)
  BY <1>1, <1>3, <1>4 DEF Fits
<1>6. ~Expired(o, e, now) => k \notin KeysOf(r.evicts) /\ v \in ValuesOf(r.lru)
  BY <1>1, <1>2, <1>3, <1>4
<1> QED BY <1>3, <1>4, <1>5, <1>6 DEF r, m, w, e

\* LoadOrStore gives a value that was there and has not expired, or a new one.
FoundOrStored(K, l, k, o, v, now, r) ==
  /\ Fits(o, r.lru) /\ r.value \in ValuesOf(r.lru)
  /\ \/ /\ Parts(K, r, ValuesOf(l)) /\ Has(l, k) /\ r.value = EntryOf(l, k).value
        /\ r.value \in ValuesOf(l) /\ ~Expired(o, EntryOf(l, k), now)
     \/ Parts(K, r, ValuesOf(l) \cup {v}) /\ r.value = v

LEMMA LoadsOrStores ==
  ASSUME NEW K, NEW l \in Seq(Entries(K)), Proper(l), NEW k \in K,
         NEW o \in CacheOption, Fits(o, l), NEW now \in Nat, NEW age \in Nat,
         NEW v \in Nat, v \notin ValuesOf(l)
  PROVE  FoundOrStored(K, l, k, o, v, now, LoadOrStore(o, l, k, age, v, now))
<1> DEFINE r == LoadOrStore(o, l, k, age, v, now)  e == EntryOf(l, k)
<1>1. Len(l) \in Nat /\ o.maxAge \in Nat /\ now + o.maxAge \in Nat
  BY Fields DEF CacheOption
<1>2. CASE Has(l, k) /\ ~Expired(o, e, now)
  <2> DEFINE m == Touch(o, l, k, age, now)
  <2>1. r = Outcome(m, << >>, e.value)
    BY <1>2 DEF LoadOrStore
  <2>2. /\ m \in Seq(Entries(K)) /\ Len(m) = Len(l) /\ Proper(m)
        /\ ValuesOf(m) = ValuesOf(l) /\ e.value \in ValuesOf(m)
    BY <1>2, Touched
  <2> HIDE DEF r, m, e
  <2>3. r.lru = m /\ r.evicts = << >> /\ r.value = e.value
    BY <2>1, OutcomeFields
  <2>4. Parts(K, r, ValuesOf(l)) /\ Fits(o, r.lru)
    BY <2>2, <2>3, EmptyList DEF Parts, Fits
  <2> QED BY <1>2, <2>2, <2>3, <2>4 DEF r, e, FoundOrStored
<1>3. CASE ~(Has(l, k) /\ ~Expired(o, e, now))
  <2> DEFINE rest == maybeDeleteOldest(o, Append(Without(l, k), Entry(k, v, now + o.maxAge)), now)
             old == IF Has(l, k) THEN <<e>> ELSE << >>
  <2>1. r = Outcome(rest.lru, old \o rest.evicts, v)
    BY <1>3 DEF LoadOrStore
  <2>2. ~Expired(o, Entry(k, v, now + o.maxAge), now)
    <3>1. Entry(k, v, now + o.maxAge).expires = now + o.maxAge
      BY DEF Entry
    <3> QED BY <1>1, <3>1 DEF Expired
  <2>3. /\ Parts(K, rest, ValuesOf(Without(l, k)) \cup {v}) /\ Fits(o, rest.lru)
        /\ k \notin KeysOf(rest.evicts) /\ v \in ValuesOf(rest.lru)
    BY <1>1, <2>2, Inserted
  <2> HIDE DEF r, rest
  <2>4. rest.evicts \in Seq(Entries(K)) /\ Proper(rest.evicts)
    BY <2>3 DEF Parts
  <2>5. /\ old \o rest.evicts \in Seq(Entries(K)) /\ Proper(old \o rest.evicts)
        /\ ValuesOf(rest.lru) \cap ValuesOf(old \o rest.evicts) = {}
        /\ ValuesOf(rest.lru) \cup ValuesOf(old \o rest.evicts) = ValuesOf(l) \cup {v}
    <3>1. CASE Has(l, k)
      <4>1. /\ e \in Entries(K) /\ e.key = k /\ e.value \in ValuesOf(l)
            /\ ValuesOf(Without(l, k)) = ValuesOf(l) \ {e.value}
        BY <3>1, WithoutEntry
      <4> HIDE DEF e
      <4>2. e.value \notin ValuesOf(rest.evicts) /\ e.value \notin ValuesOf(rest.lru)
        BY <2>3, <4>1 DEF Parts
      <4>3. /\ <<e>> \o rest.evicts \in Seq(Entries(K)) /\ Proper(<<e>> \o rest.evicts)
            /\ ValuesOf(<<e>> \o rest.evicts) = {e.value} \cup ValuesOf(rest.evicts)
        BY <2>3, <2>4, <4>1, <4>2, EvictedFirst
      <4>4. old = <<e>>
        BY <3>1
      <4> HIDE DEF old
      <4> QED BY <2>3, <4>1, <4>2, <4>3, <4>4 DEF Parts
    <3>2. CASE ~Has(l, k)
      <4>1. old \o rest.evicts = rest.evicts
        BY <2>4, <3>2, ConcatEmptySeq
      <4>2. Without(l, k) = l
        BY <3>2, AbsentKey
      <4> HIDE DEF old
      <4> QED BY <2>3, <2>4, <4>1, <4>2 DEF Parts
    <3> QED BY <3>1, <3>2
  <2>6. r.lru = rest.lru /\ r.evicts = old \o rest.evicts /\ r.value = v
    <3> DEFINE f == old \o rest.evicts
    <3>1. r = Outcome(rest.lru, f, v)
      BY <2>1
    <3> HIDE DEF f
    <3>2. r.lru = rest.lru /\ r.evicts = f /\ r.value = v
      BY <3>1, OutcomeFields
    <3> QED BY <3>2 DEF f
  <2> HIDE DEF old
  <2>7. Parts(K, r, ValuesOf(l) \cup {v}) /\ Fits(o, r.lru)
    BY <2>3, <2>5, <2>6 DEF Parts
  <2> QED BY <2>3, <2>6, <2>7 DEF r, FoundOrStored
<1> QED BY <1>2, <1>3

\* deleteKey: one entry is evicted, if there is one.
LEMMA Deletes ==
  ASSUME NEW K, NEW l \in Seq(Entries(K)), Proper(l), NEW k, NEW o \in CacheOption, Fits(o, l)
  PROVE  LET r == deleteKey(l, k)
         IN Parts(K, r, ValuesOf(l)) /\ Fits(o, r.lru) /\ r.value = Miss
<1> DEFINE r == deleteKey(l, k)  e == EntryOf(l, k)  w == Without(l, k)
<1>1. Len(l) \in Nat /\ o.maxSize \in Nat
  BY Fields DEF CacheOption
<1>2. CASE Has(l, k)
  <2>1. r = Outcome(w, <<e>>, Miss)
    BY <1>2 DEF deleteKey, deleteElement
  <2>2. /\ e \in Entries(K) /\ e.key = k /\ w \in Seq(Entries(K)) /\ Len(w) = Len(l) - 1 /\ Proper(w)
        /\ e.value \in ValuesOf(l) /\ ValuesOf(w) = ValuesOf(l) \ {e.value}
    BY <1>2, WithoutEntry
  <2> HIDE DEF r, w, e
  <2>3. r.lru = w /\ r.evicts = <<e>> /\ r.value = Miss
    BY <2>1, OutcomeFields
  <2>4. <<e>> \in Seq(Entries(K)) /\ Proper(<<e>>) /\ ValuesOf(<<e>>) = {e.value}
    BY <2>2, OneEntry
  <2>5. Parts(K, r, ValuesOf(l))
    BY <2>2, <2>3, <2>4 DEF Parts
  <2>6. Fits(o, r.lru)
    BY <1>1, <2>2, <2>3 DEF Fits
  <2> QED BY <2>3, <2>5, <2>6 DEF r
<1>3. CASE ~Has(l, k)
  <2>1. r.lru = l /\ r.evicts = << >> /\ r.value = Miss
    BY <1>3, OutcomeFields DEF deleteKey
  <2> HIDE DEF r
  <2>2. Parts(K, r, ValuesOf(l)) /\ Fits(o, r.lru)
    BY <2>1, EmptyList DEF Parts
  <2> QED BY <2>1, <2>2 DEF r
<1> QED BY <1>2, <1>3

\* The calls of onEvict that a method adds to the earlier ones.
LEMMA MoreEvictions ==
  ASSUME NEW K, NEW E \in Seq(Nat), Distinct(E), NEW s \in Seq(Entries(K)), Proper(s),
         Items(E) \cap ValuesOf(s) = {}
  PROVE  LET m == E \o [i \in 1 .. Len(s) |-> s[i].value]
         IN m \in Seq(Nat) /\ Distinct(m) /\ Items(m) = Items(E) \cup ValuesOf(s)
<1> DEFINE f == [i \in 1 .. Len(s) |-> s[i].value]  m == E \o f
<1>1. Len(s) \in Nat /\ \A i \in 1 .. Len(s) : s[i].value \in Nat /\ s[i].value \in ValuesOf(s)
  BY Fields DEF Entries
<1>2. f \in Seq(Nat) /\ Len(f) = Len(s) /\ \A i \in 1 .. Len(s) : f[i] = s[i].value
  BY <1>1
<1> HIDE DEF f
<1>3. /\ m \in Seq(Nat) /\ Len(m) = Len(E) + Len(s) /\ Len(E) \in Nat
      /\ \A i \in 1 .. Len(E) + Len(s) : m[i] = IF i <= Len(E) THEN E[i] ELSE f[i - Len(E)]
  <2>1. f \in Seq(Nat)
    BY <1>2
  <2>2. /\ m \in Seq(Nat) /\ Len(m) = Len(E) + Len(f) /\ Len(E) \in Nat
        /\ \A i \in 1 .. Len(E) + Len(f) : m[i] = IF i <= Len(E) THEN E[i] ELSE f[i - Len(E)]
    BY <2>1, ConcatProperties, LenProperties
  <2> HIDE DEF m
  <2> QED BY <1>2, <2>2
<1> HIDE DEF m
<1>4. \A i \in 1 .. Len(m) : \/ i \in 1 .. Len(E) /\ m[i] = E[i]
                             \/ i - Len(E) \in 1 .. Len(s) /\ m[i] = s[i - Len(E)].value
  <2> SUFFICES ASSUME NEW i \in 1 .. Len(m), i \notin 1 .. Len(E)
               PROVE  i - Len(E) \in 1 .. Len(s) /\ m[i] = s[i - Len(E)].value
    BY <1>1, <1>3
  <2>1. i \in 1 .. Len(E) + Len(s) /\ ~(i <= Len(E)) /\ i - Len(E) \in 1 .. Len(s)
    BY <1>1, <1>3
  <2>2. m[i] = f[i - Len(E)]
    BY <1>3, <2>1
  <2> QED BY <1>2, <2>1, <2>2
<1>5. ASSUME NEW i \in 1 .. Len(s) PROVE i + Len(E) \in 1 .. Len(m) /\ m[i + Len(E)] = s[i].value
  <2>1. i + Len(E) \in 1 .. Len(E) + Len(s) /\ ~(i + Len(E) <= Len(E)) /\ (i + Len(E)) - Len(E) = i
    BY <1>1, <1>3
  <2> QED BY <1>2, <1>3, <2>1
<1>6. \A i \in 1 .. Len(E) : i \in 1 .. Len(m) /\ m[i] = E[i] /\ E[i] \in Items(E)
  BY <1>1, <1>3 DEF Items
<1>7. Distinct(m)
  <2> SUFFICES ASSUME NEW i \in 1 .. Len(m), NEW j \in 1 .. Len(m), m[i] = m[j] PROVE i = j
    BY DEF Distinct
  <2>1. CASE i \in 1 .. Len(E) /\ m[i] = E[i]
    <3>1. j \in 1 .. Len(E) /\ m[j] = E[j]
      BY <1>1, <1>4, <1>6, <2>1
    <3> QED BY <2>1, <3>1 DEF Distinct
  <2>2. CASE i - Len(E) \in 1 .. Len(s) /\ m[i] = s[i - Len(E)].value
    <3>1. j - Len(E) \in 1 .. Len(s) /\ m[j] = s[j - Len(E)].value
      BY <1>1, <1>4, <1>6, <2>2
    <3>2. i - Len(E) = j - Len(E)
      BY <2>2, <3>1 DEF Proper
    <3> QED BY <1>3, <3>2
  <2> QED BY <1>4, <2>1, <2>2
<1>8. Items(m) = Items(E) \cup ValuesOf(s)
  <2>1. ASSUME NEW i \in 1 .. Len(m) PROVE m[i] \in Items(E) \cup ValuesOf(s)
    <3>1. CASE i \in 1 .. Len(E) /\ m[i] = E[i]
      BY <1>6, <3>1
    <3>2. CASE i - Len(E) \in 1 .. Len(s) /\ m[i] = s[i - Len(E)].value
      BY <1>1, <3>2
    <3> QED BY <1>4, <3>1, <3>2
  <2>2. Items(E) \subseteq Items(m)
    BY <1>6 DEF Items
  <2>3. ValuesOf(s) \subseteq Items(m)
    BY <1>5 DEF Items, ValuesOf
  <2>4. Items(m) \subseteq Items(E) \cup ValuesOf(s)
    BY <2>1 DEF Items
  <2> QED BY <2>2, <2>3, <2>4
<1> QED BY <1>3, <1>7, <1>8 DEF m, f

-----------------------------------------------------------------------------
\* What every method that answers leaves, given what it does with the list.
LEMMA ReplyStep ==
  ASSUME CacheIInv, NEW k \in CacheKeys, NEW r, NEW values, NEW looked \in BOOLEAN,
         CacheReply(k, r, looked),
         Parts(CacheKeys, r, values), Fits(options, r.lru),
         r.value = Miss \/ r.value \in ValuesOf(r.lru),
         values \cap EvictedValues = {}, made' \in Nat, replaced' \subseteq Nat,
         values \cap replaced' = {}, EvictedValues \cap replaced' = {},
         values \cup EvictedValues \cup replaced' = 1 .. made'
  PROVE  CacheIInv'
<1>1. /\ lruList' = r.lru /\ answer' = [looked |-> looked, key |-> k, value |-> r.value]
      /\ evictions' = evictions \o [i \in 1 .. Len(r.evicts) |-> r.evicts[i].value]
      /\ options' = options /\ clock' = clock
  BY DEF CacheReply
<1>2. InCache' = ValuesOf(r.lru) /\ Items(evictions) = EvictedValues /\ EvictedValues' = Items(evictions')
  BY <1>1 DEF InCache, ValuesOf, EvictedValues, Items
<1>3. /\ evictions' \in Seq(Nat) /\ Distinct(evictions')
      /\ Items(evictions') = Items(evictions) \cup ValuesOf(r.evicts)
  <2>1. /\ r.evicts \in Seq(Entries(CacheKeys)) /\ Proper(r.evicts)
        /\ evictions \in Seq(Nat) /\ Distinct(evictions)
        /\ Items(evictions) \cap ValuesOf(r.evicts) = {}
    BY <1>2 DEF Parts, CacheIInv, CacheTypeOK
  <2> QED BY <1>1, <2>1, MoreEvictions
<1>4. r.value \in Nat
  <2>1. ValuesOf(r.lru) \subseteq Nat
    BY Fields DEF Parts
  <2> QED BY <2>1 DEF Miss
<1>5. CacheTypeOK'
  <2>1. answer' \in [looked : BOOLEAN, key : CacheKeys \cup {Miss}, value : Nat]
    BY <1>1, <1>4, Zenon
  <2>2. lruList' \in Seq(Entries(CacheKeys)) /\ options' \in CacheOptions /\ clock' \in Nat
    BY <1>1 DEF Parts, CacheIInv, CacheTypeOK
  <2> QED BY <1>3, <2>1, <2>2 DEF CacheTypeOK
<1>6. Proper(lruList')
  BY <1>1 DEF Parts
<1>7. Accounted'
  BY <1>2, <1>3 DEF Parts, Accounted
<1>8. (options.maxSize > 0 => Len(lruList) <= options.maxSize)'
  BY <1>1 DEF Fits
<1>9. (answer.looked /\ answer.value # Miss => answer.value \in InCache)'
  BY <1>1, <1>2
<1> QED BY <1>3, <1>5, <1>6, <1>7, <1>8, <1>9 DEF CacheIInv

\* What the invariant says of the list that a method is given.
LEMMA BeforeCall ==
  ASSUME CacheIInv
  PROVE  /\ lruList \in Seq(Entries(CacheKeys)) /\ Proper(lruList) /\ options \in CacheOption
         /\ Fits(options, lruList) /\ clock \in Nat /\ made \in Nat /\ replaced \subseteq Nat
         /\ options.maxAge \in Nat
         /\ InCache = ValuesOf(lruList) /\ Accounted /\ made + 1 \in Nat /\ made + 1 \notin 1 .. made
         /\ made + 1 \notin ValuesOf(lruList)
         /\ 1 .. made + 1 = 1 .. made \cup {made + 1}
<1>1. /\ lruList \in Seq(Entries(CacheKeys)) /\ Proper(lruList) /\ options \in CacheOption
      /\ clock \in Nat /\ made \in Nat /\ replaced \subseteq Nat /\ Accounted
  BY CacheAssumption DEF CacheIInv, CacheTypeOK, CacheOption
<1>2. Fits(options, lruList) /\ InCache = ValuesOf(lruList) /\ options.maxAge \in Nat
  BY <1>1 DEF CacheIInv, Fits, InCache, ValuesOf, CacheOption
<1>3. made + 1 \in Nat /\ made + 1 \notin 1 .. made /\ 1 .. made + 1 = 1 .. made \cup {made + 1}
  BY <1>1
<1>4. made + 1 \notin ValuesOf(lruList)
  BY <1>1, <1>2, <1>3 DEF Accounted
<1> QED BY <1>1, <1>2, <1>3, <1>4

LEMMA LoadStep ==
  ASSUME CacheIInv, NEW k \in CacheKeys, CacheLoad(k)
  PROVE  CacheIInv'
<1> DEFINE r == getEntry(options, lruList, k, clock)
<1>1. CacheReply(k, r, TRUE) /\ made' = made /\ replaced' = replaced
  BY DEF CacheLoad
<1>2. /\ Parts(CacheKeys, r, ValuesOf(lruList)) /\ Fits(options, r.lru)
      /\ r.value = Miss \/ r.value \in ValuesOf(r.lru)
  BY BeforeCall, Gets
<1> HIDE DEF r
<1>3. /\ ValuesOf(lruList) \cap EvictedValues = {} /\ ValuesOf(lruList) \cap replaced' = {}
      /\ EvictedValues \cap replaced' = {}
      /\ ValuesOf(lruList) \cup EvictedValues \cup replaced' = 1 .. made'
      /\ made' \in Nat /\ replaced' \subseteq Nat
  BY <1>1, BeforeCall DEF Accounted
<1> QED BY <1>1, <1>2, <1>3, ReplyStep

LEMMA DeleteStep ==
  ASSUME CacheIInv, NEW k \in CacheKeys, NEW r, r = deleteKey(lruList, k),
         CacheReply(k, r, FALSE), made' = made, replaced' = replaced
  PROVE  CacheIInv'
<1>1. Parts(CacheKeys, r, ValuesOf(lruList)) /\ Fits(options, r.lru) /\ r.value = Miss
  BY BeforeCall, Deletes
<1>2. /\ ValuesOf(lruList) \cap EvictedValues = {} /\ ValuesOf(lruList) \cap replaced' = {}
      /\ EvictedValues \cap replaced' = {}
      /\ ValuesOf(lruList) \cup EvictedValues \cup replaced' = 1 .. made'
      /\ made' \in Nat /\ replaced' \subseteq Nat
  BY BeforeCall DEF Accounted
<1> QED BY <1>1, <1>2, ReplyStep

LEMMA ClearStep ==
  ASSUME CacheIInv, CacheClear
  PROVE  CacheIInv'
<1> DEFINE k == lruList[1].key
<1>1. lruList # << >> /\ CacheReply(k, ClearList(lruList), FALSE) /\ made' = made /\ replaced' = replaced
  BY DEF CacheClear
<1>2. 1 \in 1 .. Len(lruList) /\ lruList[1].key \in CacheKeys
  <2>1. lruList \in Seq(Entries(CacheKeys))
    BY BeforeCall
  <2>2. Len(lruList) \in Nat /\ Len(lruList) # 0
    BY <1>1, <2>1, EmptySeq
  <2>3. 1 \in 1 .. Len(lruList)
    BY <2>2
  <2> QED BY <2>1, <2>3, Fields DEF Entries
<1>3. Has(lruList, k)
  BY <1>2 DEF Has, IndexOf
<1>4. ClearList(lruList) = deleteKey(lruList, k)
  BY <1>1, <1>3 DEF ClearList, deleteKey
<1> HIDE DEF k
<1> QED BY <1>1, <1>2, <1>4, DeleteStep DEF k

LEMMA LoadOrStoreCall ==
  ASSUME CacheIInv, NEW k \in CacheKeys, NEW age \in Nat, NEW v, v = made + 1
  PROVE  FoundOrStored(CacheKeys, lruList, k, options, v, clock,
                       LoadOrStore(options, lruList, k, AgeOf(options, age), v, clock))
<1>1. AgeOf(options, age) \in Nat
  BY BeforeCall DEF AgeOf
<1>2. /\ lruList \in Seq(Entries(CacheKeys)) /\ Proper(lruList) /\ options \in CacheOption
      /\ Fits(options, lruList) /\ clock \in Nat /\ v \in Nat /\ v \notin ValuesOf(lruList)
  BY BeforeCall
<1> QED BY <1>1, <1>2, LoadsOrStores

LEMMA LoadOrStoreStep ==
  ASSUME CacheIInv, NEW k \in CacheKeys, NEW age \in Nat, CacheLoadOrStore(k, age)
  PROVE  CacheIInv'
<1> DEFINE r == LoadOrStore(options, lruList, k, AgeOf(options, age), made + 1, clock)
<1>1. /\ CacheReply(k, r, TRUE) /\ replaced' = replaced
      /\ made' = IF r.value = made + 1 THEN made + 1 ELSE made
  BY DEF CacheLoadOrStore
<1>3. /\ Fits(options, r.lru) /\ r.value \in ValuesOf(r.lru)
      /\ \/ Parts(CacheKeys, r, ValuesOf(lruList)) /\ r.value \in ValuesOf(lruList)
         \/ Parts(CacheKeys, r, ValuesOf(lruList) \cup {made + 1}) /\ r.value = made + 1
  <2> HIDE DEF r
  <2>1. FoundOrStored(CacheKeys, lruList, k, options, made + 1, clock, r)
    BY LoadOrStoreCall DEF r
  <2> QED BY <2>1 DEF FoundOrStored
<1> HIDE DEF r
<1>4. CASE Parts(CacheKeys, r, ValuesOf(lruList)) /\ r.value \in ValuesOf(lruList)
  <2>1. made' = made
    BY <1>1, <1>4, BeforeCall
  <2>2. /\ ValuesOf(lruList) \cap EvictedValues = {} /\ ValuesOf(lruList) \cap replaced' = {}
        /\ EvictedValues \cap replaced' = {}
        /\ ValuesOf(lruList) \cup EvictedValues \cup replaced' = 1 .. made'
        /\ made' \in Nat /\ replaced' \subseteq Nat
    BY <1>1, <2>1, BeforeCall DEF Accounted
  <2> QED BY <1>1, <1>3, <1>4, <2>2, ReplyStep
<1>5. CASE Parts(CacheKeys, r, ValuesOf(lruList) \cup {made + 1}) /\ r.value = made + 1
  <2> DEFINE V == ValuesOf(lruList) \cup {made + 1}
  <2>1. made' = made + 1
    BY <1>1, <1>5
  <2>2. /\ V \cap EvictedValues = {} /\ V \cap replaced' = {}
        /\ EvictedValues \cap replaced' = {}
        /\ V \cup EvictedValues \cup replaced' = 1 .. made'
        /\ made' \in Nat /\ replaced' \subseteq Nat
    BY <1>1, <2>1, BeforeCall DEF Accounted
  <2> HIDE DEF V
  <2>3. Parts(CacheKeys, r, V)
    BY <1>5 DEF V
  <2> QED BY <1>1, <1>3, <2>2, <2>3, ReplyStep
<1> QED BY <1>3, <1>4, <1>5

\* Store is the one method that drops a value without a call of onEvict.
LEMMA StoreStep ==
  ASSUME CacheIInv, NEW k \in CacheKeys, NEW age \in Nat, CacheStore(k, age)
  PROVE  CacheIInv'
<1> DEFINE expires == IF options.maxAge > 0 THEN clock + AgeOf(options, age) ELSE 0
           r == StoreWithExpire(options, lruList, k, made + 1, expires, clock)
           V == ValuesOf(Without(lruList, k)) \cup {made + 1}
<1>1. /\ CacheReply(k, r, FALSE) /\ made' = made + 1
      /\ replaced' = IF Has(lruList, k) THEN replaced \cup {EntryOf(lruList, k).value} ELSE replaced
  BY DEF CacheStore
<1>2. expires \in Nat
  BY BeforeCall DEF AgeOf
<1> HIDE DEF expires
<1>3. Parts(CacheKeys, r, V) /\ Fits(options, r.lru) /\ r.value = Miss
  BY <1>2, BeforeCall, Inserted DEF StoreWithExpire
<1> HIDE DEF r
<1>4. \/ /\ EntryOf(lruList, k).value \in ValuesOf(lruList)
         /\ ValuesOf(Without(lruList, k)) = ValuesOf(lruList) \ {EntryOf(lruList, k).value}
         /\ replaced' = replaced \cup {EntryOf(lruList, k).value}
      \/ ValuesOf(Without(lruList, k)) = ValuesOf(lruList) /\ replaced' = replaced
  <2>1. CASE Has(lruList, k)
    BY <1>1, <2>1, BeforeCall, WithoutEntry
  <2>2. CASE ~Has(lruList, k)
    BY <1>1, <2>2, AbsentKey
  <2> QED BY <2>1, <2>2
<1>5. /\ V \cap EvictedValues = {} /\ V \cap replaced' = {} /\ EvictedValues \cap replaced' = {}
      /\ V \cup EvictedValues \cup replaced' = 1 .. made'
  BY <1>1, <1>4, BeforeCall DEF Accounted
<1>6. made' \in Nat /\ replaced' \subseteq Nat
  <2>1. ValuesOf(lruList) \subseteq Nat
    BY BeforeCall, Fields
  <2> QED BY <1>1, <1>4, <2>1, BeforeCall
<1> HIDE DEF V
<1> QED BY <1>1, <1>3, <1>5, <1>6, ReplyStep

LEMMA IdleStep ==
  ASSUME CacheIInv, UNCHANGED <<options, lruList, made, evictions, replaced, answer>>, clock' \in Nat
  PROVE  CacheIInv'
<1>1. CacheTypeOK'
  BY DEF CacheIInv, CacheTypeOK
<1>2. InCache' = InCache /\ EvictedValues' = EvictedValues
  BY DEF InCache, EvictedValues
<1>3. Accounted'
  BY <1>2 DEF CacheIInv, Accounted
<1> QED BY <1>1, <1>2, <1>3 DEF CacheIInv

\* The inductive invariant, for every sequence of calls while time passes.
THEOREM CacheInvariance == CacheSpec => []CacheIInv
<1>1. CacheInit => CacheIInv
  <2> SUFFICES ASSUME CacheInit PROVE CacheIInv
    OBVIOUS
  <2>1. /\ options \in CacheOptions /\ lruList = << >> /\ clock = 0 /\ made = 0 /\ evictions = << >>
        /\ replaced = {} /\ answer = [looked |-> FALSE, key |-> Miss, value |-> Miss]
    BY DEF CacheInit
  <2>2. lruList \in Seq(Entries(CacheKeys)) /\ Len(lruList) = 0 /\ Proper(lruList) /\ ValuesOf(lruList) = {}
    BY <2>1, EmptyList
  <2>3. evictions \in Seq(Nat) /\ Len(evictions) = 0 /\ 1 .. 0 = {}
    BY <2>1
  <2>4. Distinct(evictions) /\ EvictedValues = {} /\ InCache = {}
    BY <2>2, <2>3 DEF Distinct, EvictedValues, InCache, ValuesOf
  <2>5. CacheTypeOK
    <3>1. answer \in [looked : BOOLEAN, key : CacheKeys \cup {Miss}, value : Nat]
      <4>1. Miss \in Nat
        BY DEF Miss
      <4> QED BY <2>1, <4>1, Zenon
    <3> QED BY <2>1, <2>2, <2>3, <3>1 DEF CacheTypeOK
  <2>6. Accounted
    BY <2>1, <2>3, <2>4 DEF Accounted
  <2>7. options.maxSize > 0 => Len(lruList) <= options.maxSize
    BY <2>1, <2>2, CacheAssumption
  <2> QED BY <2>1, <2>2, <2>4, <2>5, <2>6, <2>7 DEF CacheIInv
<1>2. CacheIInv /\ [CacheNext]_lruVars => CacheIInv'
  <2> SUFFICES ASSUME CacheIInv, [CacheNext]_lruVars PROVE CacheIInv'
    OBVIOUS
  <2>1. CASE CacheTick
    BY <2>1, BeforeCall, IdleStep DEF CacheTick
  <2>2. CASE UNCHANGED lruVars
    BY <2>2, BeforeCall, IdleStep DEF lruVars
  <2>3. CASE CacheClear
    BY <2>3, ClearStep
  <2>4. ASSUME NEW k \in CacheKeys, CacheLoad(k) PROVE CacheIInv'
    BY <2>4, LoadStep
  <2>5. ASSUME NEW k \in CacheKeys, CacheDelete(k) PROVE CacheIInv'
    BY <2>5, DeleteStep DEF CacheDelete
  <2>6. ASSUME NEW k \in CacheKeys, NEW age \in {0, options.maxAge + 1},
               CacheLoadOrStore(k, age) \/ CacheStore(k, age)
        PROVE  CacheIInv'
    <3>1. age \in Nat
      BY BeforeCall
    <3> QED BY <2>6, <3>1, LoadOrStoreStep, StoreStep
  <2> QED BY <2>1, <2>2, <2>3, <2>4, <2>5, <2>6 DEF CacheNext
<1> QED BY <1>1, <1>2, PTL DEF CacheSpec

\* A list without repetitions is as long as the set of its elements is large.
LEMMA DistinctLength ==
  ASSUME NEW s \in Seq(Nat), Distinct(s)
  PROVE  Len(s) = Cardinality(Items(s))
<1>1. Len(s) \in Nat /\ \A i \in 1 .. Len(s) : s[i] \in Items(s)
  BY LenProperties DEF Items
<1> DEFINE f == [i \in 1 .. Len(s) |-> s[i]]
<1>2. f \in [1 .. Len(s) -> Items(s)]
  BY <1>1
<1>3. /\ \A a, b \in 1 .. Len(s) : f[a] = f[b] => a = b
      /\ \A t \in Items(s) : \E a \in 1 .. Len(s) : f[a] = t
  BY DEF Distinct, Items
<1> HIDE DEF f
<1>4. f \in Bijection(1 .. Len(s), Items(s))
  BY <1>2, <1>3, Fun_IsBij
<1>5. ExistsBijection(1 .. Len(s), Items(s))
  BY <1>4 DEF ExistsBijection
<1>6. /\ IsFiniteSet(1 .. Len(s))
      /\ Cardinality(1 .. Len(s)) = IF 1 > Len(s) THEN 0 ELSE Len(s) - 1 + 1
  BY <1>1, FS_Interval
<1> QED BY <1>1, <1>5, <1>6, FS_Bijection

\* CacheAccounts: every value that was stored is held under one key, or was
\* given to onEvict once, or was replaced; the cache never holds more than
\* maxSize, and a caller is given a value that is held.
THEOREM CacheAccountsHold == CacheSpec => []CacheAccounts
<1>1. CacheIInv => CacheAccounts
  <2> SUFFICES ASSUME CacheIInv PROVE CacheAccounts
    OBVIOUS
  <2>1. evictions \in Seq(Nat) /\ Distinct(evictions) /\ EvictedValues = Items(evictions)
    BY DEF CacheIInv, CacheTypeOK, EvictedValues, Items
  <2>2. Len(evictions) = Cardinality(EvictedValues)
    BY <2>1, DistinctLength
  <2> QED BY <2>2 DEF CacheIInv, CacheAccounts, Proper, Accounted
<1> QED BY <1>1, CacheInvariance, PTL

\* The entry that has a value that was found.
LEMMA FoundEntry ==
  ASSUME CacheIInv, NEW k, Has(lruList, k), NEW i \in 1 .. Len(lruList),
         lruList[i].value = EntryOf(lruList, k).value
  PROVE  lruList[i] = EntryOf(lruList, k)
<1>1. PlaceOf(lruList, k) \in 1 .. Len(lruList)
  BY BeforeCall, WithoutEntry
<1>2. i = PlaceOf(lruList, k)
  BY <1>1, BeforeCall DEF Proper, EntryOf
<1> QED BY <1>2 DEF EntryOf

\* NothingExpired: get and LoadOrStore give no value whose entry had expired
\* when they were called, unless the cache was made WithStale.
THEOREM NothingExpiredHolds == CacheSpec => NothingExpired
<1> DEFINE Fresh == answer'.looked /\ answer' # answer /\ answer'.value # Miss /\ ~options.staleReturn =>
             \A i \in 1 .. Len(lruList) :
               lruList[i].value = answer'.value => ~Expired(options, lruList[i], clock)
<1>1. CacheIInv /\ [CacheNext]_lruVars => [Fresh]_lruVars
  <2> SUFFICES ASSUME CacheIInv, CacheNext,
                      answer'.looked, answer' # answer, answer'.value # Miss, ~options.staleReturn,
                      NEW i \in 1 .. Len(lruList), lruList[i].value = answer'.value
               PROVE  ~Expired(options, lruList[i], clock)
    OBVIOUS
  <2>1. ASSUME NEW k, NEW r, CacheReply(k, r, TRUE) PROVE answer'.value = r.value
    BY <2>1 DEF CacheReply
  <2>2. ASSUME NEW k, NEW r, CacheReply(k, r, FALSE) PROVE FALSE
    BY <2>2 DEF CacheReply
  <2>3. CASE CacheTick \/ CacheClear
    BY <2>2, <2>3 DEF CacheTick, CacheClear
  <2>4. ASSUME NEW k \in CacheKeys, CacheLoad(k) PROVE ~Expired(options, lruList[i], clock)
    <3> DEFINE r == getEntry(options, lruList, k, clock)
    <3>1. answer'.value = r.value
      BY <2>1, <2>4 DEF CacheLoad
    <3>2. Has(lruList, k) /\ r.value = EntryOf(lruList, k).value /\ ~Expired(options, EntryOf(lruList, k), clock)
      BY <3>1, BeforeCall, Gets
    <3> HIDE DEF r
    <3> QED BY <3>1, <3>2, FoundEntry
  <2>5. ASSUME NEW k \in CacheKeys, CacheDelete(k) PROVE FALSE
    BY <2>2, <2>5 DEF CacheDelete
  <2>6. ASSUME NEW k \in CacheKeys, NEW age \in {0, options.maxAge + 1}, CacheStore(k, age) PROVE FALSE
    BY <2>2, <2>6 DEF CacheStore
  <2>7. ASSUME NEW k \in CacheKeys, NEW age \in {0, options.maxAge + 1}, CacheLoadOrStore(k, age)
        PROVE  ~Expired(options, lruList[i], clock)
    <3> DEFINE r == LoadOrStore(options, lruList, k, AgeOf(options, age), made + 1, clock)
    <3>1. answer'.value = r.value
      BY <2>1, <2>7 DEF CacheLoadOrStore
    <3>2. age \in Nat
      BY BeforeCall
    <3>3. \/ Has(lruList, k) /\ r.value = EntryOf(lruList, k).value /\ ~Expired(options, EntryOf(lruList, k), clock)
          \/ r.value = made + 1
      <4> HIDE DEF r
      <4>1. FoundOrStored(CacheKeys, lruList, k, options, made + 1, clock, r)
        BY <3>2, LoadOrStoreCall DEF r
      <4> QED BY <4>1 DEF FoundOrStored
    <3>4. lruList[i].value \in ValuesOf(lruList)
      BY DEF ValuesOf
    <3> HIDE DEF r
    <3>5. r.value # made + 1
      BY <3>1, <3>4, BeforeCall
    <3> QED BY <3>1, <3>3, <3>5, FoundEntry
  <2> QED BY <2>3, <2>4, <2>5, <2>6, <2>7 DEF CacheNext
<1> QED BY <1>1, CacheInvariance, PTL DEF CacheSpec, NothingExpired

-----------------------------------------------------------------------------
\* Which entries a method keeps and which it evicts.
LEMMA ItemsAre ==
  ASSUME NEW K, NEW l \in Seq(Entries(K))
  PROVE  /\ \A i \in 1 .. Len(l) : l[i] \in Items(l)
         /\ \A e \in Items(l) : e \in Entries(K) /\ e.key \in KeysOf(l) /\ e.value \in ValuesOf(l)
         /\ KeysOf(l) = {e.key : e \in Items(l)} /\ ValuesOf(l) = {e.value : e \in Items(l)}
<1>1. \A i \in 1 .. Len(l) : l[i] \in Entries(K)
  BY Fields
<1> QED BY <1>1 DEF Items, KeysOf, ValuesOf

LEMMA AppendEntryItems ==
  ASSUME NEW K, NEW l \in Seq(Entries(K)), NEW e \in Entries(K)
  PROVE  Items(Append(l, e)) = Items(l) \cup {e}
<1> DEFINE m == Append(l, e)
<1>1. /\ Len(m) = Len(l) + 1 /\ Len(l) \in Nat
      /\ m[Len(l) + 1] = e /\ \A i \in 1 .. Len(l) : m[i] = l[i]
  BY AppendProperties, LenProperties
<1> HIDE DEF m
<1>2. \A i : i \in 1 .. Len(m) <=> i \in 1 .. Len(l) \/ i = Len(l) + 1
  BY <1>1
<1>3. Items(m) = Items(l) \cup {e}
  BY <1>1, <1>2 DEF Items
<1> QED BY <1>3 DEF m

LEMMA CutItems ==
  ASSUME NEW K, NEW l \in Seq(Entries(K)), Proper(l), NEW n \in 0 .. Len(l)
  PROVE  /\ Items(SubSeq(l, n + 1, Len(l))) \subseteq Items(l) /\ Items(SubSeq(l, 1, n)) \subseteq Items(l)
         /\ \A e \in Items(SubSeq(l, 1, n)) : \E i \in 1 .. n : e = l[i]
<1> DEFINE a == SubSeq(l, 1, n)  b == SubSeq(l, n + 1, Len(l))
<1>1. /\ Len(a) = n /\ Len(b) = Len(l) - n
      /\ \A i \in 1 .. n : a[i] = l[i]
      /\ \A i \in 1 .. Len(l) - n : b[i] = l[n + i]
  BY Cut
<1>2. Len(l) \in Nat /\ \A i \in 1 .. Len(l) : l[i] \in Items(l)
  BY Fields, ItemsAre
<1> HIDE DEF a, b
<1>3. ASSUME NEW i \in 1 .. Len(b) PROVE b[i] \in Items(l)
  <2>1. b[i] = l[n + i] /\ n + i \in 1 .. Len(l)
    BY <1>1, <1>2
  <2> QED BY <1>2, <2>1
<1>4. Items(b) \subseteq Items(l)
  BY <1>3 DEF Items
<1>5. ASSUME NEW e \in Items(a) PROVE \E i \in 1 .. n : e = l[i]
  <2>1. PICK i \in 1 .. Len(a) : e = a[i]
    BY <1>5 DEF Items
  <2> QED BY <1>1, <2>1
<1>6. \A i \in 1 .. n : i \in 1 .. Len(l)
  BY <1>2
<1>7. Items(a) \subseteq Items(l)
  BY <1>2, <1>5, <1>6
<1> QED BY <1>4, <1>5, <1>7 DEF a, b

\* The entries that ExpiredInFront counts are the first ones.
LEMMA ExpiredAreFirst ==
  ASSUME NEW K, NEW l \in Seq(Entries(K)), NEW o, NEW now, NEW i \in 1 .. ExpiredInFront(o, l, now)
  PROVE  i \in 1 .. Len(l) /\ Expired(o, l[i], now)
<1> DEFINE S == {j \in 1 .. Len(l) : \A h \in 1 .. j : Expired(o, l[h], now)}
<1>1. Len(l) \in Nat /\ ExpiredInFront(o, l, now) \in 0 .. Len(l) /\ ExpiredInFront(o, l, now) = Cardinality(S)
  <2>1. Len(l) \in Nat
    BY Fields
  <2>2. ExpiredInFront(o, l, now) \in 0 .. Len(l)
    BY ExpiredFront
  <2>3. ExpiredInFront(o, l, now) = Cardinality(S)
    BY Zenon DEF ExpiredInFront
  <2> QED BY <2>1, <2>2, <2>3
<1>2. i \in 1 .. Len(l) /\ i \in Nat
  BY <1>1
<1>3. ASSUME i \notin S PROVE FALSE
  <2>1. S \in SUBSET (1 .. i - 1)
    <3> SUFFICES ASSUME NEW j \in S, j >= i PROVE FALSE
      BY <1>1, <1>2
    <3>1. \A h \in 1 .. i : h \in 1 .. j
      BY <1>1, <1>2
    <3> QED BY <1>2, <1>3, <3>1
  <2> HIDE DEF S
  <2>2. IsFiniteSet(1 .. i - 1) /\ Cardinality(1 .. i - 1) = i - 1
    <3>1. /\ IsFiniteSet(1 .. i - 1)
          /\ Cardinality(1 .. i - 1) = IF 1 > i - 1 THEN 0 ELSE (i - 1) - 1 + 1
      BY <1>2, FS_Interval
    <3> QED BY <1>2, <3>1
  <2>3. Cardinality(S) <= Cardinality(1 .. i - 1)
    BY <2>1, <2>2, FS_Subset
  <2> QED BY <1>1, <1>2, <2>2, <2>3
<1>4. i \in S
  BY <1>3
<1> QED BY <1>2, <1>4

LEMMA OldestItems ==
  ASSUME NEW K, NEW l \in Seq(Entries(K)), Proper(l), NEW o \in CacheOption, o.maxSize = 0, NEW now
  PROVE  LET r == maybeDeleteOldest(o, l, now)
         IN /\ Items(r.lru) \subseteq Items(l)
            /\ \A e \in Items(r.evicts) : e \in Items(l) /\ Expired(o, e, now)
<1> DEFINE n == IF o.staleReturn THEN 0 ELSE ExpiredInFront(o, l, now)
           over == IF o.maxSize > 0 /\ Len(l) - n > o.maxSize THEN 1 ELSE 0
<1>1. Len(l) \in Nat /\ n \in 0 .. Len(l)
  BY Fields, ExpiredFront
<1>2. ASSUME NEW i \in 1 .. n PROVE Expired(o, l[i], now)
  BY <1>2, ExpiredAreFirst
<1> HIDE DEF n
<1>3. over = 0
  OBVIOUS
<1> HIDE DEF over
<1> DEFINE a == SubSeq(l, 1, n)  b == SubSeq(l, n + 1, Len(l))
<1>4. n + over = n
  BY <1>1, <1>3
<1>5. maybeDeleteOldest(o, l, now) = Outcome(SubSeq(l, n + over + 1, Len(l)), SubSeq(l, 1, n + over), Miss)
  BY DEF maybeDeleteOldest, n, over
<1>6. maybeDeleteOldest(o, l, now) = Outcome(b, a, Miss)
  BY <1>4, <1>5
<1>7. /\ Items(b) \subseteq Items(l) /\ Items(a) \subseteq Items(l)
      /\ \A e \in Items(a) : \E i \in 1 .. n : e = l[i]
  BY <1>1, CutItems
<1> HIDE DEF a, b
<1>8. maybeDeleteOldest(o, l, now).lru = b /\ maybeDeleteOldest(o, l, now).evicts = a
  BY <1>6, OutcomeFields
<1> QED BY <1>2, <1>7, <1>8

LEMMA WithoutItems ==
  ASSUME NEW K, NEW l \in Seq(Entries(K)), Proper(l), NEW k
  PROVE  Items(Without(l, k)) \subseteq Items(l)
<1>1. CASE Has(l, k)
  <2> DEFINE p == PlaceOf(l, k)
             a == SubSeq(l, 1, p - 1)  b == SubSeq(l, p + 1, Len(l))
  <2>1. p \in 1 .. Len(l) /\ Len(l) \in Nat
    BY <1>1, WithoutEntry, Fields
  <2>2. Without(l, k) = a \o b
    BY <1>1 DEF Without
  <2> HIDE DEF p
  <2>3. p \in 0 .. Len(l) /\ p - 1 \in 0 .. Len(l)
    BY <2>1
  <2>4. Items(a) \subseteq Items(l) /\ Items(b) \subseteq Items(l)
    BY <2>3, CutItems
  <2>5. a \in Seq(Entries(K)) /\ b \in Seq(Entries(K))
    BY <2>3, Cut
  <2> HIDE DEF a, b
  <2> DEFINE m == a \o b
  <2>6. /\ Len(m) = Len(a) + Len(b) /\ Len(a) \in Nat /\ Len(b) \in Nat
        /\ \A i \in 1 .. Len(a) + Len(b) : m[i] = IF i <= Len(a) THEN a[i] ELSE b[i - Len(a)]
    BY <2>5, ConcatProperties, LenProperties
  <2> HIDE DEF m
  <2>7. \A i \in 1 .. Len(m) : \/ i \in 1 .. Len(a) /\ m[i] = a[i]
                               \/ i - Len(a) \in 1 .. Len(b) /\ m[i] = b[i - Len(a)]
    BY <2>6
  <2>8. Items(m) \subseteq Items(a) \cup Items(b)
    BY <2>7 DEF Items
  <2> QED BY <2>2, <2>4, <2>8 DEF m
<1>2. CASE ~Has(l, k)
  BY <1>2, AbsentKey
<1> QED BY <1>1, <1>2

LEMMA FrontItems ==
  ASSUME NEW K, NEW e \in Entries(K), NEW s \in Seq(Entries(K))
  PROVE  Items(<<e>> \o s) \subseteq {e} \cup Items(s)
<1> DEFINE a == <<e>>  m == a \o s
<1>1. a \in Seq(Entries(K)) /\ Len(a) = 1 /\ a[1] = e
  OBVIOUS
<1> HIDE DEF a
<1>2. /\ Len(m) = Len(a) + Len(s) /\ Len(s) \in Nat
      /\ \A i \in 1 .. Len(a) + Len(s) : m[i] = IF i <= Len(a) THEN a[i] ELSE s[i - Len(a)]
  BY <1>1, ConcatProperties, LenProperties
<1> HIDE DEF m
<1>3. \A i \in 1 .. Len(m) : (i = 1 /\ m[i] = e) \/ (i - 1 \in 1 .. Len(s) /\ m[i] = s[i - 1])
  BY <1>1, <1>2
<1>4. Items(m) \subseteq {e} \cup Items(s)
  BY <1>3 DEF Items
<1> QED BY <1>4 DEF m, a

\* LoadOrStore without a limit: it keeps keys with their values, adds its own
\* and evicts what has expired.
KeepsOrAdds(l, k, o, v, now, r) ==
  /\ \A x \in Items(r.lru) : \/ \E y \in Items(l) : x.key = y.key /\ x.value = y.value
                             \/ x.key = k /\ x.value = v
  /\ \A x \in Items(r.evicts) : x \in Items(l) /\ Expired(o, x, now)

LEMMA LoadOrStoreItems ==
  ASSUME NEW K, NEW l \in Seq(Entries(K)), Proper(l), NEW k \in K,
         NEW o \in CacheOption, o.maxSize = 0, NEW now \in Nat, NEW age \in Nat,
         NEW v \in Nat, v \notin ValuesOf(l)
  PROVE  KeepsOrAdds(l, k, o, v, now, LoadOrStore(o, l, k, age, v, now))
<1> DEFINE r == LoadOrStore(o, l, k, age, v, now)  e == EntryOf(l, k)  w == Without(l, k)
<1>1. Items(w) \subseteq Items(l) /\ w \in Seq(Entries(K)) /\ Proper(w) /\ k \notin KeysOf(w) /\ v \notin ValuesOf(w)
  BY WithoutItems, WithoutKey
<1>2. Has(l, k) => e \in Entries(K) /\ e.key = k /\ e \in Items(l)
  BY WithoutEntry DEF EntryOf, Items
<1>3. CASE Has(l, k) /\ ~Expired(o, e, now)
  <2> DEFINE f == [e EXCEPT !.expires = IF o.maxAge > 0 /\ o.updateAgeOnGet THEN now + age ELSE @]
             m == Append(w, f)
  <2>1. r = Outcome(m, << >>, e.value)
    BY <1>3 DEF LoadOrStore, Touch
  <2>2. f \in Entries(K) /\ f.key = e.key /\ f.value = e.value
    <3> HIDE DEF e
    <3>1. now + age \in Nat
      OBVIOUS
    <3> QED BY <1>2, <1>3, <3>1 DEF Entries
  <2> HIDE DEF r, e, w, f
  <2>3. Items(m) = Items(w) \cup {f}
    BY <1>1, <2>2, AppendEntryItems
  <2> HIDE DEF m
  <2>4. r.lru = m /\ r.evicts = << >>
    BY <2>1, OutcomeFields
  <2>5. Items(<< >>) = {}
    BY DEF Items
  <2> QED BY <1>1, <1>2, <1>3, <2>2, <2>3, <2>4, <2>5 DEF r, KeepsOrAdds
<1>4. CASE ~(Has(l, k) /\ ~Expired(o, e, now))
  <2> DEFINE f == Entry(k, v, now + o.maxAge)  m == Append(w, f)
             rest == maybeDeleteOldest(o, m, now)
             old == IF Has(l, k) THEN <<e>> ELSE << >>
             out == old \o rest.evicts
  <2>1. r = Outcome(rest.lru, out, v)
    BY <1>4 DEF LoadOrStore
  <2>2. f \in Entries(K) /\ f.key = k /\ f.value = v /\ ~Expired(o, f, now)
    <3>1. now + o.maxAge \in Nat /\ o.maxAge \in Nat
      BY DEF CacheOption
    <3>2. f \in Entries(K) /\ f.key = k /\ f.value = v /\ f.expires = now + o.maxAge
      BY <3>1 DEF Entry, Entries
    <3> QED BY <3>1, <3>2 DEF Expired
  <2> HIDE DEF r, e, w, f
  <2>3. Items(m) = Items(w) \cup {f} /\ m \in Seq(Entries(K)) /\ Proper(m)
    BY <1>1, <2>2, AppendEntryItems, AppendEntry
  <2> HIDE DEF m
  <2>4. /\ Items(rest.lru) \subseteq Items(m)
        /\ \A x \in Items(rest.evicts) : x \in Items(m) /\ Expired(o, x, now)
    BY <2>3, OldestItems
  <2>5. rest.evicts \in Seq(Entries(K))
    BY <2>3, Oldest DEF Parts
  <2> HIDE DEF rest
  <2>6. \A x \in Items(rest.evicts) : x \in Items(l) /\ Expired(o, x, now)
    BY <1>1, <2>2, <2>3, <2>4
  <2>7. \A x \in Items(out) : x \in Items(l) /\ Expired(o, x, now)
    <3>1. CASE Has(l, k)
      <4>1. out = <<e>> \o rest.evicts
        BY <3>1
      <4> HIDE DEF out
      <4>2. Items(out) \subseteq {e} \cup Items(rest.evicts)
        BY <1>2, <2>5, <3>1, <4>1, FrontItems
      <4> QED BY <1>2, <1>4, <2>6, <3>1, <4>2
    <3>2. CASE ~Has(l, k)
      <4>1. out = rest.evicts
        BY <2>5, <3>2, ConcatEmptySeq
      <4> QED BY <2>6, <4>1
    <3> QED BY <3>1, <3>2
  <2> HIDE DEF out
  <2>8. r.lru = rest.lru /\ r.evicts = out
    BY <2>1, OutcomeFields
  <2> QED BY <1>1, <2>2, <2>3, <2>4, <2>7, <2>8 DEF r, KeepsOrAdds
<1> QED BY <1>3, <1>4

LEMMA DeleteItems ==
  ASSUME NEW K, NEW l \in Seq(Entries(K)), Proper(l), NEW k
  PROVE  LET r == deleteKey(l, k)
         IN /\ Items(r.lru) \subseteq Items(l) /\ k \notin KeysOf(r.lru)
            /\ \A x \in Items(r.evicts) : x \in Items(l) /\ x.key = k
<1> DEFINE r == deleteKey(l, k)  e == EntryOf(l, k)  w == Without(l, k)
<1>1. Items(w) \subseteq Items(l) /\ k \notin KeysOf(w)
  BY WithoutItems, WithoutKey
<1>2. CASE Has(l, k)
  <2>1. e.key = k /\ e \in Items(l)
    BY <1>2, WithoutEntry DEF EntryOf, Items
  <2>2. r = Outcome(w, <<e>>, Miss)
    BY <1>2 DEF deleteKey, deleteElement
  <2> HIDE DEF r, e, w
  <2>3. r.lru = w /\ r.evicts = <<e>>
    BY <2>2, OutcomeFields
  <2>4. Items(<<e>>) = {e}
    <3> DEFINE m == <<e>>
    <3>1. Len(m) = 1 /\ m[1] = e /\ 1 .. 1 = {1}
      OBVIOUS
    <3> HIDE DEF m
    <3>2. Items(m) = {e}
      BY <3>1 DEF Items
    <3> QED BY <3>2 DEF m
  <2> QED BY <1>1, <2>1, <2>3, <2>4 DEF r
<1>3. CASE ~Has(l, k)
  <2>1. r.lru = l /\ r.evicts = << >>
    BY <1>3, OutcomeFields DEF deleteKey
  <2>2. Items(<< >>) = {} /\ k \notin KeysOf(l)
    BY <1>3, AbsentKey DEF Items
  <2> HIDE DEF r
  <2> QED BY <2>1, <2>2 DEF r
<1> QED BY <1>2, <1>3

-----------------------------------------------------------------------------
\* The table of udpnat and its connections.
Messages == [from : Senders, packet : Nat, key : NatSources]
ConnRecords ==
  [key : NatSources, done : BOOLEAN, data : Seq(Messages), handler : {"none", "reading", "delete", "ended"},
   got : Seq(Messages), source : BOOLEAN, sourceClosed : BOOLEAN, late : BOOLEAN]
SenderRecords ==
  [at : {"idle", "init", "check", "send", "again"}, key : NatSources \cup {Miss}, packet : Nat, conn : Nat]

NatTypeOK ==
  /\ nat \in Seq(Entries(NatSources)) /\ Proper(nat) /\ time \in Nat
  /\ natCtxDone \in BOOLEAN /\ ex \in BOOLEAN /\ sends \in Nat
  /\ natConns \in Seq(ConnRecords) /\ sender \in [Senders -> SenderRecords]

\* An entry of the table is the newest connection of its source.
NewestInTable ==
  \A i \in 1 .. Len(nat) :
    /\ nat[i].value \in 1 .. Len(natConns) /\ natConns[nat[i].value].key = nat[i].key
    /\ \A d \in 1 .. Len(natConns) : natConns[d].key = nat[i].key => d <= nat[i].value

\* What is not in the table was closed by onEvict: it is done, and so is its
\* writer, if it had one then.
OutIsClosed ==
  \A c \in 1 .. Len(natConns) : c \notin ValuesOf(nat) =>
    natConns[c].done /\ (natConns[c].source => natConns[c].sourceClosed \/ natConns[c].late)

\* A handler is started with the writer; when it has returned its goroutine
\* has closed the connection or, with a handlerEx, left that to Delete.
HandlersEnd ==
  \A c \in 1 .. Len(natConns) :
    /\ natConns[c].handler # "none" => natConns[c].source
    /\ natConns[c].handler \in {"delete", "ended"} => ex \/ natConns[c].sourceClosed
    /\ natConns[c].handler = "ended" => natConns[c].sourceClosed \/ natConns[c].late

\* A sender has a packet, and a connection of its packet's source.
SenderFine(r, n, cs) ==
  /\ r.at # "idle" => r.key \in NatSources /\ r.packet \in 1 .. n
  /\ r.at \in {"init", "check", "send"} => r.conn \in 1 .. Len(cs) /\ cs[r.conn].key = r.key
SendersOK == \A s \in Senders : SenderFine(sender[s], sends, natConns)

TableOK == NatTypeOK /\ NewestInTable /\ OutIsClosed /\ HandlersEnd /\ SendersOK

\* What a connection's handler has read and will read.
Passed(c) == natConns[c].got \o natConns[c].data

\* A message was sent by somebody who is not about to send it again.
Sent(m) ==
  /\ m.packet <= sends
  /\ \A s \in Senders : sender[s].at # "idle" =>
       m.packet # sender[s].packet /\ (m.from = s => m.packet < sender[s].packet)
MessagesOK ==
  /\ \A c \in 1 .. Len(natConns) : \A i \in 1 .. Len(Passed(c)) :
       Passed(c)[i].key = natConns[c].key /\ Sent(Passed(c)[i])
  /\ \A c, d \in 1 .. Len(natConns) : \A i \in 1 .. Len(Passed(c)) : \A j \in 1 .. Len(Passed(d)) :
       Passed(c)[i].packet = Passed(d)[j].packet => c = d /\ i = j
  /\ \A c \in 1 .. Len(natConns) : \A i, j \in 1 .. Len(Passed(c)) :
       i < j /\ Passed(c)[i].from = Passed(c)[j].from => Passed(c)[i].packet < Passed(c)[j].packet
  /\ \A s, t \in Senders :
       sender[s].at # "idle" /\ sender[t].at # "idle" /\ sender[s].packet = sender[t].packet => s = t

NatIInv == TableOK /\ MessagesOK

-----------------------------------------------------------------------------
\* onEvict closes the connections that leave the table, and no others.
Closed(r) == [r EXCEPT !.done = TRUE, !.sourceClosed = r.sourceClosed \/ r.source]

LEMMA ConnFields ==
  ASSUME NEW r \in ConnRecords
  PROVE  /\ r.key \in NatSources /\ r.done \in BOOLEAN /\ r.data \in Seq(Messages) /\ r.got \in Seq(Messages)
         /\ r.handler \in {"none", "reading", "delete", "ended"}
         /\ r.source \in BOOLEAN /\ r.sourceClosed \in BOOLEAN /\ r.late \in BOOLEAN
  BY Zenon DEF ConnRecords

LEMMA ClosedFields ==
  ASSUME NEW r \in ConnRecords
  PROVE  /\ Closed(r) \in ConnRecords /\ Closed(r).done
         /\ (r.sourceClosed => Closed(r).sourceClosed) /\ (r.source => Closed(r).sourceClosed)
         /\ Closed(r).key = r.key /\ Closed(r).data = r.data /\ Closed(r).got = r.got
         /\ Closed(r).handler = r.handler /\ Closed(r).source = r.source /\ Closed(r).late = r.late
<1>1. (r.sourceClosed \/ r.source) \in BOOLEAN
  BY ConnFields, Zenon
<1> QED BY <1>1, Zenon DEF Closed, ConnRecords

LEMMA EvictionCloses ==
  ASSUME NEW cs \in Seq(ConnRecords), NEW ev
  PROVE  LET new == CloseEvicted(cs, ev)
         IN /\ new \in Seq(ConnRecords) /\ Len(new) = Len(cs)
            /\ \A c \in 1 .. Len(cs) : new[c] = IF c \in ValuesOf(ev) THEN Closed(cs[c]) ELSE cs[c]
<1> DEFINE new == CloseEvicted(cs, ev)
<1>1. Len(cs) \in Nat /\ DOMAIN cs = 1 .. Len(cs) /\ \A c \in 1 .. Len(cs) : cs[c] \in ConnRecords
  BY LenProperties, ElementOfSeq
<1>2. ASSUME NEW c \in 1 .. Len(cs) PROVE closeConn(cs, c)[c] = Closed(cs[c])
  BY <1>1 DEF closeConn, Closed
<1>3. \A c \in 1 .. Len(cs) : (\E i \in 1 .. Len(ev) : ev[i].value = c) <=> c \in ValuesOf(ev)
  BY DEF ValuesOf
<1> DEFINE f == [c \in 1 .. Len(cs) |-> IF c \in ValuesOf(ev) THEN Closed(cs[c]) ELSE cs[c]]
<1>4. new = f
  BY <1>1, <1>2, <1>3 DEF CloseEvicted
<1>5. \A c \in 1 .. Len(cs) : f[c] \in ConnRecords
  BY <1>1, ClosedFields
<1>6. \A c \in 1 .. Len(cs) : f[c] = IF c \in ValuesOf(ev) THEN Closed(cs[c]) ELSE cs[c]
  OBVIOUS
<1>7. f \in Seq(ConnRecords) /\ Len(f) = Len(cs)
  <2>1. DOMAIN f = 1 .. Len(cs)
    OBVIOUS
  <2>2. f \in [1 .. Len(cs) -> ConnRecords]
    BY <1>5
  <2> HIDE DEF f
  <2> QED BY <1>1, <2>1, <2>2, SeqDef
<1> HIDE DEF f
<1> QED BY <1>4, <1>6, <1>7 DEF new

LEMMA OptionsOK == NatOptions \in CacheOption /\ NatOptions.maxSize = 0 /\ NatMaxAge \in Nat
<1>1. NatMaxAge \in Nat /\ 0 \in Nat
  BY UdpNatAssumption
<1>2. NatOptions \in CacheOption
  BY <1>1, Zenon DEF NatOptions, CacheOption
<1> QED BY <1>1, <1>2 DEF NatOptions

\* nat.Delete
LEMMA DeleteFacts ==
  ASSUME NatTypeOK, NEW cs \in Seq(ConnRecords), Len(cs) = Len(natConns), NEW k, DeleteSource(cs, k)
  PROVE  /\ nat' \in Seq(Entries(NatSources)) /\ Proper(nat') /\ Items(nat') \subseteq Items(nat)
         /\ k \notin KeysOf(nat') /\ ValuesOf(nat') \subseteq ValuesOf(nat)
         /\ natConns' \in Seq(ConnRecords) /\ Len(natConns') = Len(natConns)
         /\ \A c \in 1 .. Len(natConns) : c \in ValuesOf(nat) /\ c \notin ValuesOf(nat') =>
              natConns'[c] = Closed(cs[c]) /\ \E x \in Items(nat) : x.value = c /\ x.key = k
         /\ \A c \in 1 .. Len(natConns) : ~(c \in ValuesOf(nat) /\ c \notin ValuesOf(nat')) => natConns'[c] = cs[c]
<1> DEFINE r == deleteKey(nat, k)
<1>1. nat' = r.lru /\ natConns' = CloseEvicted(cs, r.evicts)
  BY DEF DeleteSource
<1>2. nat \in Seq(Entries(NatSources)) /\ Proper(nat)
  BY DEF NatTypeOK
<1>3. Parts(NatSources, r, ValuesOf(nat))
  <2>1. Fits(NatOptions, nat)
    BY OptionsOK DEF Fits
  <2> QED BY <1>2, <2>1, OptionsOK, Deletes
<1>4. /\ Items(r.lru) \subseteq Items(nat) /\ k \notin KeysOf(r.lru)
      /\ \A x \in Items(r.evicts) : x \in Items(nat) /\ x.key = k
  BY <1>2, DeleteItems
<1> HIDE DEF r
<1>5. /\ r.lru \in Seq(Entries(NatSources)) /\ r.evicts \in Seq(Entries(NatSources)) /\ Proper(r.lru)
      /\ ValuesOf(r.evicts) = ValuesOf(nat) \ ValuesOf(r.lru) /\ ValuesOf(r.lru) \subseteq ValuesOf(nat)
  BY <1>3 DEF Parts
<1>6. /\ natConns' \in Seq(ConnRecords) /\ Len(natConns') = Len(cs)
      /\ \A c \in 1 .. Len(cs) : natConns'[c] = IF c \in ValuesOf(r.evicts) THEN Closed(cs[c]) ELSE cs[c]
  BY <1>1, EvictionCloses
<1>7. \A c \in ValuesOf(r.evicts) : \E x \in Items(nat) : x.value = c /\ x.key = k
  BY <1>4, <1>5, ItemsAre
<1> QED BY <1>1, <1>4, <1>5, <1>6, <1>7

\* nat.LoadOrStore, of a connection that is there or is made.
LEMMA LookupFacts ==
  ASSUME NatTypeOK, NewestInTable, NEW s \in Senders, NEW k \in NatSources, NEW p, Lookup(s, k, p)
  PROVE  /\ nat' \in Seq(Entries(NatSources)) /\ Proper(nat')
         /\ natConns' \in Seq(ConnRecords) /\ Len(natConns') \in {Len(natConns), Len(natConns) + 1}
         /\ \A x \in Items(nat') : \/ \E y \in Items(nat) : x.key = y.key /\ x.value = y.value
                                   \/ x.key = k /\ x.value = Len(natConns) + 1
         /\ \A c \in 1 .. Len(natConns) : c \in ValuesOf(nat) /\ c \notin ValuesOf(nat') =>
              /\ natConns'[c] = Closed(natConns[c])
              /\ \E x \in Items(nat) : x.value = c /\ Expired(NatOptions, x, time)
         /\ \A c \in 1 .. Len(natConns) :
              ~(c \in ValuesOf(nat) /\ c \notin ValuesOf(nat')) => natConns'[c] = natConns[c]
         /\ \/ /\ Len(natConns') = Len(natConns) /\ ValuesOf(nat') \subseteq ValuesOf(nat)
               /\ \E c \in 1 .. Len(natConns) :
                    /\ natConns[c].key = k
                    /\ sender' = [sender EXCEPT ![s] = [at |-> "check", key |-> k, packet |-> p, conn |-> c]]
            \/ /\ Len(natConns') = Len(natConns) + 1 /\ natConns'[Len(natConns) + 1] = NewConn(k)
               /\ Len(natConns) + 1 \in ValuesOf(nat')
               /\ sender' = [sender EXCEPT ![s] =
                              [at |-> "init", key |-> k, packet |-> p, conn |-> Len(natConns) + 1]]
<1> DEFINE n == Len(natConns)  v == n + 1
           r == LoadOrStore(NatOptions, nat, k, NatMaxAge, v, time)
<1>1. /\ nat \in Seq(Entries(NatSources)) /\ Proper(nat) /\ time \in Nat /\ natConns \in Seq(ConnRecords)
      /\ n \in Nat /\ v \in Nat
  BY LenProperties DEF NatTypeOK
<1>2. ValuesOf(nat) \subseteq 1 .. n /\ v \notin ValuesOf(nat) /\ v \notin 1 .. n
  <2>1. ValuesOf(nat) \subseteq 1 .. n
    BY DEF ValuesOf, NewestInTable
  <2> QED BY <1>1, <2>1
<1> HIDE DEF n
<1> DEFINE all == IF r.value > n THEN Append(natConns, NewConn(k)) ELSE natConns
<1>3. /\ nat' = r.lru /\ natConns' = CloseEvicted(all, r.evicts)
      /\ sender' = [sender EXCEPT ![s] = [at |-> IF r.value > n THEN "init" ELSE "check",
                                         key |-> k, packet |-> p, conn |-> r.value]]
  BY DEF Lookup, n
<1> HIDE DEF v
<1>4. FoundOrStored(NatSources, nat, k, NatOptions, v, time, r)
  <2>1. Fits(NatOptions, nat)
    BY OptionsOK DEF Fits
  <2> QED BY <1>1, <1>2, <2>1, OptionsOK, LoadsOrStores
<1>5. KeepsOrAdds(nat, k, NatOptions, v, time, r)
  BY <1>1, <1>2, OptionsOK, LoadOrStoreItems
<1> HIDE DEF r
<1>6. NewConn(k) \in ConnRecords
  <2>1. natCtxDone \in BOOLEAN /\ << >> \in Seq(Messages)
    BY DEF NatTypeOK
  <2> QED BY <2>1, Zenon DEF NewConn, ConnRecords
<1>7. CASE r.value # v
  <2>1. /\ Parts(NatSources, r, ValuesOf(nat)) /\ Has(nat, k) /\ r.value = EntryOf(nat, k).value
        /\ r.value \in ValuesOf(nat)
    BY <1>4, <1>7 DEF FoundOrStored
  <2>2. r.value \in 1 .. n /\ ~(r.value > n)
    BY <1>1, <1>2, <2>1
  <2>3. all = natConns
    BY <2>2
  <2> HIDE DEF all
  <2>4. /\ r.lru \in Seq(Entries(NatSources)) /\ Proper(r.lru) /\ r.evicts \in Seq(Entries(NatSources))
        /\ ValuesOf(r.evicts) = ValuesOf(nat) \ ValuesOf(r.lru) /\ ValuesOf(r.lru) \subseteq ValuesOf(nat)
    BY <2>1 DEF Parts
  <2>5. /\ natConns' \in Seq(ConnRecords) /\ Len(natConns') = n
        /\ \A c \in 1 .. n : natConns'[c] = IF c \in ValuesOf(r.evicts) THEN Closed(natConns[c]) ELSE natConns[c]
    BY <1>1, <1>3, <2>3, EvictionCloses DEF n
  <2>6. \A c \in ValuesOf(r.evicts) : \E x \in Items(nat) : x.value = c /\ Expired(NatOptions, x, time)
    BY <1>5, <2>4, ItemsAre DEF KeepsOrAdds
  <2>7. \A x \in Items(r.lru) : \/ \E y \in Items(nat) : x.key = y.key /\ x.value = y.value
                                \/ x.key = k /\ x.value = v
    BY <1>5 DEF KeepsOrAdds
  <2>8. natConns[r.value].key = k
    <3>1. PlaceOf(nat, k) \in 1 .. Len(nat) /\ EntryOf(nat, k).key = k
      BY <1>1, <2>1, WithoutEntry
    <3> QED BY <2>1, <3>1 DEF NewestInTable, EntryOf
  <2>9. sender' = [sender EXCEPT ![s] = [at |-> "check", key |-> k, packet |-> p, conn |-> r.value]]
    BY <1>3, <2>2
  <2> QED BY <1>3, <2>2, <2>4, <2>5, <2>6, <2>7, <2>8, <2>9 DEF n, v
<1>8. CASE r.value = v
  <2>1. Parts(NatSources, r, ValuesOf(nat) \cup {v}) /\ v \in ValuesOf(r.lru)
    BY <1>2, <1>4, <1>8 DEF FoundOrStored
  <2>2. r.value > n
    BY <1>1, <1>8 DEF v
  <2>3. all = Append(natConns, NewConn(k))
    BY <2>2
  <2> HIDE DEF all
  <2>4. /\ all \in Seq(ConnRecords) /\ Len(all) = v /\ all[v] = NewConn(k)
        /\ \A c \in 1 .. n : all[c] = natConns[c]
    BY <1>1, <1>6, <2>3, AppendProperties DEF n, v
  <2>5. /\ r.lru \in Seq(Entries(NatSources)) /\ Proper(r.lru) /\ r.evicts \in Seq(Entries(NatSources))
        /\ ValuesOf(r.evicts) = ValuesOf(nat) \ ValuesOf(r.lru)
    BY <1>2, <2>1 DEF Parts
  <2>6. /\ natConns' \in Seq(ConnRecords) /\ Len(natConns') = v
        /\ \A c \in 1 .. v : natConns'[c] = IF c \in ValuesOf(r.evicts) THEN Closed(all[c]) ELSE all[c]
    BY <1>3, <2>4, EvictionCloses
  <2>7. \A c \in ValuesOf(r.evicts) : \E x \in Items(nat) : x.value = c /\ Expired(NatOptions, x, time)
    BY <1>5, <2>5, ItemsAre DEF KeepsOrAdds
  <2>8. \A x \in Items(r.lru) : \/ \E y \in Items(nat) : x.key = y.key /\ x.value = y.value
                                \/ x.key = k /\ x.value = v
    BY <1>5 DEF KeepsOrAdds
  <2>9. sender' = [sender EXCEPT ![s] = [at |-> "init", key |-> k, packet |-> p, conn |-> v]]
    BY <1>3, <1>8, <2>2
  <2>10. v \in 1 .. v /\ \A c \in 1 .. n : c \in 1 .. v
    BY <1>1 DEF v
  <2>11. natConns'[v] = NewConn(k)
    BY <1>2, <2>4, <2>5, <2>6, <2>10
  <2>12. \A c \in 1 .. n : natConns'[c] = IF c \in ValuesOf(r.evicts) THEN Closed(natConns[c]) ELSE natConns[c]
    BY <2>4, <2>6, <2>10
  <2> QED BY <1>3, <2>1, <2>5, <2>6, <2>7, <2>8, <2>9, <2>11, <2>12 DEF n, v
<1> QED BY <1>7, <1>8

\* A change of one connection.
LEMMA OneConn ==
  ASSUME natConns \in Seq(ConnRecords), NEW c \in 1 .. Len(natConns), NEW r \in ConnRecords,
         NEW new, new = [natConns EXCEPT ![c] = r]
  PROVE  /\ new \in Seq(ConnRecords) /\ Len(new) = Len(natConns) /\ new[c] = r
         /\ \A d \in 1 .. Len(natConns) : d # c => new[d] = natConns[d]
<1>1. DOMAIN natConns = 1 .. Len(natConns)
  BY LenProperties
<1>2. new \in Seq(ConnRecords) /\ Len(new) = Len(natConns)
  BY ExceptSeq
<1> QED BY <1>1, <1>2

\* What the records of connections and senders are.
LEMMA StateTypes ==
  ASSUME NatTypeOK
  PROVE  /\ natConns \in Seq(ConnRecords) /\ Len(natConns) \in Nat /\ DOMAIN natConns = 1 .. Len(natConns)
         /\ \A c \in 1 .. Len(natConns) : natConns[c] \in ConnRecords
         /\ sender \in [Senders -> SenderRecords] /\ sends \in Nat
         /\ nat \in Seq(Entries(NatSources)) /\ Proper(nat) /\ Len(nat) \in Nat
  BY LenProperties, ElementOfSeq DEF NatTypeOK

\* A sender changes what it is doing.
LEMMA SenderMoves ==
  ASSUME NatTypeOK, SendersOK, NEW s \in Senders, NEW r \in SenderRecords,
         sender' = [sender EXCEPT ![s] = r], SenderFine(r, sends', natConns'),
         sends' \in Nat, sends <= sends', Len(natConns') \in Nat, Len(natConns) <= Len(natConns'),
         \A c \in 1 .. Len(natConns) : natConns'[c].key = natConns[c].key
  PROVE  sender' \in [Senders -> SenderRecords] /\ SendersOK'
<1>1. sender' \in [Senders -> SenderRecords] /\ sender'[s] = r /\ \A t \in Senders : t # s => sender'[t] = sender[t]
  BY StateTypes
<1>2. ASSUME NEW t \in Senders, t # s PROVE SenderFine(sender[t], sends', natConns')
  <2>1. SenderFine(sender[t], sends, natConns)
    BY DEF SendersOK
  <2>2. \A n \in 1 .. sends : n \in 1 .. sends'
    BY StateTypes
  <2>3. \A n \in 1 .. Len(natConns) : n \in 1 .. Len(natConns')
    BY StateTypes
  <2> QED BY <2>1, <2>2, <2>3 DEF SenderFine
<1>3. \A t \in Senders : SenderFine(sender'[t], sends', natConns')
  BY <1>1, <1>2
<1> QED BY <1>1, <1>3 DEF SendersOK

LEMMA SendersStay ==
  ASSUME NatTypeOK, SendersOK, sender' = sender, sends' = sends, Len(natConns') = Len(natConns),
         \A c \in 1 .. Len(natConns) : natConns'[c].key = natConns[c].key
  PROVE  SendersOK'
<1>1. ASSUME NEW t \in Senders PROVE SenderFine(sender[t], sends', natConns')
  BY DEF SendersOK, SenderFine
<1> QED BY <1>1 DEF SendersOK

LEMMA SenderAt ==
  ASSUME NatTypeOK, NEW s \in Senders, NEW at \in {"idle", "init", "check", "send", "again"}
  PROVE  LET r == [sender[s] EXCEPT !.at = at]
         IN /\ r \in SenderRecords /\ r.at = at /\ r.key = sender[s].key /\ r.packet = sender[s].packet
            /\ r.conn = sender[s].conn
            /\ [sender EXCEPT ![s].at = at] = [sender EXCEPT ![s] = r]
<1>1. sender[s] \in SenderRecords
  BY StateTypes
<1> QED BY <1>1 DEF SenderRecords

LEMMA IdleIsSender == IdleSender \in SenderRecords /\ IdleSender.at = "idle"
<1>1. Miss \in Nat /\ 0 \in Nat
  BY DEF Miss
<1> QED BY <1>1, Zenon DEF IdleSender, SenderRecords

\* A sender goes on with its packet, or has sent it.
LEMMA SenderGoesOn ==
  ASSUME NatTypeOK, SendersOK, NEW s \in Senders, NEW at \in {"check", "send", "again"},
         sender' = [sender EXCEPT ![s].at = at], sender[s].at \in {"init", "check"},
         sends' = sends, Len(natConns') = Len(natConns),
         \A c \in 1 .. Len(natConns) : natConns'[c].key = natConns[c].key
  PROVE  sender' \in [Senders -> SenderRecords] /\ SendersOK'
<1> DEFINE q == [sender[s] EXCEPT !.at = at]
<1>1. /\ q \in SenderRecords /\ q.at = at /\ q.key = sender[s].key /\ q.packet = sender[s].packet
      /\ q.conn = sender[s].conn /\ sender' = [sender EXCEPT ![s] = q]
  <2>1. at \in {"idle", "init", "check", "send", "again"}
    OBVIOUS
  <2> QED BY <2>1, SenderAt
<1> HIDE DEF q
<1>2. SenderFine(q, sends', natConns')
  BY <1>1 DEF SendersOK, SenderFine
<1>3. sends' \in Nat /\ sends <= sends' /\ Len(natConns') \in Nat /\ Len(natConns) <= Len(natConns')
  BY StateTypes
<1> QED BY <1>1, <1>2, <1>3, SenderMoves

LEMMA SenderEnds ==
  ASSUME NatTypeOK, SendersOK, NEW s \in Senders, sender' = [sender EXCEPT ![s] = IdleSender],
         sends' = sends, Len(natConns') = Len(natConns),
         \A c \in 1 .. Len(natConns) : natConns'[c].key = natConns[c].key
  PROVE  sender' \in [Senders -> SenderRecords] /\ SendersOK'
<1>1. SenderFine(IdleSender, sends', natConns')
  BY DEF IdleSender, SenderFine
<1>2. sends' \in Nat /\ sends <= sends' /\ Len(natConns') \in Nat /\ Len(natConns) <= Len(natConns')
  BY StateTypes
<1> QED BY <1>1, <1>2, IdleIsSender, SenderMoves

\* The table does not change, and no connection becomes another's.
LEMMA SteadyTable ==
  ASSUME TableOK, nat' = nat, ex' = ex, time' \in Nat, natCtxDone' \in BOOLEAN, sends' \in Nat,
         natConns' \in Seq(ConnRecords), Len(natConns') = Len(natConns),
         \A c \in 1 .. Len(natConns) :
           /\ natConns'[c].key = natConns[c].key
           /\ natConns[c].done /\ (natConns[c].source => natConns[c].sourceClosed \/ natConns[c].late) =>
                natConns'[c].done /\ (natConns'[c].source => natConns'[c].sourceClosed \/ natConns'[c].late),
         HandlersEnd', sender' \in [Senders -> SenderRecords], SendersOK'
  PROVE  TableOK'
<1>1. NatTypeOK'
  BY DEF TableOK, NatTypeOK
<1>2. NewestInTable'
  BY DEF TableOK, NewestInTable
<1>3. OutIsClosed'
  BY DEF TableOK, OutIsClosed
<1> QED BY <1>1, <1>2, <1>3 DEF TableOK

\* Every connection keeps what it was given and what its handler has read.
SameQueues ==
  /\ Len(natConns') = Len(natConns)
  /\ \A d \in 1 .. Len(natConns) :
       /\ natConns'[d].key = natConns[d].key
       /\ natConns'[d].data = natConns[d].data /\ natConns'[d].got = natConns[d].got

LEMMA TableInitConn ==
  ASSUME TableOK, NEW s \in Senders, InitConn(s)
  PROVE  TableOK' /\ SameQueues
<1> DEFINE c == sender[s].conn
           r == [natConns[c] EXCEPT !.source = TRUE, !.handler = "reading", !.late = natConns[c].done]
<1>1. NatTypeOK /\ SendersOK /\ HandlersEnd
  BY DEF TableOK
<1>2. /\ sender[s].at = "init" /\ natConns' = [natConns EXCEPT ![c] = r]
      /\ sender' = [sender EXCEPT ![s].at = "check"]
      /\ UNCHANGED <<nat, time, natCtxDone, ex, sends, faults>>
  BY DEF InitConn
<1>3. c \in 1 .. Len(natConns) /\ SenderFine(sender[s], sends, natConns)
  BY <1>1, <1>2 DEF SendersOK, SenderFine
<1>4. /\ r \in ConnRecords /\ r.key = natConns[c].key /\ r.source = TRUE /\ r.handler = "reading"
      /\ r.late = natConns[c].done /\ r.done = natConns[c].done
      /\ r.data = natConns[c].data /\ r.got = natConns[c].got
  <2> HIDE DEF c
  <2>1. natConns[c] \in ConnRecords /\ natConns[c].done \in BOOLEAN
    BY <1>1, <1>3, StateTypes, ConnFields
  <2> QED BY <2>1, Zenon DEF ConnRecords
<1> HIDE DEF c, r
<1>5. /\ natConns' \in Seq(ConnRecords) /\ Len(natConns') = Len(natConns) /\ natConns'[c] = r
      /\ \A d \in 1 .. Len(natConns) : d # c => natConns'[d] = natConns[d]
  BY <1>1, <1>2, <1>3, <1>4, StateTypes, OneConn
<1>6. \A d \in 1 .. Len(natConns) : natConns'[d].key = natConns[d].key
  BY <1>4, <1>5
<1>7. HandlersEnd'
  BY <1>1, <1>2, <1>4, <1>5 DEF HandlersEnd
<1>8. sender' \in [Senders -> SenderRecords] /\ SendersOK'
  BY <1>1, <1>2, <1>5, <1>6, SenderGoesOn
<1>9. \A d \in 1 .. Len(natConns) :
        natConns[d].done /\ (natConns[d].source => natConns[d].sourceClosed \/ natConns[d].late) =>
          natConns'[d].done /\ (natConns'[d].source => natConns'[d].sourceClosed \/ natConns'[d].late)
  BY <1>4, <1>5
<1>10. time' \in Nat /\ natCtxDone' \in BOOLEAN /\ sends' \in Nat
  BY <1>1, <1>2 DEF NatTypeOK
<1>11. TableOK'
  BY <1>2, <1>5, <1>6, <1>7, <1>8, <1>9, <1>10, SteadyTable
<1> QED BY <1>4, <1>5, <1>11 DEF SameQueues

\* A key is deleted, from a table whose connections may be about to change
\* their handler's state.
LEMMA TableDelete ==
  ASSUME TableOK, NEW cs \in Seq(ConnRecords), Len(cs) = Len(natConns), NEW k, DeleteSource(cs, k),
         \A c \in 1 .. Len(natConns) :
           /\ cs[c].key = natConns[c].key /\ cs[c].done = natConns[c].done
           /\ cs[c].source = natConns[c].source /\ cs[c].sourceClosed = natConns[c].sourceClosed
           /\ cs[c].late = natConns[c].late
  PROVE  /\ nat' \in Seq(Entries(NatSources)) /\ Proper(nat')
         /\ natConns' \in Seq(ConnRecords) /\ Len(natConns') = Len(natConns)
         /\ NewestInTable' /\ OutIsClosed'
         /\ \A c \in 1 .. Len(natConns) : natConns'[c].key = natConns[c].key
<1>1. /\ nat' \in Seq(Entries(NatSources)) /\ Proper(nat') /\ Items(nat') \subseteq Items(nat)
      /\ natConns' \in Seq(ConnRecords) /\ Len(natConns') = Len(natConns)
      /\ \A c \in 1 .. Len(natConns) :
           c \in ValuesOf(nat) /\ c \notin ValuesOf(nat') => natConns'[c] = Closed(cs[c])
      /\ \A c \in 1 .. Len(natConns) : ~(c \in ValuesOf(nat) /\ c \notin ValuesOf(nat')) => natConns'[c] = cs[c]
  BY DeleteFacts DEF TableOK
<1>2. \A c \in 1 .. Len(natConns) : cs[c] \in ConnRecords
  BY ElementOfSeq
<1>3. \A c \in 1 .. Len(natConns) : natConns'[c].key = natConns[c].key
  <2> SUFFICES ASSUME NEW c \in 1 .. Len(natConns) PROVE natConns'[c].key = natConns[c].key
    OBVIOUS
  <2>1. natConns'[c] = cs[c] \/ natConns'[c] = Closed(cs[c])
    BY <1>1
  <2>2. Closed(cs[c]).key = cs[c].key
    BY <1>2, ClosedFields
  <2> QED BY <2>1, <2>2
<1>4. NewestInTable'
  <2> SUFFICES ASSUME NEW i \in 1 .. Len(nat')
               PROVE  /\ nat'[i].value \in 1 .. Len(natConns) /\ natConns'[nat'[i].value].key = nat'[i].key
                      /\ \A d \in 1 .. Len(natConns) : natConns'[d].key = nat'[i].key => d <= nat'[i].value
    BY <1>1 DEF NewestInTable
  <2>1. PICK j \in 1 .. Len(nat) : nat'[i] = nat[j]
    BY <1>1 DEF Items
  <2>2. /\ nat[j].value \in 1 .. Len(natConns) /\ natConns[nat[j].value].key = nat[j].key
        /\ \A d \in 1 .. Len(natConns) : natConns[d].key = nat[j].key => d <= nat[j].value
    BY DEF TableOK, NewestInTable
  <2> QED BY <1>3, <2>1, <2>2
<1>5. OutIsClosed'
  <2> SUFFICES ASSUME NEW c \in 1 .. Len(natConns), c \notin ValuesOf(nat')
               PROVE  /\ natConns'[c].done
                      /\ natConns'[c].source => natConns'[c].sourceClosed \/ natConns'[c].late
    BY <1>1 DEF OutIsClosed
  <2>1. CASE c \in ValuesOf(nat)
    <3>1. natConns'[c] = Closed(cs[c])
      BY <1>1, <2>1
    <3>2. Closed(cs[c]).done /\ (cs[c].source => Closed(cs[c]).sourceClosed) /\ Closed(cs[c]).source = cs[c].source
      BY <1>2, ClosedFields
    <3> QED BY <3>1, <3>2
  <2>2. CASE c \notin ValuesOf(nat)
    <3>1. natConns'[c] = cs[c]
      BY <1>1, <2>2
    <3> QED BY <2>2, <3>1 DEF TableOK, OutIsClosed
  <2> QED BY <2>1, <2>2
<1> QED BY <1>1, <1>3, <1>4, <1>5

LEMMA TableCheckDone ==
  ASSUME TableOK, NEW s \in Senders, CheckDone(s)
  PROVE  TableOK' /\ SameQueues
<1>1. NatTypeOK /\ SendersOK /\ HandlersEnd
  BY DEF TableOK
<1>2. sender[s].at = "check" /\ UNCHANGED <<time, natCtxDone, ex, sends, faults>>
  BY DEF CheckDone
<1>3. time' \in Nat /\ natCtxDone' \in BOOLEAN /\ sends' \in Nat /\ ex' \in BOOLEAN
  BY <1>1, <1>2 DEF NatTypeOK
<1>4. CASE natConns[sender[s].conn].done
  <2>1. DeleteSource(natConns, sender[s].key) /\ sender' = [sender EXCEPT ![s].at = "again"]
    BY <1>4 DEF CheckDone
  <2>2. /\ nat' \in Seq(Entries(NatSources)) /\ Proper(nat')
        /\ natConns' \in Seq(ConnRecords) /\ Len(natConns') = Len(natConns)
        /\ NewestInTable' /\ OutIsClosed'
        /\ \A c \in 1 .. Len(natConns) : natConns'[c].key = natConns[c].key
    BY <1>1, <2>1, StateTypes, TableDelete
  <2>3. sender' \in [Senders -> SenderRecords] /\ SendersOK'
    BY <1>1, <1>2, <2>1, <2>2, SenderGoesOn
  <2>4. HandlersEnd'
    <3>1. \A c \in 1 .. Len(natConns) : natConns'[c] = natConns[c] \/ natConns'[c] = Closed(natConns[c])
      BY <1>1, <2>1, StateTypes, DeleteFacts
    <3>2. \A c \in 1 .. Len(natConns) :
            /\ natConns'[c].handler = natConns[c].handler /\ natConns'[c].source = natConns[c].source
            /\ natConns'[c].late = natConns[c].late /\ (natConns[c].sourceClosed => natConns'[c].sourceClosed)
      BY <1>1, <3>1, StateTypes, ClosedFields
    <3> QED BY <1>1, <1>2, <2>2, <3>2 DEF HandlersEnd
  <2>5. NatTypeOK'
    BY <1>3, <2>2, <2>3 DEF NatTypeOK
  <2>6. SameQueues
    <3>1. \A c \in 1 .. Len(natConns) : natConns'[c] = natConns[c] \/ natConns'[c] = Closed(natConns[c])
      BY <1>1, <2>1, StateTypes, DeleteFacts
    <3> QED BY <1>1, <2>2, <3>1, StateTypes, ClosedFields DEF SameQueues
  <2> QED BY <2>2, <2>3, <2>4, <2>5, <2>6 DEF TableOK
<1>5. CASE ~natConns[sender[s].conn].done
  <2>1. sender' = [sender EXCEPT ![s].at = "send"] /\ nat' = nat /\ natConns' = natConns
    BY <1>5 DEF CheckDone
  <2>2. sender' \in [Senders -> SenderRecords] /\ SendersOK'
    BY <1>1, <1>2, <2>1, SenderGoesOn
  <2>3. HandlersEnd'
    BY <1>1, <1>2, <2>1 DEF HandlersEnd
  <2>4. TableOK'
    BY <1>1, <1>2, <1>3, <2>1, <2>2, <2>3, StateTypes, SteadyTable
  <2> QED BY <2>1, <2>4 DEF SameQueues
<1> QED BY <1>4, <1>5

LEMMA TableHandlerDeletes ==
  ASSUME TableOK, NEW c \in 1 .. Len(natConns), HandlerDeletes(c)
  PROVE  TableOK' /\ SameQueues
<1> DEFINE r == [natConns[c] EXCEPT !.handler = "ended"]  cs == [natConns EXCEPT ![c] = r]
<1>1. NatTypeOK /\ SendersOK /\ HandlersEnd /\ OutIsClosed /\ NewestInTable
  BY DEF TableOK
<1>2. /\ natConns[c].handler = "delete" /\ DeleteSource(cs, natConns[c].key)
      /\ UNCHANGED <<time, natCtxDone, ex, sender, sends, faults>>
  BY DEF HandlerDeletes
<1>3. /\ r \in ConnRecords /\ r.key = natConns[c].key /\ r.source = natConns[c].source /\ r.handler = "ended"
      /\ r.late = natConns[c].late /\ r.done = natConns[c].done /\ r.sourceClosed = natConns[c].sourceClosed
      /\ r.data = natConns[c].data /\ r.got = natConns[c].got
  <2>1. natConns[c] \in ConnRecords
    BY <1>1, StateTypes
  <2> QED BY <2>1, Zenon DEF ConnRecords
<1> HIDE DEF r
<1>4. /\ cs \in Seq(ConnRecords) /\ Len(cs) = Len(natConns) /\ cs[c] = r
      /\ \A d \in 1 .. Len(natConns) : d # c => cs[d] = natConns[d]
  BY <1>1, <1>3, StateTypes, OneConn
<1> HIDE DEF cs
<1>5. \A d \in 1 .. Len(natConns) :
        /\ cs[d].key = natConns[d].key /\ cs[d].done = natConns[d].done
        /\ cs[d].source = natConns[d].source /\ cs[d].sourceClosed = natConns[d].sourceClosed
        /\ cs[d].late = natConns[d].late /\ cs[d].data = natConns[d].data /\ cs[d].got = natConns[d].got
  BY <1>3, <1>4
<1>6. /\ nat' \in Seq(Entries(NatSources)) /\ Proper(nat')
      /\ natConns' \in Seq(ConnRecords) /\ Len(natConns') = Len(natConns)
      /\ NewestInTable' /\ OutIsClosed'
      /\ \A d \in 1 .. Len(natConns) : natConns'[d].key = natConns[d].key
  BY <1>2, <1>4, <1>5, TableDelete
<1>7. SendersOK'
  BY <1>1, <1>2, <1>6, SendersStay
\* The connection is not in the table any more: it was not there, or its key
\* is the one that is deleted.
<1>8. c \notin ValuesOf(nat')
  <2> SUFFICES ASSUME c \in ValuesOf(nat') PROVE FALSE
    OBVIOUS
  <2>1. /\ natConns[c].key \notin KeysOf(nat')
    BY <1>1, <1>2, <1>4, DeleteFacts
  <2>2. PICK i \in 1 .. Len(nat') : nat'[i].value = c
    BY DEF ValuesOf
  <2>3. nat'[i].key = natConns'[c].key
    BY <1>6, <2>2 DEF NewestInTable
  <2>4. nat'[i].key \in KeysOf(nat')
    BY DEF KeysOf
  <2> QED BY <1>6, <2>1, <2>3, <2>4
<1>9. HandlersEnd'
  <2>1. \A d \in 1 .. Len(natConns) : natConns'[d] = cs[d] \/ natConns'[d] = Closed(cs[d])
    BY <1>1, <1>2, <1>4, DeleteFacts
  <2>2. \A d \in 1 .. Len(natConns) : cs[d] \in ConnRecords
    BY <1>4, ElementOfSeq
  <2>3. \A d \in 1 .. Len(natConns) :
          /\ natConns'[d].handler = cs[d].handler /\ natConns'[d].source = natConns[d].source
          /\ natConns'[d].late = natConns[d].late /\ (natConns[d].sourceClosed => natConns'[d].sourceClosed)
    <3> SUFFICES ASSUME NEW d \in 1 .. Len(natConns)
                 PROVE  /\ natConns'[d].handler = cs[d].handler /\ natConns'[d].source = natConns[d].source
                        /\ natConns'[d].late = natConns[d].late
                        /\ natConns[d].sourceClosed => natConns'[d].sourceClosed
      OBVIOUS
    <3>1. /\ Closed(cs[d]).handler = cs[d].handler /\ Closed(cs[d]).source = cs[d].source
          /\ Closed(cs[d]).late = cs[d].late /\ (cs[d].sourceClosed => Closed(cs[d]).sourceClosed)
      BY <2>2, ClosedFields
    <3>2. /\ cs[d].source = natConns[d].source /\ cs[d].sourceClosed = natConns[d].sourceClosed
          /\ cs[d].late = natConns[d].late
      BY <1>5
    <3>3. natConns'[d] = cs[d] \/ natConns'[d] = Closed(cs[d])
      BY <2>1
    <3> QED BY <3>1, <3>2, <3>3
  <2>4. /\ natConns[c].source /\ (ex \/ natConns[c].sourceClosed)
    BY <1>1, <1>2 DEF HandlersEnd
  <2>5. natConns'[c].sourceClosed \/ natConns'[c].late
    BY <1>6, <1>8, <2>3, <2>4 DEF OutIsClosed
  <2> SUFFICES ASSUME NEW d \in 1 .. Len(natConns)
               PROVE  /\ natConns'[d].handler # "none" => natConns'[d].source
                      /\ natConns'[d].handler \in {"delete", "ended"} => ex \/ natConns'[d].sourceClosed
                      /\ natConns'[d].handler = "ended" => natConns'[d].sourceClosed \/ natConns'[d].late
    BY <1>2, <1>6 DEF HandlersEnd
  <2>6. CASE d = c
    BY <2>3, <2>4, <2>5, <2>6
  <2>7. CASE d # c
    BY <1>1, <1>4, <2>3, <2>7 DEF HandlersEnd
  <2> QED BY <2>6, <2>7
<1>10. NatTypeOK'
  BY <1>1, <1>2, <1>6 DEF NatTypeOK
<1>11. SameQueues
  <2>1. \A d \in 1 .. Len(natConns) : natConns'[d] = cs[d] \/ natConns'[d] = Closed(cs[d])
    BY <1>1, <1>2, <1>4, DeleteFacts
  <2>2. \A d \in 1 .. Len(natConns) : cs[d] \in ConnRecords
    BY <1>4, ElementOfSeq
  <2> QED BY <1>5, <1>6, <2>1, <2>2, ClosedFields DEF SameQueues
<1> QED BY <1>6, <1>7, <1>9, <1>10, <1>11 DEF TableOK

LEMMA TableHandlerReturns ==
  ASSUME TableOK, NEW c \in 1 .. Len(natConns), HandlerReturns(c)
  PROVE  TableOK' /\ SameQueues
<1> DEFINE b == IF ex THEN natConns[c] ELSE Closed(natConns[c])
           r == [b EXCEPT !.handler = "delete"]
<1>1. NatTypeOK /\ SendersOK /\ HandlersEnd
  BY DEF TableOK
<1>2. /\ natConns[c] \in ConnRecords /\ DOMAIN natConns = 1 .. Len(natConns)
      /\ natConns[c].handler = "reading" /\ natConns[c].source
      /\ UNCHANGED <<nat, time, natCtxDone, ex, sender, sends>>
  BY <1>1, StateTypes DEF HandlerReturns, HandlersEnd
<1>3. natConns' = [natConns EXCEPT ![c] = r]
  <2>1. natConns' = [(IF ex THEN natConns ELSE closeConn(natConns, c)) EXCEPT ![c].handler = "delete"]
    BY DEF HandlerReturns
  <2>2. CASE ex
    BY <2>1, <2>2
  <2>3. CASE ~ex
    <3>1. closeConn(natConns, c) = [natConns EXCEPT ![c] = Closed(natConns[c])]
      BY <1>2 DEF closeConn, Closed
    <3>2. natConns' = [[natConns EXCEPT ![c] = Closed(natConns[c])] EXCEPT ![c].handler = "delete"]
      BY <2>1, <2>3, <3>1
    <3>3. r = [Closed(natConns[c]) EXCEPT !.handler = "delete"]
      BY <2>3
    <3> HIDE DEF r
    <3> QED BY <1>2, <3>2, <3>3
  <2> QED BY <2>2, <2>3
<1>4. /\ b \in ConnRecords /\ b.key = natConns[c].key /\ b.source /\ (natConns[c].done => b.done)
      /\ (natConns[c].sourceClosed => b.sourceClosed) /\ b.late = natConns[c].late /\ (ex \/ b.sourceClosed)
      /\ b.data = natConns[c].data /\ b.got = natConns[c].got
  <2>1. CASE ex
    BY <1>2, <2>1
  <2>2. CASE ~ex
    <3>1. b = Closed(natConns[c])
      BY <2>2
    <3> HIDE DEF b
    <3>2. LET x == natConns[c] IN
          /\ Closed(x) \in ConnRecords /\ Closed(x).done /\ (x.source => Closed(x).sourceClosed)
          /\ Closed(x).key = x.key /\ Closed(x).source = x.source /\ Closed(x).late = x.late
          /\ Closed(x).data = x.data /\ Closed(x).got = x.got
      BY <1>2, ClosedFields
    <3> QED BY <1>2, <3>1, <3>2
  <2> QED BY <2>1, <2>2
<1> HIDE DEF b
<1>5. /\ r \in ConnRecords /\ r.key = b.key /\ r.source = b.source /\ r.handler = "delete"
      /\ r.late = b.late /\ r.done = b.done /\ r.sourceClosed = b.sourceClosed /\ r.data = b.data /\ r.got = b.got
  BY <1>4, Zenon DEF ConnRecords
<1> HIDE DEF r
<1>6. /\ natConns' \in Seq(ConnRecords) /\ Len(natConns') = Len(natConns) /\ natConns'[c] = r
      /\ \A d \in 1 .. Len(natConns) : d # c => natConns'[d] = natConns[d]
  BY <1>1, <1>3, <1>5, StateTypes, OneConn
<1>7. \A d \in 1 .. Len(natConns) : natConns'[d].key = natConns[d].key
  BY <1>4, <1>5, <1>6
<1>8. SendersOK'
  BY <1>1, <1>2, <1>6, <1>7, SendersStay
<1>9. HandlersEnd'
  BY <1>1, <1>2, <1>4, <1>5, <1>6 DEF HandlersEnd
<1>10. \A d \in 1 .. Len(natConns) :
        natConns[d].done /\ (natConns[d].source => natConns[d].sourceClosed \/ natConns[d].late) =>
          natConns'[d].done /\ (natConns'[d].source => natConns'[d].sourceClosed \/ natConns'[d].late)
  BY <1>2, <1>4, <1>5, <1>6
<1>11. time' \in Nat /\ natCtxDone' \in BOOLEAN /\ sends' \in Nat /\ sender' \in [Senders -> SenderRecords]
  BY <1>1, <1>2 DEF NatTypeOK
<1>12. TableOK'
  BY <1>2, <1>6, <1>7, <1>8, <1>9, <1>10, <1>11, SteadyTable
<1> QED BY <1>4, <1>5, <1>6, <1>12 DEF SameQueues

\* Steps that only move messages.
Unmoved(d) ==
  /\ natConns'[d].key = natConns[d].key /\ natConns'[d].done = natConns[d].done
  /\ natConns'[d].source = natConns[d].source /\ natConns'[d].sourceClosed = natConns[d].sourceClosed
  /\ natConns'[d].handler = natConns[d].handler /\ natConns'[d].late = natConns[d].late

LEMMA QueuesChange ==
  ASSUME NatTypeOK, NEW c \in 1 .. Len(natConns), NEW q \in Seq(Messages), NEW g \in Seq(Messages),
         NEW r, r = [natConns[c] EXCEPT !.data = q, !.got = g], natConns' = [natConns EXCEPT ![c] = r]
  PROVE  /\ natConns' \in Seq(ConnRecords) /\ Len(natConns') = Len(natConns)
         /\ natConns'[c].data = q /\ natConns'[c].got = g
         /\ \A d \in 1 .. Len(natConns) : Unmoved(d) /\ (d # c => natConns'[d] = natConns[d])
<1>1. /\ r \in ConnRecords /\ r.key = natConns[c].key /\ r.source = natConns[c].source
      /\ r.handler = natConns[c].handler /\ r.data = q /\ r.got = g
      /\ r.late = natConns[c].late /\ r.done = natConns[c].done /\ r.sourceClosed = natConns[c].sourceClosed
  <2>1. natConns[c] \in ConnRecords
    BY StateTypes
  <2> QED BY <2>1, Zenon DEF ConnRecords
<1>2. /\ natConns' \in Seq(ConnRecords) /\ Len(natConns') = Len(natConns) /\ natConns'[c] = r
      /\ \A d \in 1 .. Len(natConns) : d # c => natConns'[d] = natConns[d]
  BY <1>1, StateTypes, OneConn
<1> QED BY <1>1, <1>2 DEF Unmoved

LEMMA TableQueues ==
  ASSUME TableOK, natConns' \in Seq(ConnRecords), Len(natConns') = Len(natConns),
         \A d \in 1 .. Len(natConns) : Unmoved(d),
         UNCHANGED <<nat, time, natCtxDone, ex, sends>>,
         sender' \in [Senders -> SenderRecords], SendersOK'
  PROVE  TableOK'
<1>1. NatTypeOK /\ HandlersEnd
  BY DEF TableOK
<1>2. HandlersEnd'
  BY <1>1 DEF HandlersEnd, Unmoved
<1>3. \A d \in 1 .. Len(natConns) :
        /\ natConns'[d].key = natConns[d].key
        /\ natConns[d].done /\ (natConns[d].source => natConns[d].sourceClosed \/ natConns[d].late) =>
             natConns'[d].done /\ (natConns'[d].source => natConns'[d].sourceClosed \/ natConns'[d].late)
  BY DEF Unmoved
<1>4. time' \in Nat /\ natCtxDone' \in BOOLEAN /\ sends' \in Nat
  BY <1>1 DEF NatTypeOK
<1> QED BY <1>2, <1>3, <1>4, SteadyTable

\* The message that a sender sends.
Message(s) == [from |-> s, packet |-> sender[s].packet, key |-> sender[s].key]

LEMMA TableEnqueue ==
  ASSUME TableOK, NEW s \in Senders, Enqueue(s)
  PROVE  LET c == sender[s].conn
         IN /\ TableOK' /\ c \in 1 .. Len(natConns) /\ Message(s) \in Messages
            /\ natConns[c].key = sender[s].key
            /\ natConns'[c].data = Append(natConns[c].data, Message(s)) /\ natConns'[c].got = natConns[c].got
            /\ Len(natConns') = Len(natConns)
            /\ \A d \in 1 .. Len(natConns) :
                 natConns'[d].key = natConns[d].key /\ (d # c => natConns'[d] = natConns[d])
<1> DEFINE c == sender[s].conn  q == Append(natConns[c].data, Message(s))
<1>1. NatTypeOK /\ SendersOK
  BY DEF TableOK
<1>2. /\ sender[s].at = "send" /\ natConns' = [natConns EXCEPT ![c].data = q]
      /\ sender' = [sender EXCEPT ![s] = IdleSender] /\ UNCHANGED <<nat, time, natCtxDone, ex, sends>>
  BY DEF Enqueue, Message
<1>3. /\ c \in 1 .. Len(natConns) /\ natConns[c].key = sender[s].key /\ sender[s].key \in NatSources
      /\ sender[s].packet \in 1 .. sends
  BY <1>1, <1>2 DEF SendersOK, SenderFine
<1>4. sender[s].packet \in Nat
  BY <1>3
<1>5. Message(s) \in Messages
  BY <1>3, <1>4, Zenon DEF Message, Messages
<1> HIDE DEF c
<1>6. natConns[c] \in ConnRecords /\ natConns[c].data \in Seq(Messages) /\ natConns[c].got \in Seq(Messages)
  BY <1>1, <1>3, StateTypes, ConnFields
<1>7. q \in Seq(Messages)
  BY <1>5, <1>6, AppendProperties
<1> HIDE DEF q
<1> DEFINE r == [natConns[c] EXCEPT !.data = q, !.got = natConns[c].got]
<1>8. natConns' = [natConns EXCEPT ![c] = r]
  <2>1. [natConns[c] EXCEPT !.data = q] = r
    BY <1>6 DEF ConnRecords
  <2> QED BY <1>2, <2>1
<1>9. /\ natConns' \in Seq(ConnRecords) /\ Len(natConns') = Len(natConns)
      /\ natConns'[c].data = q /\ natConns'[c].got = natConns[c].got
      /\ \A d \in 1 .. Len(natConns) : Unmoved(d) /\ (d # c => natConns'[d] = natConns[d])
  BY <1>1, <1>3, <1>6, <1>7, <1>8, QueuesChange
<1>10. \A d \in 1 .. Len(natConns) : natConns'[d].key = natConns[d].key
  BY <1>9 DEF Unmoved
<1>11. sender' \in [Senders -> SenderRecords] /\ SendersOK'
  BY <1>1, <1>2, <1>9, <1>10, SenderEnds
<1>12. TableOK'
  BY <1>2, <1>9, <1>11, TableQueues
<1> QED BY <1>3, <1>5, <1>9, <1>10, <1>12 DEF c, q

LEMMA TableHandlerRead ==
  ASSUME TableOK, NEW c \in 1 .. Len(natConns), HandlerRead(c)
  PROVE  /\ TableOK' /\ natConns[c].data \in Seq(Messages) /\ natConns[c].got \in Seq(Messages)
         /\ natConns[c].data # << >>
         /\ natConns'[c].data = Tail(natConns[c].data)
         /\ natConns'[c].got = Append(natConns[c].got, Head(natConns[c].data))
         /\ Len(natConns') = Len(natConns) /\ sender' = sender /\ sends' = sends
         /\ \A d \in 1 .. Len(natConns) :
              natConns'[d].key = natConns[d].key /\ (d # c => natConns'[d] = natConns[d])
<1> DEFINE q == Tail(natConns[c].data)  g == Append(natConns[c].got, Head(natConns[c].data))
<1>1. NatTypeOK /\ SendersOK
  BY DEF TableOK
<1>2. /\ natConns[c].data # << >>
      /\ natConns' = [natConns EXCEPT ![c].got = g, ![c].data = q]
      /\ UNCHANGED <<nat, time, natCtxDone, ex, sender, sends>>
  BY DEF HandlerRead
<1>3. natConns[c] \in ConnRecords /\ natConns[c].data \in Seq(Messages) /\ natConns[c].got \in Seq(Messages)
  BY <1>1, StateTypes, ConnFields
<1>4. q \in Seq(Messages) /\ g \in Seq(Messages)
  <2>1. q \in Seq(Messages) /\ Head(natConns[c].data) \in Messages
    BY <1>2, <1>3, HeadTailProperties
  <2> QED BY <1>3, <2>1, AppendProperties
<1> HIDE DEF q, g
<1> DEFINE r == [natConns[c] EXCEPT !.data = q, !.got = g]
<1>5. natConns' = [natConns EXCEPT ![c] = r]
  <2>1. [natConns[c] EXCEPT !.got = g, !.data = q] = r
    BY <1>3 DEF ConnRecords
  <2> QED BY <1>2, <2>1
<1>6. /\ natConns' \in Seq(ConnRecords) /\ Len(natConns') = Len(natConns)
      /\ natConns'[c].data = q /\ natConns'[c].got = g
      /\ \A d \in 1 .. Len(natConns) : Unmoved(d) /\ (d # c => natConns'[d] = natConns[d])
  BY <1>1, <1>4, <1>5, QueuesChange
<1>7. \A d \in 1 .. Len(natConns) : natConns'[d].key = natConns[d].key
  BY <1>6 DEF Unmoved
<1>8. sender' \in [Senders -> SenderRecords] /\ SendersOK'
  BY <1>1, <1>2, <1>6, <1>7, SendersStay, StateTypes
<1>9. TableOK'
  BY <1>2, <1>6, <1>8, TableQueues
<1> QED BY <1>2, <1>3, <1>6, <1>7, <1>9 DEF q, g

\* The callers' context is done, and so are all connections.
LEMMA TableCancel ==
  ASSUME TableOK, Cancel
  PROVE  TableOK' /\ SameQueues
<1>1. NatTypeOK /\ SendersOK /\ HandlersEnd
  BY DEF TableOK
<1> DEFINE f == [c \in 1 .. Len(natConns) |-> [natConns[c] EXCEPT !.done = TRUE]]
<1>2. /\ natConns' = f /\ natCtxDone' = TRUE /\ UNCHANGED <<nat, time, ex, sender, sends>>
  BY <1>1, StateTypes DEF Cancel
<1>3. ASSUME NEW c \in 1 .. Len(natConns)
      PROVE  LET r == [natConns[c] EXCEPT !.done = TRUE]
             IN /\ r \in ConnRecords /\ r.key = natConns[c].key /\ r.source = natConns[c].source
                /\ r.handler = natConns[c].handler /\ r.data = natConns[c].data /\ r.got = natConns[c].got
                /\ r.late = natConns[c].late /\ r.done /\ r.sourceClosed = natConns[c].sourceClosed
  <2>1. natConns[c] \in ConnRecords
    BY <1>1, StateTypes
  <2> QED BY <2>1, Zenon DEF ConnRecords
<1>4. \A c \in 1 .. Len(natConns) :
        /\ f[c] \in ConnRecords /\ f[c].key = natConns[c].key /\ f[c].source = natConns[c].source
        /\ f[c].handler = natConns[c].handler /\ f[c].data = natConns[c].data /\ f[c].got = natConns[c].got
        /\ f[c].late = natConns[c].late /\ f[c].done /\ f[c].sourceClosed = natConns[c].sourceClosed
  BY <1>3
<1>5. f \in Seq(ConnRecords) /\ Len(f) = Len(natConns)
  <2>1. DOMAIN f = 1 .. Len(natConns) /\ Len(natConns) \in Nat
    BY <1>1, StateTypes
  <2>2. f \in [1 .. Len(natConns) -> ConnRecords]
    BY <1>3
  <2> HIDE DEF f
  <2> QED BY <2>1, <2>2, SeqDef
<1> HIDE DEF f
<1>6. \A d \in 1 .. Len(natConns) : natConns'[d].key = natConns[d].key
  BY <1>2, <1>4
<1>7. HandlersEnd'
  BY <1>1, <1>2, <1>4, <1>5 DEF HandlersEnd
<1>8. SendersOK'
  BY <1>1, <1>2, <1>5, <1>6, SendersStay
<1>9. \A d \in 1 .. Len(natConns) :
        natConns[d].done /\ (natConns[d].source => natConns[d].sourceClosed \/ natConns[d].late) =>
          natConns'[d].done /\ (natConns'[d].source => natConns'[d].sourceClosed \/ natConns'[d].late)
  BY <1>2, <1>4
<1>10. time' \in Nat /\ natCtxDone' \in BOOLEAN /\ sends' \in Nat /\ sender' \in [Senders -> SenderRecords]
  BY <1>1, <1>2 DEF NatTypeOK
<1>11. natConns' \in Seq(ConnRecords) /\ Len(natConns') = Len(natConns) /\ nat' = nat /\ ex' = ex
  BY <1>2, <1>5
<1>12. TableOK'
  BY <1>6, <1>7, <1>8, <1>9, <1>10, <1>11, SteadyTable
<1> QED BY <1>2, <1>4, <1>5, <1>12 DEF SameQueues

LEMMA TableWaits ==
  ASSUME TableOK, UNCHANGED <<nat, natCtxDone, ex, natConns, sender, sends>>, time' \in Nat
  PROVE  TableOK'
<1>1. NatTypeOK'
  BY DEF TableOK, NatTypeOK
<1>2. NewestInTable' /\ OutIsClosed' /\ HandlersEnd'
  BY DEF TableOK, NewestInTable, OutIsClosed, HandlersEnd
<1>3. SendersOK'
  BY DEF TableOK, SendersOK
<1> QED BY <1>1, <1>2, <1>3 DEF TableOK

\* A packet finds its connection, or makes one.
LEMMA TableLookup ==
  ASSUME TableOK, NEW s \in Senders, NEW k \in NatSources, NEW p \in 1 .. sends', sends' \in Nat, sends <= sends',
         Lookup(s, k, p), UNCHANGED <<time, natCtxDone, ex>>
  PROVE  /\ TableOK' /\ Len(natConns) <= Len(natConns')
         /\ \A c \in 1 .. Len(natConns) :
              /\ natConns'[c].key = natConns[c].key
              /\ natConns'[c].data = natConns[c].data /\ natConns'[c].got = natConns[c].got
         /\ \A c \in 1 .. Len(natConns') : c \notin 1 .. Len(natConns) =>
              natConns'[c].data = << >> /\ natConns'[c].got = << >>
         /\ sender'[s].packet = p /\ sender'[s].at # "idle" /\ \A t \in Senders : t # s => sender'[t] = sender[t]
<1> DEFINE n == Len(natConns)  v == n + 1
<1>1. NatTypeOK /\ SendersOK /\ HandlersEnd /\ OutIsClosed /\ NewestInTable
  BY DEF TableOK
<1>2. /\ n \in Nat /\ v \in Nat /\ v \notin 1 .. n /\ \A c \in 1 .. n : c \in 1 .. v /\ natConns[c] \in ConnRecords
      /\ v \in 1 .. v /\ \A c \in 1 .. v : c \in 1 .. n \/ c = v
  BY <1>1, StateTypes
<1>3. /\ nat' \in Seq(Entries(NatSources)) /\ Proper(nat') /\ natConns' \in Seq(ConnRecords)
      /\ \A x \in Items(nat') : \/ \E y \in Items(nat) : x.key = y.key /\ x.value = y.value
                                \/ x.key = k /\ x.value = v
      /\ \A c \in 1 .. n : c \in ValuesOf(nat) /\ c \notin ValuesOf(nat') => natConns'[c] = Closed(natConns[c])
      /\ \A c \in 1 .. n : ~(c \in ValuesOf(nat) /\ c \notin ValuesOf(nat')) => natConns'[c] = natConns[c]
  BY <1>1, LookupFacts
<1>4. \/ /\ Len(natConns') = n /\ ValuesOf(nat') \subseteq ValuesOf(nat)
         /\ \E c \in 1 .. n :
              /\ natConns[c].key = k
              /\ sender' = [sender EXCEPT ![s] = [at |-> "check", key |-> k, packet |-> p, conn |-> c]]
      \/ /\ Len(natConns') = v /\ natConns'[v] = NewConn(k) /\ v \in ValuesOf(nat')
         /\ sender' = [sender EXCEPT ![s] = [at |-> "init", key |-> k, packet |-> p, conn |-> v]]
  BY <1>1, LookupFacts
<1> HIDE DEF n, v
<1>5. ASSUME NEW c \in 1 .. n
      PROVE  /\ natConns'[c].key = natConns[c].key
             /\ natConns'[c].data = natConns[c].data /\ natConns'[c].got = natConns[c].got
             /\ natConns'[c].handler = natConns[c].handler /\ natConns'[c].source = natConns[c].source
             /\ natConns'[c].late = natConns[c].late /\ (natConns[c].done => natConns'[c].done)
             /\ (natConns[c].sourceClosed => natConns'[c].sourceClosed)
  <2>1. natConns'[c] = natConns[c] \/ natConns'[c] = Closed(natConns[c])
    BY <1>3
  <2>2. natConns[c] \in ConnRecords
    BY <1>2
  <2> QED BY <2>1, <2>2, ClosedFields
<1>6. /\ NewConn(k).key = k /\ NewConn(k).data = << >> /\ NewConn(k).got = << >> /\ NewConn(k).handler = "none"
  BY DEF NewConn
<1>7. \A i \in 1 .. Len(nat) : nat[i].value \in 1 .. n
  BY <1>1 DEF NewestInTable, n
\* The new connection is the only one in the table that has its key.
<1>8. ASSUME NEW i \in 1 .. Len(nat'), nat'[i].key = k, Len(natConns') = v PROVE nat'[i].value = v
  <2>1. v \in ValuesOf(nat')
    BY <1>2, <1>4, <1>8 DEF v
  <2>2. PICK h \in 1 .. Len(nat') : nat'[h].value = v
    BY <2>1 DEF ValuesOf
  <2>3. nat'[h].key = k
    <3>1. nat'[h] \in Items(nat')
      BY DEF Items
    <3>2. ASSUME NEW y \in Items(nat), nat'[h].value = y.value PROVE FALSE
      BY <1>2, <1>7, <2>2, <3>2 DEF Items
    <3> QED BY <1>3, <3>1, <3>2
  <2> QED BY <1>3, <1>8, <2>2, <2>3 DEF Proper
<1>9. NewestInTable'
  <2> SUFFICES ASSUME NEW i \in 1 .. Len(nat')
               PROVE  /\ nat'[i].value \in 1 .. Len(natConns') /\ natConns'[nat'[i].value].key = nat'[i].key
                      /\ \A d \in 1 .. Len(natConns') : natConns'[d].key = nat'[i].key => d <= nat'[i].value
    BY DEF NewestInTable
  <2>0. nat'[i] \in Items(nat') /\ nat'[i].value \in ValuesOf(nat')
    BY DEF Items, ValuesOf
  <2>1. ASSUME NEW y \in Items(nat), nat'[i].key = y.key, nat'[i].value = y.value
        PROVE  /\ nat'[i].value \in 1 .. Len(natConns') /\ natConns'[nat'[i].value].key = nat'[i].key
               /\ \A d \in 1 .. Len(natConns') : natConns'[d].key = nat'[i].key => d <= nat'[i].value
    <3>1. PICK j \in 1 .. Len(nat) : y = nat[j]
      BY DEF Items
    <3>2. /\ nat[j].value \in 1 .. n /\ natConns[nat[j].value].key = nat[j].key
          /\ \A d \in 1 .. n : natConns[d].key = nat[j].key => d <= nat[j].value
      BY <1>1 DEF NewestInTable, n
    <3>3. nat'[i].value \in 1 .. n /\ natConns'[nat'[i].value].key = nat'[i].key
      BY <1>5, <2>1, <3>1, <3>2
    <3>4. nat'[i].value \in 1 .. Len(natConns')
      BY <1>2, <1>4, <3>3
    <3>5. ASSUME NEW d \in 1 .. Len(natConns'), natConns'[d].key = nat'[i].key PROVE d <= nat'[i].value
      <4>1. CASE d \in 1 .. n
        BY <1>5, <2>1, <3>1, <3>2, <3>5, <4>1
      <4>2. CASE d \notin 1 .. n
        <5>1. Len(natConns') = v /\ d = v
          BY <1>2, <1>4, <4>2
        <5>2. nat'[i].key = k
          BY <1>2, <1>4, <1>6, <3>5, <5>1 DEF v
        <5>3. nat'[i].value = v
          BY <1>8, <5>1, <5>2
        <5> QED BY <1>2, <3>3, <5>3
      <4> QED BY <4>1, <4>2
    <3> QED BY <3>3, <3>4, <3>5
  <2>2. ASSUME nat'[i].key = k, nat'[i].value = v
        PROVE  /\ nat'[i].value \in 1 .. Len(natConns') /\ natConns'[nat'[i].value].key = nat'[i].key
               /\ \A d \in 1 .. Len(natConns') : natConns'[d].key = nat'[i].key => d <= nat'[i].value
    <3>1. v \notin ValuesOf(nat)
      BY <1>2, <1>7 DEF ValuesOf
    <3>2. Len(natConns') = v /\ natConns'[v] = NewConn(k)
      BY <1>4, <2>0, <2>2, <3>1
    <3>3. \A d \in 1 .. v : d <= v
      BY <1>2
    <3> QED BY <1>2, <1>6, <2>2, <3>2, <3>3
  <2> QED BY <1>3, <2>0, <2>1, <2>2
<1>10. OutIsClosed'
  <2> SUFFICES ASSUME NEW c \in 1 .. Len(natConns'), c \notin ValuesOf(nat')
               PROVE  /\ natConns'[c].done
                      /\ natConns'[c].source => natConns'[c].sourceClosed \/ natConns'[c].late
    BY DEF OutIsClosed
  <2>1. c \in 1 .. n
    BY <1>2, <1>4
  <2>2. CASE c \in ValuesOf(nat)
    <3>1. natConns'[c] = Closed(natConns[c]) /\ natConns[c] \in ConnRecords
      BY <1>2, <1>3, <2>1, <2>2
    <3>2. LET x == natConns[c] IN Closed(x).done /\ (x.source => Closed(x).sourceClosed) /\ Closed(x).source = x.source
      BY <3>1, ClosedFields
    <3> QED BY <3>1, <3>2
  <2>3. CASE c \notin ValuesOf(nat)
    <3>1. natConns[c].done /\ (natConns[c].source => natConns[c].sourceClosed \/ natConns[c].late)
      BY <1>1, <2>1, <2>3 DEF OutIsClosed, n
    <3>2. natConns'[c] = natConns[c]
      BY <1>3, <2>1, <2>3
    <3> QED BY <3>1, <3>2
  <2> QED BY <2>2, <2>3
<1>11. HandlersEnd'
  <2> SUFFICES ASSUME NEW c \in 1 .. Len(natConns')
               PROVE  /\ natConns'[c].handler # "none" => natConns'[c].source
                      /\ natConns'[c].handler \in {"delete", "ended"} => ex \/ natConns'[c].sourceClosed
                      /\ natConns'[c].handler = "ended" => natConns'[c].sourceClosed \/ natConns'[c].late
    BY DEF HandlersEnd
  <2>1. CASE c \in 1 .. n
    BY <1>1, <1>5, <2>1 DEF HandlersEnd, n
  <2>2. CASE c \notin 1 .. n
    <3>1. natConns'[c] = NewConn(k)
      BY <1>2, <1>4, <2>2
    <3> QED BY <1>6, <3>1
  <2> QED BY <2>1, <2>2
<1>12. PICK r \in SenderRecords : /\ sender' = [sender EXCEPT ![s] = r] /\ SenderFine(r, sends', natConns')
                                  /\ r.packet = p /\ r.at # "idle"
  <2>1. p \in Nat /\ v \in Nat /\ \A c \in 1 .. n : c \in Nat
    BY <1>2
  <2>2. ASSUME NEW c \in Nat, NEW at \in {"init", "check"}
        PROVE  LET r == [at |-> at, key |-> k, packet |-> p, conn |-> c]
               IN r \in SenderRecords /\ r.at = at /\ r.key = k /\ r.packet = p /\ r.conn = c
    <3>1. at \in {"idle", "init", "check", "send", "again"} /\ k \in NatSources \cup {Miss}
      OBVIOUS
    <3> QED BY <2>1, <3>1, Zenon DEF SenderRecords
  <2>3. CASE Len(natConns') = n
    <3>1. PICK c \in 1 .. n :
            /\ natConns[c].key = k
            /\ sender' = [sender EXCEPT ![s] = [at |-> "check", key |-> k, packet |-> p, conn |-> c]]
      BY <1>2, <1>4, <2>3 DEF v
    <3> DEFINE r == [at |-> "check", key |-> k, packet |-> p, conn |-> c]
    <3>2. r \in SenderRecords /\ r.at = "check" /\ r.key = k /\ r.packet = p /\ r.conn = c
      BY <2>1, <2>2
    <3>3. sender' = [sender EXCEPT ![s] = r]
      BY <3>1
    <3> HIDE DEF r
    <3>4. SenderFine(r, sends', natConns')
      BY <1>5, <2>3, <3>1, <3>2 DEF SenderFine
    <3> QED BY <3>2, <3>3, <3>4
  <2>4. CASE Len(natConns') = v
    <3> DEFINE r == [at |-> "init", key |-> k, packet |-> p, conn |-> v]
    <3>1. r \in SenderRecords /\ r.at = "init" /\ r.key = k /\ r.packet = p /\ r.conn = v
      BY <2>1, <2>2
    <3>2. sender' = [sender EXCEPT ![s] = r] /\ natConns'[v] = NewConn(k)
      BY <1>2, <1>4, <2>4 DEF v
    <3> HIDE DEF r
    <3>3. SenderFine(r, sends', natConns')
      BY <1>2, <1>6, <2>4, <3>1, <3>2 DEF SenderFine
    <3> QED BY <3>1, <3>2, <3>3
  <2> QED BY <1>4, <2>3, <2>4
<1>13. Len(natConns') \in Nat /\ Len(natConns) <= Len(natConns')
  BY <1>2, <1>4 DEF n, v
<1>14. sender' \in [Senders -> SenderRecords] /\ SendersOK'
  <2>1. \A c \in 1 .. Len(natConns) : natConns'[c].key = natConns[c].key
    BY <1>5 DEF n
  <2> QED BY <1>1, <1>12, <1>13, <2>1, SenderMoves
<1>15. NatTypeOK'
  BY <1>1, <1>3, <1>14 DEF NatTypeOK
<1>16. TableOK'
  BY <1>9, <1>10, <1>11, <1>14, <1>15 DEF TableOK
<1>17. ASSUME NEW c \in 1 .. Len(natConns'), c \notin 1 .. n
       PROVE  natConns'[c].data = << >> /\ natConns'[c].got = << >>
  BY <1>2, <1>4, <1>6, <1>17
<1>18. sender'[s].packet = p /\ sender'[s].at # "idle" /\ \A t \in Senders : t # s => sender'[t] = sender[t]
  BY <1>1, <1>12, StateTypes
<1> QED BY <1>5, <1>13, <1>16, <1>17, <1>18 DEF n

LEMMA TableStep == TableOK /\ [NatNext]_natVars => TableOK'
<1> SUFFICES ASSUME TableOK, [NatNext]_natVars PROVE TableOK'
  OBVIOUS
<1>1. NatTypeOK /\ SendersOK
  BY DEF TableOK
<1>2. ASSUME NEW s \in Senders, NewPacket(s) PROVE TableOK'
  <2>1. PICK k \in NatSources : Lookup(s, k, sends + 1)
    BY <1>2 DEF NewPacket
  <2>2. sends' = sends + 1 /\ UNCHANGED <<time, natCtxDone, ex>>
    BY <1>2 DEF NewPacket
  <2>3. sends' \in Nat /\ sends <= sends' /\ sends + 1 \in 1 .. sends'
    BY <1>1, <2>2, StateTypes
  <2> QED BY <2>1, <2>2, <2>3, TableLookup
<1>3. ASSUME NEW s \in Senders, Retry(s) PROVE TableOK'
  <2>1. sender[s].at = "again" /\ UNCHANGED <<time, natCtxDone, ex, sends>>
    BY <1>3 DEF Retry
  <2>2. CASE natCtxDone
    <3>1. sender' = [sender EXCEPT ![s] = IdleSender] /\ nat' = nat /\ natConns' = natConns
      BY <1>3, <2>2 DEF Retry
    <3>2. sender' \in [Senders -> SenderRecords] /\ SendersOK'
      BY <1>1, <2>1, <3>1, SenderEnds
    <3>3. natConns' \in Seq(ConnRecords) /\ \A d \in 1 .. Len(natConns) : Unmoved(d)
      BY <1>1, <3>1, StateTypes DEF Unmoved
    <3> QED BY <2>1, <3>1, <3>2, <3>3, TableQueues
  <2>3. CASE ~natCtxDone
    <3>1. Lookup(s, sender[s].key, sender[s].packet)
      BY <1>3, <2>3 DEF Retry
    <3>2. sender[s].key \in NatSources /\ sender[s].packet \in 1 .. sends'
      BY <1>1, <2>1 DEF SendersOK, SenderFine
    <3>3. sends' \in Nat /\ sends <= sends'
      BY <1>1, <2>1, StateTypes
    <3> QED BY <2>1, <3>1, <3>2, <3>3, TableLookup
  <2> QED BY <2>2, <2>3
<1>4. ASSUME NEW s \in Senders, SenderStep(s) PROVE TableOK'
  <2>1. CASE Enqueue(s)
    BY <2>1, TableEnqueue
  <2> QED BY <1>3, <1>4, <2>1, TableInitConn, TableCheckDone DEF SenderStep
<1>5. ASSUME NEW c \in DOMAIN natConns, HandlerStep(c) PROVE TableOK'
  <2>1. c \in 1 .. Len(natConns)
    BY <1>1, StateTypes
  <2>2. CASE HandlerRead(c)
    BY <2>1, <2>2, TableHandlerRead
  <2> QED BY <1>5, <2>1, <2>2, TableHandlerReturns, TableHandlerDeletes DEF HandlerStep
<1>6. CASE Cancel
  BY <1>6, TableCancel
<1>7. CASE NatTick
  <2>1. time' \in Nat
    BY <1>1, <1>7 DEF NatTick, NatTypeOK
  <2> QED BY <1>7, <2>1, TableWaits DEF NatTick
<1>8. CASE UNCHANGED natVars
  <2>1. time' \in Nat
    BY <1>1, <1>8 DEF natVars, NatTypeOK
  <2> QED BY <1>8, <2>1, TableWaits DEF natVars
<1> QED BY <1>2, <1>4, <1>5, <1>6, <1>7, <1>8 DEF NatNext

-----------------------------------------------------------------------------
\* The messages of a connection.
LEMMA PassedType ==
  ASSUME NatTypeOK, NEW c \in 1 .. Len(natConns)
  PROVE  /\ natConns[c].got \in Seq(Messages) /\ natConns[c].data \in Seq(Messages)
         /\ Passed(c) \in Seq(Messages) /\ Len(Passed(c)) \in Nat
         /\ \A i \in 1 .. Len(Passed(c)) :
              Passed(c)[i] \in Messages /\ Passed(c)[i].packet \in Nat /\ Passed(c)[i].from \in Senders
<1>1. natConns[c].got \in Seq(Messages) /\ natConns[c].data \in Seq(Messages)
  BY StateTypes, ConnFields
<1>2. Passed(c) \in Seq(Messages)
  BY <1>1, ConcatProperties DEF Passed
<1>3. Len(Passed(c)) \in Nat /\ \A i \in 1 .. Len(Passed(c)) : Passed(c)[i] \in Messages
  BY <1>2, LenProperties, ElementOfSeq
<1>4. \A m \in Messages : m.packet \in Nat /\ m.from \in Senders
  BY DEF Messages
<1> QED BY <1>1, <1>2, <1>3, <1>4

\* What is put into a queue is behind all that was put there; what is read
\* of it goes from one side of the border to the other.
LEMMA PutBehind ==
  ASSUME NEW g \in Seq(Messages), NEW q \in Seq(Messages), NEW m \in Messages
  PROVE  g \o Append(q, m) = Append(g \o q, m)
<1>1. <<m>> \in Seq(Messages) /\ g \o q \in Seq(Messages)
  BY ConcatProperties
<1>2. Append(q, m) = q \o <<m>> /\ Append(g \o q, m) = (g \o q) \o <<m>>
  BY <1>1, AppendIsConcat
<1> QED BY <1>1, <1>2, ConcatAssociative

LEMMA ReadFirst ==
  ASSUME NEW S, NEW g \in Seq(S), NEW q \in Seq(S), q # << >>
  PROVE  Append(g, Head(q)) \o Tail(q) = g \o q
<1>1. Head(q) \in S /\ Tail(q) \in Seq(S) /\ <<Head(q)>> \in Seq(S)
  BY HeadTailProperties
<1>2. Append(g, Head(q)) = g \o <<Head(q)>>
  BY <1>1, AppendIsConcat
<1>3. <<Head(q)>> \o Tail(q) = q
  OBVIOUS
<1> QED BY <1>1, <1>2, <1>3, ConcatAssociative

\* Senders keep their packets, except for one that may take the next packet.
SendersKeep(s) ==
  \A t \in Senders : sender'[t].at # "idle" =>
    \/ sender[t].at # "idle" /\ sender'[t].packet = sender[t].packet
    \/ t = s /\ sender'[t].packet = sends + 1 /\ sends' = sends + 1

LEMMA StillSent ==
  ASSUME TableOK, TableOK', sends <= sends', NEW s, SendersKeep(s)
  PROVE  \A m \in Messages : Sent(m) => Sent(m)'
<1> SUFFICES ASSUME NEW m \in Messages, Sent(m)
             PROVE  /\ m.packet <= sends'
                    /\ \A t \in Senders : sender'[t].at # "idle" =>
                         m.packet # sender'[t].packet /\ (m.from = t => m.packet < sender'[t].packet)
  BY DEF Sent
<1>1. m.packet \in Nat /\ sends \in Nat /\ sends' \in Nat /\ m.packet <= sends
  BY DEF TableOK, NatTypeOK, Messages, Sent
<1>2. ASSUME NEW t \in Senders, sender'[t].at # "idle"
      PROVE  m.packet # sender'[t].packet /\ (m.from = t => m.packet < sender'[t].packet)
  <2>1. CASE sender[t].at # "idle" /\ sender'[t].packet = sender[t].packet
    BY <2>1 DEF Sent
  <2>2. CASE sender'[t].packet = sends + 1
    BY <1>1, <2>2
  <2> QED BY <1>2, <2>1, <2>2 DEF SendersKeep
<1> QED BY <1>1, <1>2

LEMMA SendersApart ==
  ASSUME TableOK, MessagesOK, NEW s, SendersKeep(s)
  PROVE  \A a, b \in Senders :
           sender'[a].at # "idle" /\ sender'[b].at # "idle" /\ sender'[a].packet = sender'[b].packet => a = b
<1> SUFFICES ASSUME NEW a \in Senders, NEW b \in Senders, sender'[a].at # "idle", sender'[b].at # "idle",
                    sender'[a].packet = sender'[b].packet
             PROVE  a = b
  OBVIOUS
<1>1. \A t \in Senders : sender[t].at # "idle" => sender[t].packet \in 1 .. sends
  BY DEF TableOK, SendersOK, SenderFine
<1>2. sends \in Nat
  BY DEF TableOK, NatTypeOK
<1>3. \A t \in Senders : sender[t].at # "idle" => sender[t].packet # sends + 1
  BY <1>1, <1>2
<1> QED BY <1>3 DEF MessagesOK, SendersKeep

\* A step that moves no message.
LEMMA MessagesStay ==
  ASSUME TableOK, TableOK', MessagesOK, sends <= sends', NEW s, SendersKeep(s),
         Len(natConns) <= Len(natConns'),
         \A c \in 1 .. Len(natConns) :
           natConns'[c].key = natConns[c].key /\ Passed(c)' = Passed(c),
         \A c \in 1 .. Len(natConns') : c \notin 1 .. Len(natConns) => Passed(c)' = << >>
  PROVE  MessagesOK'
<1>1. \A m \in Messages : Sent(m) => Sent(m)'
  BY StillSent
<1>2. ASSUME NEW c \in 1 .. Len(natConns'), NEW i \in 1 .. Len(Passed(c)')
      PROVE  c \in 1 .. Len(natConns) /\ Passed(c)' = Passed(c) /\ i \in 1 .. Len(Passed(c))
  <2>1. CASE c \in 1 .. Len(natConns)
    BY <2>1
  <2>2. CASE c \notin 1 .. Len(natConns)
    BY <2>2
  <2> QED BY <2>1, <2>2
<1>3. ASSUME NEW c \in 1 .. Len(natConns'), NEW i \in 1 .. Len(Passed(c)')
      PROVE  (Passed(c)')[i].key = natConns'[c].key /\ Sent(Passed(c)[i])'
  <2>1. c \in 1 .. Len(natConns) /\ i \in 1 .. Len(Passed(c)) /\ (Passed(c)')[i] = Passed(c)[i]
    BY <1>2
  <2>2. PICK m \in Messages : m = Passed(c)[i]
    BY <2>1, PassedType DEF TableOK
  <2>3. m.key = natConns[c].key /\ Sent(m)
    BY <2>1, <2>2 DEF MessagesOK
  <2>4. Sent(m)' /\ m = (Passed(c)')[i]
    BY <1>1, <2>1, <2>2, <2>3
  <2> QED BY <2>1, <2>3, <2>4 DEF Sent
<1>4. ASSUME NEW c \in 1 .. Len(natConns'), NEW d \in 1 .. Len(natConns'),
             NEW i \in 1 .. Len(Passed(c)'), NEW j \in 1 .. Len(Passed(d)')
      PROVE  /\ (Passed(c)')[i].packet = (Passed(d)')[j].packet => c = d /\ i = j
             /\ c = d /\ i < j /\ (Passed(c)')[i].from = (Passed(c)')[j].from =>
                  (Passed(c)')[i].packet < (Passed(c)')[j].packet
  <2>1. /\ c \in 1 .. Len(natConns) /\ Passed(c)' = Passed(c) /\ i \in 1 .. Len(Passed(c))
        /\ d \in 1 .. Len(natConns) /\ Passed(d)' = Passed(d) /\ j \in 1 .. Len(Passed(d))
    BY <1>2
  <2> QED BY <2>1 DEF MessagesOK
<1>5. \A a, b \in Senders :
        sender'[a].at # "idle" /\ sender'[b].at # "idle" /\ sender'[a].packet = sender'[b].packet => a = b
  BY SendersApart
<1> QED BY <1>3, <1>4, <1>5 DEF MessagesOK

\* A sender goes on, or is idle again: nobody takes a new packet.
LEMMA KeepsPacket ==
  ASSUME NatTypeOK, NEW s \in Senders, NEW r \in SenderRecords, sender' = [sender EXCEPT ![s] = r],
         r.at # "idle" => sender[s].at # "idle" /\ r.packet = sender[s].packet
  PROVE  SendersKeep(s)
<1>1. sender'[s] = r /\ \A t \in Senders : t # s => sender'[t] = sender[t]
  BY StateTypes
<1> QED BY <1>1 DEF SendersKeep

\* A message is put into a queue by the sender that has it.
LEMMA MessagesEnqueue ==
  ASSUME TableOK, MessagesOK, NEW s \in Senders, Enqueue(s)
  PROVE  MessagesOK'
<1>1. TableOK' /\ NatTypeOK /\ SendersOK
  BY TableEnqueue DEF TableOK
<1>2. /\ sender[s].at = "send" /\ sender' = [sender EXCEPT ![s] = IdleSender] /\ sends' = sends
  BY DEF Enqueue
<1>3. /\ sender[s].conn \in 1 .. Len(natConns) /\ natConns[sender[s].conn].key = sender[s].key
      /\ sender[s].key \in NatSources /\ sender[s].packet \in 1 .. sends /\ sends \in Nat
  BY <1>1, <1>2, StateTypes DEF SendersOK, SenderFine
<1>4. PICK c \in 1 .. Len(natConns) : c = sender[s].conn
  BY <1>3
<1>5. PICK m \in Messages : m = Message(s)
  BY TableEnqueue
<1>6. m.from = s /\ m.packet = sender[s].packet /\ m.key = natConns[c].key /\ m.packet \in 1 .. sends
  BY <1>3, <1>4, <1>5 DEF Message
<1>7. /\ Len(natConns') = Len(natConns)
      /\ natConns'[c].data = Append(natConns[c].data, m) /\ natConns'[c].got = natConns[c].got
      /\ \A d \in 1 .. Len(natConns) : natConns'[d].key = natConns[d].key /\ (d # c => natConns'[d] = natConns[d])
  BY <1>4, <1>5, TableEnqueue
<1>8. /\ Passed(c) \in Seq(Messages) /\ Len(Passed(c)) \in Nat
      /\ natConns[c].got \in Seq(Messages) /\ natConns[c].data \in Seq(Messages)
  BY <1>1, PassedType
<1>9. Passed(c)' = Append(Passed(c), m)
  <2>1. Passed(c)' = natConns[c].got \o Append(natConns[c].data, m)
    BY <1>7 DEF Passed
  <2>2. natConns[c].got \o Append(natConns[c].data, m) = Append(natConns[c].got \o natConns[c].data, m)
    BY <1>8, PutBehind
  <2> QED BY <2>1, <2>2 DEF Passed
<1>10. \A d \in 1 .. Len(natConns) : d # c => Passed(d)' = Passed(d)
  BY <1>7 DEF Passed
\* A message was there before, or it is the last one of the connection.
<1>11. ASSUME NEW d \in 1 .. Len(natConns'), NEW i \in 1 .. Len(Passed(d)')
       PROVE  /\ d \in 1 .. Len(natConns)
              /\ \/ i \in 1 .. Len(Passed(d)) /\ (Passed(d)')[i] = Passed(d)[i]
                 \/ d = c /\ i = Len(Passed(c)) + 1 /\ (Passed(d)')[i] = m
  <2>1. CASE d # c
    BY <1>7, <1>10, <2>1
  <2>2. CASE d = c
    <3> DEFINE new == Append(Passed(c), m)
    <3>1. /\ Len(new) = Len(Passed(c)) + 1 /\ new[Len(Passed(c)) + 1] = m
          /\ \A h \in 1 .. Len(Passed(c)) : new[h] = Passed(c)[h]
      BY <1>8, AppendProperties
    <3> HIDE DEF new
    <3>2. Passed(d)' = new
      BY <1>9, <2>2 DEF new
    <3> QED BY <1>7, <1>8, <2>2, <3>1, <3>2
  <2> QED BY <2>1, <2>2
\* The new message is new, and the last one of its sender.
<1>12. ASSUME NEW d \in 1 .. Len(natConns), NEW i \in 1 .. Len(Passed(d))
       PROVE  /\ Passed(d)[i].packet # m.packet /\ Passed(d)[i].key = natConns[d].key
              /\ Passed(d)[i].from = m.from => Passed(d)[i].packet < m.packet
  BY <1>2, <1>6 DEF MessagesOK, Sent
<1>13. sender'[s].at = "idle" /\ \A t \in Senders : t # s => sender'[t] = sender[t]
  BY <1>1, <1>2, IdleIsSender, StateTypes
<1>14. SendersKeep(s)
  BY <1>13 DEF SendersKeep
<1>15. \A x \in Messages : Sent(x) => Sent(x)'
  BY <1>1, <1>2, <1>3, <1>14, StillSent
<1>16. Sent(m)'
  <2>1. ASSUME NEW t \in Senders, sender'[t].at # "idle"
        PROVE  m.packet # sender'[t].packet /\ (m.from = t => m.packet < sender'[t].packet)
    <3>1. t # s /\ sender'[t] = sender[t]
      BY <1>13, <2>1
    <3> QED BY <1>2, <1>6, <2>1, <3>1 DEF MessagesOK
  <2> QED BY <1>2, <1>3, <1>6, <2>1 DEF Sent
<1>17. ASSUME NEW d \in 1 .. Len(natConns'), NEW i \in 1 .. Len(Passed(d)')
       PROVE  (Passed(d)')[i].key = natConns'[d].key /\ Sent(Passed(d)[i])'
  <2>1. PICK x \in Messages : x = (Passed(d)')[i] /\ x.key = natConns'[d].key /\ Sent(x)'
    <3>1. CASE i \in 1 .. Len(Passed(d)) /\ (Passed(d)')[i] = Passed(d)[i]
      <4>1. PICK x \in Messages : x = Passed(d)[i]
        BY <1>1, <1>11, <3>1, PassedType
      <4>2. x.key = natConns[d].key /\ Sent(x)
        BY <1>11, <3>1, <4>1 DEF MessagesOK
      <4> QED BY <1>7, <1>11, <1>15, <3>1, <4>1, <4>2
    <3>2. CASE d = c /\ (Passed(d)')[i] = m
      BY <1>6, <1>7, <1>16, <3>2
    <3> QED BY <1>11, <3>1, <3>2
  <2> QED BY <2>1 DEF Sent
<1>18. ASSUME NEW d \in 1 .. Len(natConns'), NEW e \in 1 .. Len(natConns'),
              NEW i \in 1 .. Len(Passed(d)'), NEW j \in 1 .. Len(Passed(e)')
       PROVE  /\ (Passed(d)')[i].packet = (Passed(e)')[j].packet => d = e /\ i = j
              /\ d = e /\ i < j /\ (Passed(d)')[i].from = (Passed(d)')[j].from =>
                   (Passed(d)')[i].packet < (Passed(d)')[j].packet
  <2> DEFINE x == (Passed(d)')[i]  y == (Passed(e)')[j]
  <2>1. d \in 1 .. Len(natConns) /\ e \in 1 .. Len(natConns)
    BY <1>11
  <2>2. CASE i \in 1 .. Len(Passed(d)) /\ x = Passed(d)[i] /\ j \in 1 .. Len(Passed(e)) /\ y = Passed(e)[j]
    BY <2>1, <2>2 DEF MessagesOK
  <2>3. CASE i \in 1 .. Len(Passed(d)) /\ x = Passed(d)[i] /\ e = c /\ j = Len(Passed(c)) + 1 /\ y = m
    BY <1>12, <2>1, <2>3
  <2>4. CASE d = c /\ i = Len(Passed(c)) + 1 /\ x = m /\ j \in 1 .. Len(Passed(e)) /\ y = Passed(e)[j]
    BY <1>8, <1>12, <2>1, <2>4
  <2>5. CASE d = c /\ i = Len(Passed(c)) + 1 /\ x = m /\ e = c /\ j = Len(Passed(c)) + 1 /\ y = m
    BY <1>8, <2>5
  <2> QED BY <1>11, <2>2, <2>3, <2>4, <2>5
<1>19. \A a, b \in Senders :
        sender'[a].at # "idle" /\ sender'[b].at # "idle" /\ sender'[a].packet = sender'[b].packet => a = b
  BY <1>14, SendersApart
<1> QED BY <1>17, <1>18, <1>19 DEF MessagesOK

LEMMA MessagesRead ==
  ASSUME TableOK, MessagesOK, NEW c \in 1 .. Len(natConns), HandlerRead(c)
  PROVE  MessagesOK'
<1>1. TableOK' /\ Len(natConns') = Len(natConns) /\ sender' = sender /\ sends' = sends /\ sends \in Nat
  BY TableHandlerRead DEF TableOK, NatTypeOK
<1>2. /\ natConns[c].data \in Seq(Messages) /\ natConns[c].got \in Seq(Messages) /\ natConns[c].data # << >>
      /\ natConns'[c].data = Tail(natConns[c].data)
      /\ natConns'[c].got = Append(natConns[c].got, Head(natConns[c].data))
      /\ \A d \in 1 .. Len(natConns) : natConns'[d].key = natConns[d].key /\ (d # c => natConns'[d] = natConns[d])
  BY TableHandlerRead
<1>3. Passed(c)' = Passed(c)
  BY <1>2, ReadFirst DEF Passed
<1>4. \A d \in 1 .. Len(natConns) : natConns'[d].key = natConns[d].key /\ Passed(d)' = Passed(d)
  BY <1>2, <1>3 DEF Passed
<1>5. \A t : SendersKeep(t)
  BY <1>1 DEF SendersKeep
<1> QED BY <1>1, <1>4, <1>5, MessagesStay

\* Steps that put nothing into a queue and read nothing of one.
LEMMA MessagesSame ==
  ASSUME TableOK, TableOK', MessagesOK, SameQueues, sends' = sends, NEW s, SendersKeep(s)
  PROVE  MessagesOK'
<1>1. sends <= sends' /\ Len(natConns) <= Len(natConns') /\ Len(natConns') = Len(natConns)
  BY StateTypes DEF TableOK, SameQueues
<1>2. \A d \in 1 .. Len(natConns) : natConns'[d].key = natConns[d].key /\ Passed(d)' = Passed(d)
  BY DEF SameQueues, Passed
<1> QED BY <1>1, <1>2, MessagesStay

LEMMA MessagesLookup ==
  ASSUME TableOK, MessagesOK, NEW s \in Senders, NEW k \in NatSources, NEW p \in 1 .. sends',
         sends' \in Nat, sends <= sends', Lookup(s, k, p), UNCHANGED <<time, natCtxDone, ex>>,
         \/ sender[s].at # "idle" /\ p = sender[s].packet
         \/ p = sends + 1 /\ sends' = sends + 1
  PROVE  MessagesOK'
<1>1. /\ TableOK' /\ Len(natConns) <= Len(natConns')
      /\ \A c \in 1 .. Len(natConns) :
           /\ natConns'[c].key = natConns[c].key
           /\ natConns'[c].data = natConns[c].data /\ natConns'[c].got = natConns[c].got
      /\ \A c \in 1 .. Len(natConns') : c \notin 1 .. Len(natConns) =>
           natConns'[c].data = << >> /\ natConns'[c].got = << >>
      /\ sender'[s].packet = p /\ sender'[s].at # "idle" /\ \A t \in Senders : t # s => sender'[t] = sender[t]
  BY TableLookup
<1>2. SendersKeep(s)
  BY <1>1 DEF SendersKeep
<1>3. \A c \in 1 .. Len(natConns) : natConns'[c].key = natConns[c].key /\ Passed(c)' = Passed(c)
  BY <1>1 DEF Passed
<1>4. << >> \o << >> = << >>
  OBVIOUS
<1>5. \A c \in 1 .. Len(natConns') : c \notin 1 .. Len(natConns) => Passed(c)' = << >>
  BY <1>1, <1>4 DEF Passed
<1> QED BY <1>1, <1>2, <1>3, <1>5, MessagesStay

LEMMA MessagesStep == NatIInv /\ [NatNext]_natVars => MessagesOK'
<1> SUFFICES ASSUME NatIInv, [NatNext]_natVars PROVE MessagesOK'
  OBVIOUS
<1>1. TableOK /\ MessagesOK /\ NatTypeOK /\ SendersOK /\ TableOK' /\ sends \in Nat
  BY TableStep DEF NatIInv, TableOK, NatTypeOK
<1>2. ASSUME NEW s \in Senders, NewPacket(s) PROVE MessagesOK'
  <2>1. PICK k \in NatSources : Lookup(s, k, sends + 1)
    BY <1>2 DEF NewPacket
  <2>2. sends' = sends + 1 /\ UNCHANGED <<time, natCtxDone, ex>>
    BY <1>2 DEF NewPacket
  <2>3. sends' \in Nat /\ sends <= sends' /\ sends + 1 \in 1 .. sends'
    BY <1>1, <2>2
  <2> QED BY <1>1, <2>1, <2>2, <2>3, MessagesLookup
<1>3. ASSUME NEW s \in Senders, Retry(s) PROVE MessagesOK'
  <2>1. sender[s].at = "again" /\ UNCHANGED <<time, natCtxDone, ex, sends>>
    BY <1>3 DEF Retry
  <2>2. CASE natCtxDone
    <3>1. sender' = [sender EXCEPT ![s] = IdleSender] /\ natConns' = natConns
      BY <1>3, <2>2 DEF Retry
    <3>2. SendersKeep(s)
      BY <1>1, <3>1, IdleIsSender, KeepsPacket
    <3>3. SameQueues
      BY <3>1 DEF SameQueues
    <3> QED BY <1>1, <2>1, <3>2, <3>3, MessagesSame
  <2>3. CASE ~natCtxDone
    <3>1. Lookup(s, sender[s].key, sender[s].packet)
      BY <1>3, <2>3 DEF Retry
    <3>2. PICK k \in NatSources, p \in 1 .. sends' :
            sender[s].at # "idle" /\ k = sender[s].key /\ p = sender[s].packet
      BY <1>1, <2>1 DEF SendersOK, SenderFine
    <3>3. sends' \in Nat /\ sends <= sends' /\ UNCHANGED <<time, natCtxDone, ex>>
      BY <1>1, <2>1
    <3>4. Lookup(s, k, p)
      BY <3>1, <3>2
    <3> QED BY <1>1, <3>2, <3>3, <3>4, MessagesLookup
  <2> QED BY <2>2, <2>3
<1>4. ASSUME NEW s \in Senders, NEW at \in {"check", "send", "again"}, sender' = [sender EXCEPT ![s].at = at],
             sender[s].at \in {"init", "check"}
      PROVE  SendersKeep(s)
  <2> DEFINE q == [sender[s] EXCEPT !.at = at]
  <2>1. at \in {"idle", "init", "check", "send", "again"}
    OBVIOUS
  <2>2. q \in SenderRecords /\ q.packet = sender[s].packet /\ sender' = [sender EXCEPT ![s] = q]
    BY <1>1, <1>4, <2>1, SenderAt
  <2> HIDE DEF q
  <2> QED BY <1>1, <1>4, <2>2, KeepsPacket
<1>5. ASSUME NEW s \in Senders, InitConn(s) PROVE MessagesOK'
  <2>1. SendersKeep(s) /\ sends' = sends
    BY <1>4, <1>5 DEF InitConn
  <2> QED BY <1>1, <1>5, <2>1, TableInitConn, MessagesSame
<1>6. ASSUME NEW s \in Senders, CheckDone(s) PROVE MessagesOK'
  <2>1. SendersKeep(s) /\ sends' = sends
    BY <1>4, <1>6 DEF CheckDone
  <2> QED BY <1>1, <1>6, <2>1, TableCheckDone, MessagesSame
<1>7. ASSUME sender' = sender PROVE \A s : SendersKeep(s)
  BY <1>7 DEF SendersKeep
<1>8. ASSUME NEW c \in 1 .. Len(natConns), HandlerReturns(c) \/ HandlerDeletes(c) PROVE MessagesOK'
  <2>1. sender' = sender /\ sends' = sends
    BY <1>8 DEF HandlerReturns, HandlerDeletes
  <2>2. SameQueues
    BY <1>1, <1>8, TableHandlerReturns, TableHandlerDeletes
  <2> QED BY <1>1, <1>7, <2>1, <2>2, MessagesSame
<1>9. CASE Cancel
  <2>1. sender' = sender /\ sends' = sends /\ SameQueues
    BY <1>1, <1>9, TableCancel DEF Cancel
  <2> QED BY <1>1, <1>7, <2>1, MessagesSame
<1>10. CASE NatTick \/ UNCHANGED natVars
  <2>1. sender' = sender /\ sends' = sends /\ SameQueues
    BY <1>10 DEF NatTick, natVars, SameQueues
  <2> QED BY <1>1, <1>7, <2>1, MessagesSame
<1>11. ASSUME NEW c \in DOMAIN natConns, HandlerStep(c) PROVE MessagesOK'
  <2>1. c \in 1 .. Len(natConns)
    BY <1>1, StateTypes
  <2> QED BY <1>1, <1>8, <1>11, <2>1, MessagesRead DEF HandlerStep
<1>12. ASSUME NEW s \in Senders, SenderStep(s) PROVE MessagesOK'
  BY <1>1, <1>3, <1>5, <1>6, <1>12, MessagesEnqueue DEF SenderStep
<1> QED BY <1>2, <1>9, <1>10, <1>11, <1>12 DEF NatNext

LEMMA NatStarts == NatInit => NatIInv
<1> SUFFICES ASSUME NatInit PROVE NatIInv
  OBVIOUS
<1>1. /\ nat = << >> /\ time = 0 /\ natCtxDone = FALSE /\ ex \in BOOLEAN /\ natConns = << >>
      /\ sender = [s \in Senders |-> IdleSender] /\ sends = 0
  BY DEF NatInit
<1>2. nat \in Seq(Entries(NatSources)) /\ natConns \in Seq(ConnRecords) /\ Len(nat) = 0 /\ Len(natConns) = 0
  BY <1>1
<1>3. NatTypeOK
  <2>1. Proper(nat)
    BY <1>2 DEF Proper
  <2>2. sender \in [Senders -> SenderRecords]
    BY <1>1, IdleIsSender
  <2> QED BY <1>1, <1>2, <2>1, <2>2 DEF NatTypeOK
<1>4. NewestInTable /\ OutIsClosed /\ HandlersEnd
  BY <1>2 DEF NewestInTable, OutIsClosed, HandlersEnd
<1>5. \A s \in Senders : sender[s].at = "idle"
  BY <1>1, IdleIsSender
<1>6. SendersOK
  BY <1>5 DEF SendersOK, SenderFine
<1>7. MessagesOK
  BY <1>2, <1>5 DEF MessagesOK
<1> QED BY <1>3, <1>4, <1>6, <1>7 DEF NatIInv, TableOK

\* The table and the messages of udpnat: an entry is the newest connection of
\* its source, what is out of the table was closed by onEvict, a handler that
\* has ended had a writer to close, and what a connection was given is its
\* senders' packets, each once and in their order.
THEOREM NatInvariance == NatSpec => []NatIInv
<1>1. NatIInv /\ [NatNext]_natVars => NatIInv'
  BY TableStep, MessagesStep DEF NatIInv
<1> QED BY <1>1, NatStarts, PTL DEF NatSpec

\* What a handler has read is the first part of what its connection was given.
LEMMA FirstPart ==
  ASSUME NEW g \in Seq(Messages), NEW q \in Seq(Messages), NEW i \in DOMAIN g
  PROVE  i \in 1 .. Len(g \o q) /\ (g \o q)[i] = g[i]
<1>1. i \in 1 .. Len(g) /\ Len(g) \in Nat /\ Len(q) \in Nat
  BY LenProperties
<1>2. i \in 1 .. Len(g) + Len(q) /\ i <= Len(g)
  BY <1>1
<1> DEFINE p == g \o q
<1>3. Len(p) = Len(g) + Len(q) /\ p[i] = g[i]
  BY <1>2, ConcatProperties
<1> HIDE DEF p
<1> QED BY <1>2, <1>3 DEF p

LEMMA GotFirst ==
  ASSUME NatTypeOK, NEW c \in 1 .. Len(natConns), NEW i \in DOMAIN natConns[c].got
  PROVE  i \in 1 .. Len(Passed(c)) /\ natConns[c].got[i] = Passed(c)[i]
<1>1. PICK g \in Seq(Messages), q \in Seq(Messages) : g = natConns[c].got /\ q = natConns[c].data
  BY PassedType
<1>2. i \in 1 .. Len(g \o q) /\ (g \o q)[i] = g[i]
  BY <1>1, FirstPart
<1>3. g \o q = Passed(c)
  BY <1>1 DEF Passed
<1> QED BY <1>1, <1>2, <1>3

\* udpnat: an open connection is in the table, a packet reaches one handler
\* of its source, in its sender's order, and no writer is left open by a
\* handler that has ended, for any number of sources and of senders.
THEOREM NatTableInvHolds == NatSpec => []NatTableInv
<1>1. NatIInv => NatTableInv
  <2> SUFFICES ASSUME NatIInv PROVE NatTableInv
    OBVIOUS
  <2>1. /\ TableOK /\ MessagesOK /\ NatTypeOK /\ NewestInTable /\ OutIsClosed /\ HandlersEnd
        /\ DOMAIN natConns = 1 .. Len(natConns)
    BY StateTypes DEF NatIInv, TableOK
  <2>2. ASSUME NEW c \in DOMAIN natConns, ~natConns[c].done PROVE InTable(c)
    <3>1. PICK i \in 1 .. Len(nat) : nat[i].value = c
      BY <2>1, <2>2 DEF OutIsClosed, ValuesOf
    <3> QED BY <2>1, <3>1 DEF NewestInTable, InTable
  <2>3. ASSUME NEW c \in DOMAIN natConns, NEW d \in DOMAIN natConns,
               NEW i \in DOMAIN natConns[c].got, NEW j \in DOMAIN natConns[d].got
        PROVE  /\ natConns[c].got[i].key = natConns[c].key
               /\ natConns[c].got[i].packet = natConns[d].got[j].packet => c = d /\ i = j
               /\ c = d /\ i < j /\ natConns[c].got[i].from = natConns[c].got[j].from
                    => natConns[c].got[i].packet < natConns[c].got[j].packet
    <3>1. i \in 1 .. Len(Passed(c)) /\ natConns[c].got[i] = Passed(c)[i]
      BY <2>1, GotFirst
    <3>2. j \in 1 .. Len(Passed(d)) /\ natConns[d].got[j] = Passed(d)[j]
      BY <2>1, GotFirst
    <3> QED BY <2>1, <3>1, <3>2 DEF MessagesOK
  <2>4. ASSUME NEW c \in DOMAIN natConns, natConns[c].handler = "ended"
        PROVE  natConns[c].sourceClosed \/ (ex /\ natConns[c].late)
    BY <2>1, <2>4 DEF HandlersEnd
  <2> QED BY <2>2, <2>3, <2>4 DEF NatTableInv
<1> QED BY <1>1, NatInvariance, PTL

\* Why a connection that is open is closed by a step.
Reason(c) ==
  \/ natConns'[c].handler = "delete" \/ natConns[c].handler = "delete"
  \/ natCtxDone'
  \/ \E i \in DOMAIN nat : nat[i].value = c /\ Expired(NatOptions, nat[i], time)
  \/ \E d \in 1 .. c - 1 : natConns[d].key = natConns[c].key /\ natConns[d].done

\* A Delete of the key of a connection that is done, or is the one that is
\* closed: the entry it takes out is the newest one of the source.
LEMMA DeleteReason ==
  ASSUME TableOK, NEW cs \in Seq(ConnRecords), Len(cs) = Len(natConns), NEW b \in 1 .. Len(natConns),
         DeleteSource(cs, natConns[b].key),
         \A d \in 1 .. Len(natConns) : cs[d].done = natConns[d].done,
         natConns[b].done \/ natConns[b].handler = "delete",
         NEW c \in 1 .. Len(natConns), ~natConns[c].done, natConns'[c].done
  PROVE  Reason(c)
<1>1. NatTypeOK /\ NewestInTable /\ OutIsClosed
  BY DEF TableOK
<1>2. c \in ValuesOf(nat) /\ c \notin ValuesOf(nat')
  BY <1>1, DeleteFacts
<1>3. PICK x \in Items(nat) : x.value = c /\ x.key = natConns[b].key
  BY <1>1, <1>2, DeleteFacts
<1>4. PICK i \in 1 .. Len(nat) : nat[i] = x
  BY DEF Items
<1>5. natConns[c].key = natConns[b].key /\ b <= c
  BY <1>1, <1>3, <1>4 DEF NewestInTable
<1>6. CASE b = c
  BY <1>6 DEF Reason
<1>7. CASE b # c
  <2>1. natConns[b].done
    <3> SUFFICES ASSUME ~natConns[b].done PROVE FALSE
      OBVIOUS
    <3>1. PICK j \in 1 .. Len(nat) : nat[j].value = b
      BY <1>1 DEF OutIsClosed, ValuesOf
    <3>2. c <= b
      BY <1>1, <1>5, <3>1 DEF NewestInTable
    <3> QED BY <1>1, <1>5, <1>7, <3>2, StateTypes
  <2>2. b \in 1 .. c - 1
    BY <1>1, <1>5, <1>7, StateTypes
  <2> QED BY <1>5, <2>1, <2>2 DEF Reason
<1> QED BY <1>6, <1>7

LEMMA LookupReason ==
  ASSUME TableOK, NEW s \in Senders, NEW k \in NatSources, NEW p, Lookup(s, k, p),
         NEW c \in 1 .. Len(natConns), ~natConns[c].done, natConns'[c].done
  PROVE  Reason(c)
<1>1. NatTypeOK /\ NewestInTable /\ DOMAIN nat = 1 .. Len(nat)
  BY LenProperties, StateTypes DEF TableOK
<1>2. c \in ValuesOf(nat) /\ c \notin ValuesOf(nat')
  BY <1>1, LookupFacts
<1>3. PICK x \in Items(nat) : x.value = c /\ Expired(NatOptions, x, time)
  BY <1>1, <1>2, LookupFacts
<1>4. PICK i \in 1 .. Len(nat) : nat[i] = x
  BY DEF Items
<1> QED BY <1>1, <1>3, <1>4 DEF Reason

\* udpnat: no sender's Delete, and no handler's, closes the connection of a
\* source that had no other before.
THEOREM ClosedForAReasonHolds == NatSpec => ClosedForAReason
<1>1. NatIInv /\ [NatNext]_natVars =>
        [\A c \in DOMAIN natConns : ~natConns[c].done /\ natConns'[c].done => Reason(c)]_natVars
  <2> SUFFICES ASSUME NatIInv, [NatNext]_natVars,
                      NEW c \in DOMAIN natConns, ~natConns[c].done, natConns'[c].done
               PROVE  Reason(c)
    OBVIOUS
  <2>1. /\ TableOK /\ NatTypeOK /\ SendersOK /\ natConns \in Seq(ConnRecords)
        /\ DOMAIN natConns = 1 .. Len(natConns) /\ c \in 1 .. Len(natConns)
        /\ \A d \in 1 .. Len(natConns) : natConns[d] \in ConnRecords
    BY StateTypes DEF NatIInv, TableOK
  <2>2. ASSUME NEW s \in Senders, NewPacket(s) PROVE Reason(c)
    BY <2>1, <2>2, LookupReason DEF NewPacket
  <2>3. ASSUME NEW s \in Senders, Retry(s) PROVE Reason(c)
    <3>1. sender[s].at = "again" /\ natConns' # natConns
      BY <2>3 DEF Retry
    <3>2. Lookup(s, sender[s].key, sender[s].packet)
      BY <2>3, <3>1 DEF Retry
    <3>3. sender[s].key \in NatSources
      BY <2>1, <3>1 DEF SendersOK, SenderFine
    <3> QED BY <2>1, <3>2, <3>3, LookupReason
  <2>4. ASSUME NEW s \in Senders, InitConn(s) PROVE Reason(c)
    <3>1. natConns'[c].done = natConns[c].done
      BY <2>1, <2>4 DEF InitConn, ConnRecords
    <3> QED BY <3>1
  <2>5. ASSUME NEW s \in Senders, CheckDone(s) PROVE Reason(c)
    <3>1. sender[s].at = "check" /\ natConns' # natConns
      BY <2>5 DEF CheckDone
    <3>2. natConns[sender[s].conn].done /\ DeleteSource(natConns, sender[s].key)
      BY <2>5, <3>1 DEF CheckDone
    <3>3. sender[s].conn \in 1 .. Len(natConns) /\ natConns[sender[s].conn].key = sender[s].key
      BY <2>1, <3>1 DEF SendersOK, SenderFine
    <3> QED BY <2>1, <3>2, <3>3, DeleteReason
  <2>6. ASSUME NEW s \in Senders, Enqueue(s) PROVE Reason(c)
    <3>1. natConns'[c].done = natConns[c].done
      BY <2>1, <2>6 DEF Enqueue, ConnRecords
    <3> QED BY <3>1
  <2>7. ASSUME NEW d \in 1 .. Len(natConns), HandlerRead(d) PROVE Reason(c)
    <3>1. natConns'[c].done = natConns[c].done
      BY <2>1, <2>7 DEF HandlerRead, ConnRecords
    <3> QED BY <3>1
  <2>8. ASSUME NEW d \in 1 .. Len(natConns), HandlerReturns(d) PROVE Reason(c)
    <3>1. CASE c = d
      <4>1. natConns'[c].handler = "delete"
        BY <2>1, <2>8, <3>1 DEF HandlerReturns, closeConn, ConnRecords
      <4> QED BY <4>1 DEF Reason
    <3>2. CASE c # d
      <4>1. natConns'[c].done = natConns[c].done
        BY <2>1, <2>8, <3>2 DEF HandlerReturns, closeConn
      <4> QED BY <4>1
    <3> QED BY <3>1, <3>2
  <2>9. ASSUME NEW d \in 1 .. Len(natConns), HandlerDeletes(d) PROVE Reason(c)
    <3> DEFINE r == [natConns[d] EXCEPT !.handler = "ended"]  cs == [natConns EXCEPT ![d] = r]
    <3>1. natConns[d].handler = "delete" /\ DeleteSource(cs, natConns[d].key)
      BY <2>9 DEF HandlerDeletes
    <3>2. r \in ConnRecords /\ r.done = natConns[d].done
      BY <2>1, Zenon DEF ConnRecords
    <3> HIDE DEF r
    <3>3. /\ cs \in Seq(ConnRecords) /\ Len(cs) = Len(natConns) /\ cs[d] = r
          /\ \A e \in 1 .. Len(natConns) : e # d => cs[e] = natConns[e]
      BY <2>1, <3>2, OneConn
    <3> HIDE DEF cs
    <3>4. \A e \in 1 .. Len(natConns) : cs[e].done = natConns[e].done
      BY <3>2, <3>3
    <3> QED BY <2>1, <3>1, <3>3, <3>4, DeleteReason
  <2>10. CASE Cancel
    BY <2>10 DEF Cancel, Reason
  <2>11. CASE NatTick \/ UNCHANGED natVars
    BY <2>11 DEF NatTick, natVars
  <2> QED BY <2>1, <2>2, <2>3, <2>4, <2>5, <2>6, <2>7, <2>8, <2>9, <2>10, <2>11
          DEF NatNext, SenderStep, HandlerStep
<1>2. [][\A c \in DOMAIN natConns : ~natConns[c].done /\ natConns'[c].done => Reason(c)]_natVars =>
        ClosedForAReason
  BY PTL DEF ClosedForAReason, Reason
<1> QED BY <1>1, <1>2, NatInvariance, PTL DEF NatSpec
=============================================================================
