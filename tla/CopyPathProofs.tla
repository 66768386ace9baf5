---------------------------- MODULE CopyPathProofs ----------------------------
(***************************************************************************)
(* One direction of a copy, for any chains of wrappers over sockets.       *)
(*                                                                         *)
(* What a counter should have counted depends on who calls it: the layer   *)
(* itself, when a loop reads or writes above it, or the session, which     *)
(* took its functions when it unwrapped it.  So the invariant says which   *)
(* counters the session has, that a loop which bypasses layers bypasses    *)
(* no other, and at each point of a loop what is still owed.  For the      *)
(* order it says that the units which have left are those of the first     *)
(* layers, and that the units before each of them are the earlier ones.    *)
(***************************************************************************)
EXTENDS CopyPath, TLAPS, SequenceTheorems, FiniteSetTheorems, WellFoundedInduction

\* A unit: its layer and its number there.
Unit == Nat \X Nat

\* The types, of the histories too.
PathState ==
  /\ PathTypeOK
  /\ cacheTaken \in [At(source, "cached") -> BOOLEAN]
  /\ held \in Seq(Unit) /\ delivered \in Seq(Unit) /\ handed \in Nat
  /\ countedRead \in [At(source, "counter") -> Nat]
  /\ countedWrite \in [At(destination, "counter") -> Nat]

\* A buffer is nil, or holds what is left of the layer's units.
Rest(l, s) == [i \in 1 .. CachedUnits - s |-> <<l, s + i>>]
BuffersHoldRests ==
  \A l \in At(source, "cached") :
    buffer[l] = << >> \/ \E s \in 0 .. CachedUnits : buffer[l] = <<Rest(l, s)>>

\* The session calls each counter above reader and writer once, and no other;
\* a cached layer above reader holds nothing any more.
Unwrapped ==
  /\ readCounters = [l \in At(source, "counter") |-> IF l < reader THEN 1 ELSE 0]
  /\ writeCounters = [l \in At(destination, "counter") |-> IF l < writer THEN 1 ELSE 0]
  /\ \A l \in At(source, "cached") : l < reader => buffer[l] = << >>

\* A loop that does not call the layers has no counter among them, and none
\* but the pool loop has a buffer above the socket.
NoCounterFrom(chain, l) == \A j \in At(chain, "counter") : j < l
PathFits ==
  pc \in {"read", "write", "transfer"} =>
    /\ path # "none"
    /\ path \in {"splice", "wait", "vectorised"} => NoCounterFrom(source, reader)
    /\ path \in {"splice", "vectorised"} => NoCounterFrom(destination, writer)
    /\ path # "pool" => \A l \in At(source, "cached") : buffer[l] = << >>

\* The units of a sequence from below layer l.
Below(d, l) == Cardinality({i \in 1 .. Len(d) : d[i][1] > l})

Owed(l, layer, k) == IF l < layer THEN k ELSE 0

\* What each counter has counted, and what the session still has to add.
CountedSoFar ==
  /\ pc \in {"unwrap", "cached", "session", "path", "read"} =>
       /\ \A l \in At(source, "counter") : countedRead[l] = Below(delivered, l)
       /\ \A l \in At(destination, "counter") : countedWrite[l] = Len(delivered)
  /\ pc \in {"unwrap", "session", "path", "read"} => held = << >>
  /\ pc = "cached" => source[reader] = "cached" /\ \A i \in 1 .. Len(held) : held[i][1] = reader
  /\ pc = "write" =>
       /\ \A l \in At(source, "counter") :
            countedRead[l] + Owed(l, reader, Len(held)) = Below(delivered \o held, l)
       /\ \A l \in At(destination, "counter") : countedWrite[l] = Len(delivered)
  /\ pc = "transfer" =>
       /\ \A l \in At(source, "counter") :
            countedRead[l] + Owed(l, reader, Len(held)) = Below(delivered, l)
       /\ \A l \in At(destination, "counter") :
            countedWrite[l] + Owed(l, writer, Len(held)) = Len(delivered)

\* Units of the layers L, of which there are a[l] each and t[l] are gone.
UnitsOf(L, m) == {<<l, i>> : l \in L, i \in 1 .. m}
GoneOf(L, m, t) == {u \in UnitsOf(L, m) : u[2] <= t[u[1]]}
BeforeOf(L, m, a, v) == {u \in UnitsOf(L, m) : u[2] <= a[u[1]] /\ Earlier(u, v)}
OrderOf(L, m, a, t, g) ==
  /\ {g[i] : i \in 1 .. Len(g)} = GoneOf(L, m, t)
  /\ \A k, l \in L : k < l /\ t[l] > 0 => t[k] = a[k]
  /\ \A i \in 1 .. Len(g) : {g[j] : j \in 1 .. i - 1} = BeforeOf(L, m, a, g[i])

\* How many units of a layer have left it, and the sequence of all that have.
\* They are the units of the first layers, and no layer is begun before those
\* above it are done.
Layers == At(source, "cached") \cup {Len(source)}
Left(l) == IF l = Len(source) THEN arrived
           ELSE IF buffer[l] = << >> THEN CachedUnits ELSE CachedUnits - Len(buffer[l][1])
Gone == delivered \o (IF pc = "transfer" THEN << >> ELSE held)
Alls == [l \in Layers |-> All(l)]
Lefts == [l \in Layers |-> Left(l)]
Frontier == closing = "no" => OrderOf(Layers, MaxUnits + Cached, Alls, Lefts, Gone)

PathIInv ==
  /\ PathState /\ BuffersHoldRests /\ Unwrapped /\ PathFits /\ CountedSoFar /\ Frontier
  /\ ResultIsDelivered

-----------------------------------------------------------------------------
\* A set of numbers has a least one.
LEMMA LeastOf ==
  ASSUME NEW S, S \subseteq Nat, S # {}
  PROVE  Min(S) \in S /\ \A y \in S : Min(S) <= y
<1>1. PICK x \in S : \A y \in S : ~(<<y, x>> \in OpToRel(<, Nat))
  BY NatLessThanWellFounded, WFMin
<1>2. \A y \in S : ~(y < x)
  BY <1>1, Zenon DEF OpToRel
<1>3. \A y \in S : x <= y
  BY <1>2
<1> QED BY <1>3 DEF Min

\* The first of the numbers from l to m in a set.
LEMMA FirstOf ==
  ASSUME NEW l \in Nat, NEW m \in Nat, NEW S, S \subseteq l .. m, S # {}
  PROVE  Min(S) \in S /\ Min(S) \in l .. m /\ \A j \in l .. Min(S) - 1 : j \notin S
<1>1. S \subseteq Nat
  OBVIOUS
<1>2. Min(S) \in S /\ \A y \in S : Min(S) <= y
  BY <1>1, LeastOf
<1> HIDE DEF Min
<1>3. Min(S) \in l .. m
  BY <1>2
<1>4. \A j \in l .. Min(S) - 1 : ~(Min(S) <= j)
  BY <1>3
<1> QED BY <1>2, <1>3, <1>4

\* The last layer of a chain is a socket, the others are not.
LEMMA ChainIs ==
  ASSUME NEW c, IsChain(c)
  PROVE  /\ Len(c) \in Nat \ {0} /\ c[Len(c)] \in Sockets
         /\ \A k \in Wrappers : \A l \in At(c, k) : l \in 1 .. Len(c) - 1 /\ c[l] = k
<1>1. Len(c) \in Nat \ {0} /\ c[Len(c)] \in Sockets
  BY EmptySeq, LenProperties DEF IsChain
<1>2. Wrappers \cap Sockets = {}
  BY DEF Wrappers, Sockets
<1> QED BY <1>1, <1>2 DEF At

-----------------------------------------------------------------------------
\* The chains of the copy.
LEMMA Chains ==
  ASSUME PathTypeOK
  PROVE  /\ Len(source) \in Nat \ {0} /\ source[Len(source)] \in Sockets
         /\ \A k \in Wrappers : \A l \in At(source, k) : l \in 1 .. Len(source) - 1 /\ source[l] = k
         /\ Len(destination) \in Nat \ {0} /\ destination[Len(destination)] \in Sockets
         /\ \A k \in Wrappers : \A l \in At(destination, k) :
              l \in 1 .. Len(destination) - 1 /\ destination[l] = k
         /\ reader \in Nat /\ 1 <= reader /\ reader <= Len(source)
         /\ writer \in Nat /\ 1 <= writer /\ writer <= Len(destination)
<1>1. source \in Sources /\ destination \in Destinations
  BY DEF PathTypeOK
<1>2. reader \in 1 .. Len(source) /\ writer \in 1 .. Len(destination)
  BY Zenon DEF PathTypeOK
<1>3. IsChain(source) /\ IsChain(destination)
  BY <1>1, PathAssumption
<1>4. Len(source) \in Nat /\ Len(destination) \in Nat
  BY <1>3, ChainIs
<1> QED BY <1>2, <1>3, <1>4, ChainIs

\* Unwrapping stops at a layer that is neither a counter nor replaceable, and
\* passes such layers only.
LEMMA ReaderWalk ==
  ASSUME PathTypeOK
  PROVE  LET r == UnwrapCountReader(reader)
         IN  /\ r \in 1 .. Len(source) /\ reader <= r /\ ~SkipReader(r)
             /\ \A j \in reader .. r - 1 : SkipReader(j)
<1> DEFINE S == {j \in reader .. Len(source) : ~SkipReader(j)}
<1>1. reader \in Nat /\ reader >= 1 /\ Len(source) \in Nat /\ reader <= Len(source)
  BY Chains
<1>2. Len(source) \in S
  BY <1>1, Chains DEF SkipReader, ReaderReplaceable, Sockets
<1>3. Min(S) \in S /\ Min(S) \in reader .. Len(source) /\ \A j \in reader .. Min(S) - 1 : j \notin S
  <2> HIDE DEF S
  <2>1. S \subseteq reader .. Len(source) /\ S # {}
    BY <1>2 DEF S
  <2> QED BY <1>1, <2>1, FirstOf
<1>4. UnwrapCountReader(reader) = Min(S)
  BY DEF UnwrapCountReader, FirstNot
<1> DEFINE m == Min(S)
<1>5. ~SkipReader(m) /\ \A j \in reader .. m - 1 : j \in reader .. Len(source)
  BY <1>1, <1>3
<1>6. \A j \in reader .. m - 1 : SkipReader(j)
  BY <1>3, <1>5
<1> QED BY <1>1, <1>3, <1>4, <1>5, <1>6

LEMMA WriterWalk ==
  ASSUME PathTypeOK
  PROVE  LET w == UnwrapCountWriter(writer)
         IN  /\ w \in 1 .. Len(destination) /\ writer <= w /\ ~SkipWriter(w)
             /\ \A j \in writer .. w - 1 : SkipWriter(j)
<1> DEFINE S == {j \in writer .. Len(destination) : ~SkipWriter(j)}
<1>1. writer \in Nat /\ writer >= 1 /\ Len(destination) \in Nat /\ writer <= Len(destination)
  BY Chains
<1>2. Len(destination) \in S
  BY <1>1, Chains DEF SkipWriter, WriterReplaceable, Sockets
<1>3. Min(S) \in S /\ Min(S) \in writer .. Len(destination) /\ \A j \in writer .. Min(S) - 1 : j \notin S
  <2> HIDE DEF S
  <2>1. S \subseteq writer .. Len(destination) /\ S # {}
    BY <1>2 DEF S
  <2> QED BY <1>1, <2>1, FirstOf
<1>4. UnwrapCountWriter(writer) = Min(S)
  BY DEF UnwrapCountWriter, FirstNot
<1> DEFINE m == Min(S)
<1>5. ~SkipWriter(m) /\ \A j \in writer .. m - 1 : j \in writer .. Len(destination)
  BY <1>1, <1>3
<1>6. \A j \in writer .. m - 1 : SkipWriter(j)
  BY <1>3, <1>5
<1> QED BY <1>1, <1>3, <1>4, <1>5, <1>6

\* What can be reached below a layer is below replaceable layers only.
LEMMA ReadsAtIs ==
  ASSUME PathTypeOK, NEW kinds, ReadsAt(reader, kinds)
  PROVE  \A j \in reader .. Len(source) - 1 : ReaderReplaceable(j)
<1> DEFINE S == {j \in reader .. Len(source) : ~ReaderReplaceable(j)}
<1>1. reader \in Nat /\ Len(source) \in Nat /\ reader <= Len(source)
  BY Chains
<1>2. Len(source) \in S
  BY <1>1, Chains DEF ReaderReplaceable, Sockets
<1>3. \A j \in reader .. Min(S) - 1 : j \notin S
  <2> HIDE DEF S
  <2>1. S \subseteq reader .. Len(source) /\ S # {}
    BY <1>2 DEF S
  <2> QED BY <1>1, <2>1, FirstOf
<1>4. Min(S) = Len(source)
  BY DEF ReadsAt, FirstNot, Socket
<1> HIDE DEF S
<1>5. \A j \in reader .. Len(source) - 1 : j \notin S /\ j \in reader .. Len(source)
  BY <1>1, <1>3, <1>4
<1> QED BY <1>5 DEF S

LEMMA WritesAtIs ==
  ASSUME PathTypeOK, NEW kinds, WritesAt(writer, kinds)
  PROVE  \A j \in writer .. Len(destination) - 1 : WriterReplaceable(j)
<1> DEFINE S == {j \in writer .. Len(destination) : ~WriterReplaceable(j)}
<1>1. writer \in Nat /\ Len(destination) \in Nat /\ writer <= Len(destination)
  BY Chains
<1>2. Len(destination) \in S
  BY <1>1, Chains DEF WriterReplaceable, Sockets
<1>3. \A j \in writer .. Min(S) - 1 : j \notin S
  <2> HIDE DEF S
  <2>1. S \subseteq writer .. Len(destination) /\ S # {}
    BY <1>2 DEF S
  <2> QED BY <1>1, <2>1, FirstOf
<1>4. Min(S) = Len(destination)
  BY DEF WritesAt, FirstNot, Socket
<1> HIDE DEF S
<1>5. \A j \in writer .. Len(destination) - 1 : j \notin S /\ j \in writer .. Len(destination)
  BY <1>1, <1>3, <1>4
<1> QED BY <1>5 DEF S

\* Read goes down to the first cached layer that holds something.
LEMMA HolderIs ==
  ASSUME PathTypeOK
  PROVE  /\ Holder \in 1 .. Len(source) /\ reader <= Holder
         /\ Holder # Len(source) => source[Holder] = "cached" /\ buffer[Holder] \notin {<< >>, <<<< >>>>}
         /\ \A j \in reader .. Holder - 1 : source[j] = "cached" => buffer[j] \in {<< >>, <<<< >>>>}
<1> DEFINE Skip(l) == l < Len(source) /\ ~(source[l] = "cached" /\ buffer[l] \notin {<< >>, <<<< >>>>})
           S == {j \in reader .. Len(source) : ~Skip(j)}
<1>1. reader \in Nat /\ reader >= 1 /\ Len(source) \in Nat /\ reader <= Len(source)
  BY Chains
<1>2. Len(source) \in S
  BY <1>1
<1>3. Min(S) \in S /\ Min(S) \in reader .. Len(source) /\ \A j \in reader .. Min(S) - 1 : j \notin S
  <2> HIDE DEF S
  <2>1. S \subseteq reader .. Len(source) /\ S # {}
    BY <1>2 DEF S
  <2> QED BY <1>1, <2>1, FirstOf
<1>4. Holder = Min(S)
  BY DEF Holder, FirstNot, Socket
<1> HIDE DEF Min
<1>5. ~Skip(Holder) /\ \A j \in reader .. Holder - 1 : j \in reader .. Len(source)
  BY <1>1, <1>3, <1>4
<1>6. \A j \in reader .. Holder - 1 : Skip(j)
  BY <1>3, <1>4, <1>5
<1>7. Holder \in reader .. Len(source)
  BY <1>3, <1>4
<1> QED BY <1>1, <1>5, <1>6, <1>7
-----------------------------------------------------------------------------
\* Two sequences one after the other.
LEMMA Joined ==
  ASSUME NEW S, NEW d \in Seq(S), NEW e \in Seq(S)
  PROVE  /\ d \o e \in Seq(S) /\ Len(d) \in Nat /\ Len(e) \in Nat /\ Len(d \o e) = Len(d) + Len(e)
         /\ \A i \in 1 .. Len(d) : (d \o e)[i] = d[i]
         /\ \A i \in 1 .. Len(e) : (d \o e)[Len(d) + i] = e[i]
         /\ \A i \in 1 .. Len(d \o e) : i \in 1 .. Len(d) \/ \E j \in 1 .. Len(e) : i = Len(d) + j
<1>1. d \o e \in Seq(S) /\ Len(d) \in Nat /\ Len(e) \in Nat /\ Len(d \o e) = Len(d) + Len(e)
  BY ConcatProperties, LenProperties
<1>2. \A i \in 1 .. Len(d) : (d \o e)[i] = d[i]
  BY <1>1, ConcatProperties
<1>3. ASSUME NEW i \in 1 .. Len(e) PROVE (d \o e)[Len(d) + i] = e[i]
  <2>1. Len(d) + i \in 1 .. Len(d) + Len(e) /\ ~(Len(d) + i <= Len(d)) /\ (Len(d) + i) - Len(d) = i
    BY <1>1
  <2> QED BY <2>1, ConcatProperties
<1>4. ASSUME NEW i \in 1 .. Len(d \o e), i \notin 1 .. Len(d) PROVE \E j \in 1 .. Len(e) : i = Len(d) + j
  <2>1. i - Len(d) \in 1 .. Len(e) /\ i = Len(d) + (i - Len(d))
    BY <1>1, <1>4
  <2> QED BY <2>1
<1> QED BY <1>1, <1>2, <1>3, <1>4

LEMMA NothingJoined ==
  ASSUME NEW S, NEW d \in Seq(S)
  PROVE  << >> \in Seq(S) /\ Len(<< >>) = 0 /\ d \o << >> = d
BY ConcatEmptySeq, EmptySeq

\* A counter above a layer has counted the units from there as well.
LEMMA BelowGrows ==
  ASSUME NEW d \in Seq(Unit), NEW e \in Seq(Unit), NEW h \in Nat, \A i \in 1 .. Len(e) : e[i][1] = h,
         NEW l \in Nat
  PROVE  Below(d \o e, l) = Below(d, l) + Owed(l, h, Len(e))
<1> DEFINE D == {i \in 1 .. Len(d) : d[i][1] > l}
           E == IF l < h THEN Len(d) + 1 .. Len(d) + Len(e) ELSE {}
           F == {i \in 1 .. Len(d \o e) : (d \o e)[i][1] > l}
<1>1. /\ Len(d) \in Nat /\ Len(e) \in Nat /\ Len(d \o e) = Len(d) + Len(e)
      /\ \A i \in 1 .. Len(d) : (d \o e)[i] = d[i]
      /\ \A i \in 1 .. Len(e) : (d \o e)[Len(d) + i] = e[i]
  BY Joined
<1>2. \A i \in 1 .. Len(d \o e) : i \in 1 .. Len(d) \/ \E j \in 1 .. Len(e) : i = Len(d) + j
  BY Joined
<1> DEFINE m == Len(d)  q == Len(e)
<1> HIDE DEF m, q
<1>3. /\ IsFiniteSet(1 .. m) /\ IsFiniteSet(E) /\ Cardinality(E) = IF l < h THEN q ELSE 0
  <2>1. m \in Nat /\ q \in Nat
    BY <1>1 DEF m, q
  <2>2. /\ IsFiniteSet(m + 1 .. m + q)
        /\ Cardinality(m + 1 .. m + q) = IF m + 1 > m + q THEN 0 ELSE (m + q) - (m + 1) + 1
    <3>1. m + 1 \in Int /\ m + q \in Int
      BY <2>1
    <3> QED BY <3>1, FS_Interval
  <2>3. q = IF m + 1 > m + q THEN 0 ELSE (m + q) - (m + 1) + 1
    BY <2>1
  <2>4. IsFiniteSet(1 .. m)
    <3>1. 1 \in Int /\ m \in Int
      BY <2>1
    <3> QED BY <3>1, FS_Interval
  <2>5. IsFiniteSet({}) /\ Cardinality({}) = 0
    BY FS_EmptySet
  <2> QED BY <2>2, <2>3, <2>4, <2>5 DEF m, q
<1>4. IsFiniteSet(D)
  <2>1. D \subseteq 1 .. m
    BY DEF m
  <2> QED BY <1>3, <2>1, FS_Subset
<1>5. F = D \cup E
  <2>1. ASSUME NEW i \in F PROVE i \in D \cup E
    <3>1. CASE i \in 1 .. Len(d)
      BY <1>1, <3>1
    <3>2. CASE \E j \in 1 .. Len(e) : i = Len(d) + j
      <4>1. PICK j \in 1 .. Len(e) : i = Len(d) + j
        BY <3>2
      <4>2. (d \o e)[i][1] = h /\ i \in Len(d) + 1 .. Len(d) + Len(e)
        BY <1>1, <4>1
      <4> QED BY <4>2
    <3> QED BY <1>2, <3>1, <3>2
  <2>2. D \subseteq F
    BY <1>1
  <2>3. ASSUME NEW i \in E PROVE i \in F
    <3>1. l < h /\ i \in Len(d) + 1 .. Len(d) + Len(e)
      BY <2>3
    <3>2. i - Len(d) \in 1 .. Len(e) /\ i = Len(d) + (i - Len(d)) /\ i \in 1 .. Len(d \o e)
      BY <1>1, <3>1
    <3>3. (d \o e)[i][1] = h
      BY <1>1, <3>2
    <3> QED BY <3>1, <3>2, <3>3
  <2> QED BY <2>1, <2>2, <2>3
<1>6. D \cap E = {}
  BY <1>1
<1>7. Cardinality(F) = Cardinality(D) + Cardinality(E) - Cardinality(D \cap E)
  <2> HIDE DEF D, E, F
  <2> QED BY <1>3, <1>4, <1>5, FS_Union
<1>8. Cardinality(D) \in Nat
  BY <1>4, FS_CardinalityType
<1>9. Cardinality(D \cap E) = 0
  BY <1>6, FS_EmptySet
<1>10. Below(d, l) = Cardinality(D) /\ Below(d \o e, l) = Cardinality(F)
  BY DEF Below
<1> HIDE DEF D, E, F
<1> QED BY <1>1, <1>3, <1>7, <1>8, <1>9, <1>10 DEF q, Owed
LEMMA UnitIs ==
  ASSUME NEW L, L \subseteq Nat, NEW m \in Nat
  PROVE  /\ \A u \in UnitsOf(L, m) : /\ u[1] \in L /\ u[2] \in 1 .. m /\ u = <<u[1], u[2]>>
                                     /\ u[2] \in Nat /\ u[2] >= 1
         /\ \A l \in L, i \in 1 .. m : <<l, i>> \in UnitsOf(L, m)
BY DEF UnitsOf

LEMMA NextPlace ==
  ASSUME NEW y \in Nat, NEW p \in Nat, NEW q \in Nat, NEW j \in 1 .. q
  PROVE  y + j \in Nat /\ y + j <= y + q /\ p + j \in 1 .. p + q
OBVIOUS

LEMMA PlaceWithin ==
  ASSUME NEW x \in Nat, NEW y \in Nat, NEW q \in Nat, ~(x <= y), x <= y + q
  PROVE  x - y \in 1 .. q /\ y + (x - y) = x
OBVIOUS

LEMMA PlaceBefore ==
  ASSUME NEW x \in Nat, NEW y \in Nat, NEW j \in Nat, ~(x <= y), x < y + j
  PROVE  x - y \in Nat /\ x - y >= 1 /\ x - y < j
OBVIOUS

LEMMA LaterPlace ==
  ASSUME NEW x \in Nat, NEW y \in Nat, NEW j \in Nat, j >= 1, x <= y
  PROVE  x < y + j
OBVIOUS

LEMMA PlaceBegun ==
  ASSUME NEW x \in Nat, NEW y \in Nat, x >= 1, x <= y
  PROVE  y > 0
OBVIOUS

LEMMA EarlierPlace ==
  ASSUME NEW p \in Nat, NEW q \in Nat, NEW j \in 1 .. q, NEW x \in Nat, x >= 1, x < j
  PROVE  x \in 1 .. q /\ p + x \in 1 .. (p + j) - 1
OBVIOUS

\* The order is kept when the next units of a layer go that none above holds
\* back.
LEMMA OrderGrows ==
  ASSUME NEW L, L \subseteq Nat, NEW m \in Nat, NEW a \in [L -> 0 .. m], NEW t \in [L -> Nat],
         NEW g \in Seq(Unit), NEW e \in Seq(Unit), NEW h \in L, NEW s \in [L -> Nat],
         \A l \in L : t[l] <= a[l] /\ (l < h => t[l] = a[l]),
         t[h] + Len(e) <= a[h], \A i \in 1 .. Len(e) : e[i] = <<h, t[h] + i>>,
         s[h] = t[h] + Len(e), \A l \in L : l # h => s[l] = t[l],
         OrderOf(L, m, a, t, g)
  PROVE  OrderOf(L, m, a, s, g \o e)
<1> DEFINE f == g \o e  p == Len(g)  q == Len(e)
<1>1. /\ p \in Nat /\ q \in Nat /\ Len(f) = p + q
      /\ \A i \in 1 .. p : f[i] = g[i]
      /\ \A i \in 1 .. q : f[p + i] = e[i]
  BY Joined
<1>2. \A i \in 1 .. Len(f) : i \in 1 .. p \/ \E j \in 1 .. q : i = p + j
  BY Joined
<1>3. /\ {g[i] : i \in 1 .. p} = GoneOf(L, m, t)
      /\ \A k, l \in L : k < l /\ t[l] > 0 => t[k] = a[k]
      /\ \A i \in 1 .. p : {g[j] : j \in 1 .. i - 1} = BeforeOf(L, m, a, g[i])
  BY DEF OrderOf
<1>4. /\ t[h] \in Nat /\ a[h] \in 0 .. m /\ s[h] = t[h] + q /\ t[h] + q <= a[h]
      /\ \A i \in 1 .. q : e[i] = <<h, t[h] + i>>
      /\ \A l \in L : l \in Nat /\ t[l] \in Nat /\ a[l] \in 0 .. m /\ t[l] <= a[l]
  OBVIOUS
<1> HIDE DEF f, p, q
<1>5. \A i \in 1 .. q : t[h] + i \in 1 .. m /\ t[h] + i <= a[h] /\ <<h, t[h] + i>> \in UnitsOf(L, m)
  <2>1. \A i \in 1 .. q : t[h] + i \in 1 .. m /\ t[h] + i <= a[h]
    BY ONLY <1>1, <1>4
  <2> QED BY <2>1, UnitIs
<1>9. \A j \in 1 .. q : f[p + j] = <<h, t[h] + j>> /\ t[h] + j \in Nat /\ t[h] + j <= s[h] /\ p + j \in 1 .. Len(f)
  <2>1. \A j \in 1 .. q : f[p + j] = <<h, t[h] + j>>
    BY <1>1, <1>4
  <2>2. ASSUME NEW j \in 1 .. q PROVE t[h] + j \in Nat /\ t[h] + j <= s[h] /\ p + j \in 1 .. Len(f)
    <3>1. /\ t[h] \in Nat /\ p \in Nat /\ q \in Nat /\ s[h] = t[h] + q /\ Len(f) = p + q
      BY <1>1, <1>4
    <3>2. t[h] + j \in Nat /\ t[h] + j <= t[h] + q /\ p + j \in 1 .. p + q
      BY <3>1, NextPlace
    <3> QED BY <3>1, <3>2
  <2> QED BY <2>1, <2>2
<1>10. \A l \in L, x \in Nat : x <= t[l] => x <= s[l] /\ x <= a[l]
  <2>1. ASSUME NEW l \in L, NEW x \in Nat, x <= t[l] PROVE x <= s[l] /\ x <= a[l]
    <3>1. t[l] \in Nat /\ a[l] \in Nat /\ t[l] <= a[l] /\ s[l] \in Nat /\ (s[l] = t[l] \/ s[l] = t[l] + q)
      BY <1>4
    <3> QED BY <1>1, <2>1, <3>1
  <2> QED BY <2>1
<1>6. ASSUME NEW k \in L, NEW l \in L, k < l, s[l] > 0 PROVE s[k] = a[k]
  <2>1. CASE k = h
    <3>1. s[l] = t[l] /\ t[k] = a[k]
      BY <1>3, <1>4, <1>6, <2>1
    <3> QED BY <1>1, <1>4, <2>1, <3>1
  <2>2. CASE k # h /\ l = h
    BY <1>6, <2>2
  <2>3. CASE k # h /\ l # h
    BY <1>3, <1>6, <2>3
  <2> QED BY <2>1, <2>2, <2>3
<1>7. {f[i] : i \in 1 .. Len(f)} = GoneOf(L, m, s)
  <2>1. ASSUME NEW i \in 1 .. Len(f) PROVE f[i] \in GoneOf(L, m, s)
    <3>1. CASE i \in 1 .. p
      <4>1. f[i] \in GoneOf(L, m, t)
        BY <1>1, <1>3, <3>1
      <4>2. f[i] \in UnitsOf(L, m) /\ f[i][2] <= t[f[i][1]] /\ f[i][1] \in L /\ f[i][2] \in Nat
        <5>1. f[i] \in UnitsOf(L, m) /\ f[i][2] <= t[f[i][1]]
          BY ONLY <4>1 DEF GoneOf
        <5>2. f[i][1] \in L /\ f[i][2] \in 1 .. m
          BY <5>1, UnitIs
        <5> QED BY <5>1, <5>2
      <4>3. f[i][2] <= s[f[i][1]]
        BY <1>10, <4>2
      <4> QED BY <4>2, <4>3 DEF GoneOf
    <3>2. CASE \E j \in 1 .. q : i = p + j
      <4>1. PICK j \in 1 .. q : i = p + j
        BY <3>2
      <4>2. f[i] = <<h, t[h] + j>> /\ t[h] + j <= s[h]
        BY <1>9, <4>1
      <4> QED BY <1>5, <4>1, <4>2 DEF GoneOf
    <3> QED BY <1>2, <3>1, <3>2
  <2>2. ASSUME NEW u \in GoneOf(L, m, s) PROVE \E i \in 1 .. Len(f) : f[i] = u
    <3>1. u \in UnitsOf(L, m) /\ u[1] \in L /\ u[2] \in 1 .. m /\ u = <<u[1], u[2]>> /\ u[2] <= s[u[1]]
      BY UnitIs DEF GoneOf
    <3>2. CASE u[2] <= t[u[1]]
      <4>1. u \in GoneOf(L, m, t)
        BY <3>1, <3>2 DEF GoneOf
      <4>2. PICK i \in 1 .. p : g[i] = u
        BY <1>3, <4>1
      <4>3. i \in 1 .. Len(f) /\ f[i] = u
        BY <1>1, <4>2
      <4> QED BY <4>3
    <3>3. CASE ~(u[2] <= t[u[1]])
      <4>1. u[1] = h
        BY <3>1, <3>3
      <4>2. u[2] - t[h] \in 1 .. q /\ t[h] + (u[2] - t[h]) = u[2]
        <5>1. u[2] \in Nat /\ t[h] \in Nat /\ q \in Nat /\ ~(u[2] <= t[h]) /\ u[2] <= t[h] + q
          BY <1>1, <1>4, <3>1, <3>3, <4>1
        <5> QED BY ONLY <5>1, PlaceWithin
      <4>3. p + (u[2] - t[h]) \in 1 .. Len(f) /\ f[p + (u[2] - t[h])] = u
        BY <1>9, <3>1, <4>1, <4>2
      <4> QED BY <4>3
    <3> QED BY <3>2, <3>3
  <2> QED BY <2>1, <2>2
<1>8. ASSUME NEW i \in 1 .. Len(f) PROVE {f[j] : j \in 1 .. i - 1} = BeforeOf(L, m, a, f[i])
  <2>1. CASE i \in 1 .. p
    <3>1. f[i] = g[i] /\ \A j \in 1 .. i - 1 : f[j] = g[j]
      BY <1>1, <2>1
    <3>2. {f[j] : j \in 1 .. i - 1} = {g[j] : j \in 1 .. i - 1}
      BY <3>1
    <3>3. {g[j] : j \in 1 .. i - 1} = BeforeOf(L, m, a, g[i])
      BY <1>3, <2>1
    <3> QED BY <3>1, <3>2, <3>3, Zenon
  <2>2. CASE \E j \in 1 .. q : i = p + j
    <3>1. PICK j \in 1 .. q : i = p + j
      BY <2>2
    <3>2. f[i] = <<h, t[h] + j>> /\ i - 1 = p + (j - 1)
      <4>1. f[i] = <<h, t[h] + j>>
        BY <1>9, <3>1
      <4>2. i - 1 = p + (j - 1)
        BY <1>1, <3>1
      <4> QED BY <4>1, <4>2
    <3>3. ASSUME NEW k \in 1 .. i - 1 PROVE f[k] \in BeforeOf(L, m, a, f[i])
      <4>1. CASE k \in 1 .. p
        <5>1. f[k] \in GoneOf(L, m, t)
          BY <1>1, <1>3, <4>1
        <5>2. /\ f[k] \in UnitsOf(L, m) /\ f[k][1] \in L /\ f[k][2] \in 1 .. m /\ f[k][2] <= t[f[k][1]]
              /\ f[k][2] \in Nat /\ f[k][2] >= 1
          BY <5>1, UnitIs DEF GoneOf
        <5>3. f[k][2] <= a[f[k][1]] /\ t[f[k][1]] > 0
          <6>0. f[k][2] \in Nat
            BY <5>2, Zenon
          <6>1. f[k][2] <= a[f[k][1]]
            BY <1>10, <5>2, <6>0, Zenon
          <6>2. t[f[k][1]] \in Nat
            BY <5>2
          <6>3. f[k][2] >= 1 /\ f[k][2] <= t[f[k][1]]
            BY <5>2, Zenon
          <6>4. t[f[k][1]] > 0
            BY ONLY <6>0, <6>2, <6>3, PlaceBegun
          <6> QED BY <6>1, <6>4
        <5>4. ~(h < f[k][1])
          BY ONLY <1>1, <1>3, <1>4, <3>1, <5>2, <5>3
        <5>5. Earlier(f[k], <<h, t[h] + j>>)
          <6>1. f[k][1] \in Nat /\ h \in Nat
            BY <1>4, <5>2
          <6>2. f[k][1] = h => f[k][2] < t[h] + j
            <7>0. q \in Nat /\ t[h] \in Nat /\ f[k][2] \in 1 .. m
              BY <1>1, <1>4, <5>2
            <7>1. t[h] \in Nat /\ f[k][2] \in Nat /\ j \in Nat /\ j >= 1
              BY ONLY <7>0
            <7>2. f[k][1] = h => f[k][2] <= t[h]
              BY <5>2
            <7>3. f[k][2] <= t[h] => f[k][2] < t[h] + j
              BY ONLY <7>1, LaterPlace
            <7> QED BY <7>2, <7>3
          <6>3. f[k][1] < h \/ f[k][1] = h
            BY ONLY <5>4, <6>1
          <6> QED BY ONLY <6>2, <6>3 DEF Earlier
        <5> QED BY <3>2, <5>2, <5>3, <5>5 DEF BeforeOf
      <4>2. CASE \E c \in 1 .. q : k = p + c
        <5>1. PICK c \in 1 .. q : k = p + c
          BY <4>2
        <5>2. f[k] = <<h, t[h] + c>> /\ c < j
          <6>1. f[k] = <<h, t[h] + c>>
            BY <1>9, <5>1
          <6>2. c < j
            BY <1>1, <3>2, <5>1
          <6> QED BY <6>1, <6>2
        <5>3. Earlier(f[k], f[i])
          BY <1>4, <3>2, <5>2 DEF Earlier
        <5>4. f[k] \in UnitsOf(L, m) /\ f[k][2] <= a[f[k][1]]
          BY <1>5, <5>1, <5>2
        <5> QED BY <5>3, <5>4 DEF BeforeOf
      <4> QED
        <5>1. k \in 1 .. Len(f)
          BY ONLY <1>1, <3>1
        <5> QED BY <1>2, <4>1, <4>2, <5>1
    <3>4. ASSUME NEW u \in BeforeOf(L, m, a, f[i]) PROVE \E k \in 1 .. i - 1 : f[k] = u
      <4>1. /\ u \in UnitsOf(L, m) /\ u[1] \in L /\ u[2] \in 1 .. m /\ u = <<u[1], u[2]>>
            /\ u[2] <= a[u[1]] /\ Earlier(u, <<h, t[h] + j>>)
        <5>1. u \in UnitsOf(L, m) /\ u[2] <= a[u[1]] /\ Earlier(u, f[i])
          BY ONLY <3>4 DEF BeforeOf
        <5>2. u[1] \in L /\ u[2] \in 1 .. m /\ u = <<u[1], u[2]>>
          BY <5>1, UnitIs
        <5> QED BY <3>2, <5>1, <5>2, Zenon
      <4>2. CASE u[2] <= t[u[1]]
        <5>1. u \in GoneOf(L, m, t)
          BY <4>1, <4>2 DEF GoneOf
        <5>2. PICK k \in 1 .. p : g[k] = u
          BY <1>3, <5>1
        <5>3. k \in 1 .. i - 1 /\ f[k] = u
          <6>1. p \in Nat /\ q \in Nat /\ i = p + j /\ f[k] = g[k]
            BY <1>1, <3>1, <5>2
          <6>2. k \in 1 .. i - 1
            BY ONLY <6>1
          <6> QED BY <5>2, <6>1, <6>2
        <5> QED BY <5>3
      <4>3. CASE ~(u[2] <= t[u[1]])
        <5>1. u[1] = h /\ u[2] < t[h] + j
          BY <4>1, <4>3 DEF Earlier
        <5>2. u[2] - t[h] \in 1 .. q /\ t[h] + (u[2] - t[h]) = u[2] /\ p + (u[2] - t[h]) \in 1 .. i - 1
          <6>1. u[2] \in Nat /\ t[h] \in Nat /\ ~(u[2] <= t[h]) /\ j \in 1 .. q /\ i = p + j
            BY <1>4, <3>1, <4>1, <4>3, <5>1
          <6>2. u[2] - t[h] \in Nat /\ u[2] - t[h] >= 1 /\ u[2] - t[h] < j
            <7>1. q \in Nat
              BY <1>1
            <7>2. j \in Nat
              BY <7>1
            <7> QED BY ONLY <5>1, <6>1, <7>2, PlaceBefore
          <6>3. u[2] - t[h] \in 1 .. q /\ p + (u[2] - t[h]) \in 1 .. i - 1
            <7>1. p \in Nat /\ q \in Nat
              BY <1>1
            <7> QED BY <6>1, <6>2, <7>1, EarlierPlace
          <6>4. t[h] + (u[2] - t[h]) = u[2]
            BY <6>1
          <6> QED BY <6>3, <6>4
        <5>3. f[p + (u[2] - t[h])] = u
          BY <1>9, <4>1, <5>1, <5>2
        <5> QED BY <5>2, <5>3
      <4> QED BY <4>2, <4>3
    <3> QED BY <3>3, <3>4
  <2> QED BY <1>2, <2>1, <2>2
<1> QED BY <1>6, <1>7, <1>8 DEF OrderOf, f
-----------------------------------------------------------------------------
LEMMA RestIs ==
  ASSUME PathTypeOK, NEW l \in Nat, NEW s \in 0 .. CachedUnits
  PROVE  /\ Rest(l, s) \in Seq(Unit) /\ Len(Rest(l, s)) = CachedUnits - s
         /\ \A i \in 1 .. CachedUnits - s : Rest(l, s)[i] = <<l, s + i>>
<1>1. CachedUnits \in Nat
  BY PathAssumption DEF CachedUnits
<1>2. CachedUnits - s \in Nat /\ \A i \in 1 .. CachedUnits - s : <<l, s + i>> \in Unit
  BY <1>1 DEF Unit
<1> QED BY <1>2 DEF Rest

\* Each layer of the source, and how much of it has gone.
LEMMA LayersAre ==
  ASSUME PathTypeOK
  PROVE  /\ Layers \subseteq Nat /\ Len(source) \in Layers /\ MaxUnits + Cached \in Nat
         /\ CachedUnits \in Nat /\ Alls \in [Layers -> 0 .. MaxUnits + Cached]
         /\ All(Len(source)) = MaxUnits
         /\ \A l \in At(source, "cached") :
              /\ l \in Nat /\ l \in Layers /\ l # Len(source) /\ l < Len(source) /\ All(l) = CachedUnits
              /\ source[l] = "cached"
         /\ \A l \in Layers : l # Len(source) => l \in At(source, "cached")
<1>1. Len(source) \in Nat /\ \A l \in At(source, "cached") : l \in 1 .. Len(source) - 1 /\ source[l] = "cached"
  BY Chains DEF Wrappers
<1>2. CachedUnits \in 0 .. MaxUnits + Cached /\ MaxUnits \in 0 .. MaxUnits + Cached /\ CachedUnits \in Nat
  BY PathAssumption DEF CachedUnits
<1>3. \A l \in At(source, "cached") : l \in Nat /\ l # Len(source) /\ l < Len(source)
  BY <1>1
<1>4. Alls \in [Layers -> 0 .. MaxUnits + Cached]
  BY <1>2 DEF Alls, All
<1> QED BY <1>1, <1>2, <1>3, <1>4, PathAssumption DEF Layers, All, Socket

LEMMA LeftIs ==
  ASSUME PathTypeOK, NEW l \in At(source, "cached")
  PROVE  /\ buffer[l] = << >> => Left(l) = CachedUnits
         /\ \A s \in 0 .. CachedUnits : buffer[l] = <<Rest(l, s)>> =>
              Left(l) = s /\ buffer[l] # << >> /\ buffer[l][1] = Rest(l, s)
         /\ buffer[l] = <<<< >>>> => Left(l) = CachedUnits
<1>1. l # Len(source) /\ l \in Nat /\ CachedUnits \in Nat
  BY LayersAre
<1>2. ASSUME NEW s \in 0 .. CachedUnits, buffer[l] = <<Rest(l, s)>>
      PROVE  Left(l) = s /\ buffer[l] # << >> /\ buffer[l][1] = Rest(l, s)
  <2>1. buffer[l] # << >> /\ buffer[l][1] = Rest(l, s)
    BY <1>2
  <2>2. Left(l) = CachedUnits - Len(Rest(l, s))
    BY <1>1, <2>1 DEF Left
  <2>3. Len(Rest(l, s)) = CachedUnits - s
    BY <1>1, RestIs
  <2> QED BY <1>1, <2>1, <2>2, <2>3
<1> QED BY <1>1, <1>2 DEF Left

LEMMA LeftsAre ==
  ASSUME PathTypeOK, BuffersHoldRests
  PROVE  Lefts \in [Layers -> Nat] /\ \A l \in Layers : Left(l) \in Nat /\ Left(l) <= All(l)
<1>1. ASSUME NEW l \in Layers PROVE Left(l) \in Nat /\ Left(l) <= All(l)
  <2>1. CASE l = Len(source)
    <3>1. Left(l) = arrived /\ All(l) = MaxUnits
      BY <2>1, LayersAre DEF Left
    <3>2. arrived \in 0 .. MaxUnits
      BY DEF PathTypeOK
    <3> QED BY <3>1, <3>2, PathAssumption
  <2>2. CASE l # Len(source)
    <3>1. l \in At(source, "cached") /\ All(l) = CachedUnits /\ CachedUnits \in Nat
      BY <2>2, LayersAre
    <3>2. buffer[l] = << >> \/ \E s \in 0 .. CachedUnits : buffer[l] = <<Rest(l, s)>>
      BY <3>1 DEF BuffersHoldRests
    <3> QED BY <3>1, <3>2, LeftIs
  <2> QED BY <2>1, <2>2
<1> QED BY <1>1 DEF Lefts

\* The next units of layer h have left it.
LEMMA FrontierGrows ==
  ASSUME PathTypeOK, BuffersHoldRests, Frontier, UNCHANGED <<source, packets>>, closing' = closing,
         Gone \in Seq(Unit), NEW e \in Seq(Unit), NEW h \in Layers,
         \A i \in 1 .. Len(e) : e[i] = <<h, Left(h) + i>>, Left(h) + Len(e) <= All(h),
         \A l \in Layers : l < h => Left(l) = All(l),
         Lefts'[h] = Left(h) + Len(e), \A l \in Layers : l # h => Lefts'[l] = Left(l),
         Gone' = Gone \o e
  PROVE  Frontier'
<1> SUFFICES ASSUME closing = "no" PROVE OrderOf(Layers, MaxUnits + Cached, Alls, Lefts, Gone)'
  BY DEF Frontier
<1>1. Layers' = Layers /\ Alls' = Alls
  BY DEF Layers, Alls, All, CachedUnits, Socket
<1>2. OrderOf(Layers, MaxUnits + Cached, Alls, Lefts, Gone)
  BY DEF Frontier
<1>3. Lefts' \in [Layers -> Nat]
  <2>1. \A l \in Layers : Lefts'[l] \in Nat
    <3>1. \A l \in Layers : Left(l) \in Nat
      BY LeftsAre
    <3>2. Left(h) + Len(e) \in Nat
      BY <3>1, LenProperties
    <3> QED BY <3>1, <3>2
  <2> QED BY <1>1, <2>1 DEF Lefts
<1>4. /\ Lefts \in [Layers -> Nat] /\ Alls \in [Layers -> 0 .. MaxUnits + Cached]
      /\ Layers \subseteq Nat /\ MaxUnits + Cached \in Nat
      /\ \A l \in Layers : Lefts[l] = Left(l) /\ Alls[l] = All(l) /\ Left(l) <= All(l)
  BY LeftsAre, LayersAre DEF Lefts, Alls
<1> DEFINE s == Lefts'
<1> HIDE DEF s
<1>5. s \in [Layers -> Nat] /\ s[h] = Lefts[h] + Len(e) /\ \A l \in Layers : l # h => s[l] = Lefts[l]
  BY <1>3, <1>4 DEF s
<1>6. OrderOf(Layers, MaxUnits + Cached, Alls, s, Gone \o e)
  <2>1. /\ Lefts[h] + Len(e) <= Alls[h] /\ \A i \in 1 .. Len(e) : e[i] = <<h, Lefts[h] + i>>
        /\ \A l \in Layers : Lefts[l] <= Alls[l] /\ (l < h => Lefts[l] = Alls[l])
    BY <1>4
  <2>2. Gone \in Seq(Unit)
    OBVIOUS
  <2> QED BY ONLY <1>2, <1>4, <1>5, <2>1, <2>2, OrderGrows
<1>7. OrderOf(Layers', MaxUnits + Cached, Alls', Lefts', Gone')
  BY <1>1, <1>6 DEF s
<1> QED BY <1>7
-----------------------------------------------------------------------------
\* A step that moves no unit and no layer.
LEMMA QuietStep ==
  ASSUME PathIInv, PathTypeOK', PathFits',
         UNCHANGED <<chainVars, buffer, cacheTaken, reader, writer, readCounters, writeCounters,
                     dataVars, countVars>>,
         closing' = "no" => closing = "no",
         \/ pc' = pc
         \/ pc' = "return" /\ pc # "transfer"
         \/ pc \in {"session", "path"} /\ pc' \in {"path", "read"}
  PROVE  PathIInv'
<1> USE DEF chainVars, dataVars, countVars
<1>1. PathState'
  BY DEF PathIInv, PathState, At
<1>2. BuffersHoldRests'
  BY DEF PathIInv, BuffersHoldRests, Rest, CachedUnits, At
<1>3. Unwrapped'
  BY DEF PathIInv, Unwrapped, At
<1>4. CountedSoFar'
  <2>1. CASE pc' = "return"
    BY <2>1 DEF CountedSoFar
  <2>2. CASE pc' = pc
    BY <2>2 DEF PathIInv, CountedSoFar, Below, At
  <2>3. CASE pc \in {"session", "path"} /\ pc' \in {"path", "read"}
    BY <2>3 DEF PathIInv, CountedSoFar, Below, At
  <2> QED BY <2>1, <2>2, <2>3
<1>5. Frontier'
  <2>1. Layers' = Layers /\ Alls' = Alls /\ Lefts' = Lefts
    BY DEF Layers, Alls, All, Lefts, Left, CachedUnits, Socket, At
  <2>2. Gone' = Gone
    BY DEF Gone
  <2> QED BY <2>1, <2>2 DEF PathIInv, Frontier
<1>6. ResultIsDelivered'
  BY DEF PathIInv, ResultIsDelivered
<1> QED BY <1>1, <1>2, <1>3, <1>4, <1>5, <1>6 DEF PathIInv

LEMMA SessionStep ==
  ASSUME PathIInv, NewCopySession
  PROVE  PathIInv'
<1> USE DEF chainVars, layerVars, dataVars, countVars
<1>1. PathTypeOK'
  BY DEF PathIInv, PathState, PathTypeOK, NewCopySession, At
<1>2. PathFits'
  BY DEF NewCopySession, PathFits
<1> QED BY <1>1, <1>2, QuietStep DEF NewCopySession

LEMMA EndStep ==
  ASSUME PathIInv, Ends
  PROVE  PathIInv'
<1> USE DEF chainVars, layerVars, sessionVars, dataVars, countVars
<1>1. PathTypeOK'
  BY DEF PathIInv, PathState, PathTypeOK, Ends, At
<1>2. PathFits'
  BY DEF Ends, PathFits
<1> QED BY <1>1, <1>2, QuietStep DEF Ends

LEMMA HandshakeStep ==
  ASSUME PathIInv, HandshakeDone \/ CloseSocket
  PROVE  PathIInv'
<1> USE DEF chainVars, layerVars, sessionVars, dataVars, countVars
<1>1. PathTypeOK'
  <2>1. PathTypeOK
    BY DEF PathIInv, PathState
  <2>2. CASE HandshakeDone
    BY <2>1, <2>2 DEF PathTypeOK, HandshakeDone, At
  <2>3. CASE CloseSocket
    BY <2>1, <2>3 DEF PathTypeOK, CloseSocket, At
  <2> QED BY <2>2, <2>3
<1>2. PathFits'
  BY DEF HandshakeDone, CloseSocket, PathIInv, PathFits, NoCounterFrom, At
<1> QED BY <1>1, <1>2, QuietStep DEF HandshakeDone, CloseSocket

\* A loop is chosen that fits what is left of the wrappers.
LEMMA ChooseStep ==
  ASSUME PathIInv, NEW p \in {"splice", "wait", "batch", "pool"}, Choose(p),
         p \in {"splice", "wait"} => \E kinds : ReadsAt(reader, kinds),
         p = "splice" => \E kinds : WritesAt(writer, kinds),
         p = "batch" => UnwrapCountReader(reader) = Len(source)
  PROVE  PathIInv'
<1> USE DEF chainVars, layerVars, sessionVars, dataVars, countVars
<1>1. PathTypeOK'
  BY DEF PathIInv, PathState, PathTypeOK, Choose, At
<1>2. PathTypeOK
  BY DEF PathIInv, PathState
<1>3. /\ \A l \in At(source, "counter") \cup At(source, "cached") : l \in 1 .. Len(source) - 1
      /\ \A l \in At(source, "counter") : source[l] = "counter"
      /\ \A l \in At(source, "cached") : source[l] = "cached"
      /\ \A l \in At(destination, "counter") : l \in 1 .. Len(destination) - 1 /\ destination[l] = "counter"
      /\ reader \in Nat /\ writer \in Nat /\ Len(source) \in Nat /\ Len(destination) \in Nat
  BY <1>2, Chains DEF Wrappers
<1>4. ASSUME NEW kinds, ReadsAt(reader, kinds)
      PROVE  /\ NoCounterFrom(source, reader)
             /\ \A l \in At(source, "cached") : ~(l < reader) => buffer[l] = << >>
  <2>1. \A j \in reader .. Len(source) - 1 : ReaderReplaceable(j)
    BY <1>2, <1>4, ReadsAtIs
  <2>2. \A l \in At(source, "counter") \cup At(source, "cached") :
          ~(l < reader) => l \in reader .. Len(source) - 1
    BY <1>3
  <2> QED BY <1>3, <2>1, <2>2 DEF NoCounterFrom, ReaderReplaceable
<1>5. ASSUME NEW kinds, WritesAt(writer, kinds)
      PROVE  NoCounterFrom(destination, writer)
  <2>1. \A j \in writer .. Len(destination) - 1 : WriterReplaceable(j)
    BY <1>2, <1>5, WritesAtIs
  <2>2. \A l \in At(destination, "counter") : ~(l < writer) => l \in writer .. Len(destination) - 1
    BY <1>3
  <2> QED BY <1>3, <2>1, <2>2 DEF NoCounterFrom, WriterReplaceable
<1>6. ASSUME p = "batch" PROVE \A l \in At(source, "cached") : ~(l < reader) => buffer[l] = << >>
  <2>1. \A j \in reader .. Len(source) - 1 : SkipReader(j)
    BY <1>2, <1>6, ReaderWalk
  <2>2. \A l \in At(source, "cached") : ~(l < reader) => l \in reader .. Len(source) - 1
    BY <1>3
  <2> QED BY <1>3, <2>1, <2>2 DEF SkipReader, ReaderReplaceable
<1>7. p # "pool" => \A l \in At(source, "cached") : buffer[l] = << >>
  BY <1>4, <1>6 DEF PathIInv, Unwrapped
<1>8. path' = p /\ UNCHANGED <<source, destination, buffer, reader, writer>>
  BY DEF Choose
<1>9. PathFits'
  BY <1>4, <1>5, <1>7, <1>8 DEF PathFits, NoCounterFrom, At
<1> QED BY <1>1, <1>9, QuietStep DEF Choose

LEMMA ChooseSteps ==
  ASSUME PathIInv, copyDirect \/ copyExtended \/ copyPacketWithCountersOnce
  PROVE  PathIInv'
<1>1. CASE copyDirect
  BY <1>1, ChooseStep DEF copyDirect, SyscallAvailableForRead, SyscallAvailableForWrite
<1>2. CASE copyExtended
  BY <1>2, ChooseStep DEF copyExtended, CreateReadWaiter
<1>3. CASE copyPacketWithCountersOnce
  BY <1>3, ChooseStep DEF copyPacketWithCountersOnce, CreatePacketReadWaiter, CreatePacketBatchReadWaiter, Socket
<1> QED BY <1>1, <1>2, <1>3

LEMMA VectorisedStep ==
  ASSUME PathIInv, copyWaitVectorisedWithPool
  PROVE  PathIInv'
<1> USE DEF chainVars, layerVars, sessionVars, dataVars, countVars
<1>1. PathTypeOK'
  BY DEF PathIInv, PathState, PathTypeOK, copyWaitVectorisedWithPool, At
<1>2. PathTypeOK /\ WritesAt(writer, {"syscall"})
  BY DEF PathIInv, PathState, copyWaitVectorisedWithPool, CreateVectorisedWriter
<1>3. /\ \A l \in At(destination, "counter") : l \in 1 .. Len(destination) - 1 /\ destination[l] = "counter"
      /\ writer \in Nat /\ Len(destination) \in Nat
  BY <1>2, Chains DEF Wrappers
<1>4. \A j \in writer .. Len(destination) - 1 : WriterReplaceable(j)
  BY <1>2, WritesAtIs
<1>5. \A l \in At(destination, "counter") : ~(l < writer) => l \in writer .. Len(destination) - 1
  BY <1>3
<1>6. NoCounterFrom(destination, writer)
  BY <1>3, <1>4, <1>5 DEF NoCounterFrom, WriterReplaceable
<1>7. PathFits'
  BY <1>6 DEF copyWaitVectorisedWithPool, PathIInv, PathFits, NoCounterFrom, At
<1> QED BY <1>1, <1>7, QuietStep DEF copyWaitVectorisedWithPool

LEMMA CountedStays ==
  ASSUME CountedSoFar,
         UNCHANGED <<pc, source, destination, reader, writer, held, delivered, countedRead, countedWrite>>
  PROVE  CountedSoFar'
BY DEF CountedSoFar, Owed, Below, At

\* Close drops buffers; the order is over.
LEMMA CloseStep ==
  ASSUME PathIInv, Close
  PROVE  PathIInv'
<1> USE DEF chainVars, layerVars, sessionVars, dataVars, countVars
<1>1. /\ UNCHANGED <<chainVars, needRead, needWrite, sessionVars, pc, path, dataVars, countVars>>
      /\ closing' = "dropped" /\ DOMAIN buffer' = At(source, "cached")
      /\ cacheTaken' = [l \in At(source, "cached") |-> TRUE]
      /\ \A l \in At(source, "cached") : buffer'[l] \in {buffer[l], << >>}
  BY DEF PathIInv, PathState, PathTypeOK, Close
<1>2. PathTypeOK'
  <2>1. \A l \in At(source, "cached") : Len(buffer'[l]) <= 1
    <3>1. \A l \in At(source, "cached") : Len(buffer[l]) <= 1
      BY DEF PathIInv, PathState, PathTypeOK
    <3>2. Len(<< >>) <= 1
      BY EmptySeq
    <3> QED BY <1>1, <3>1, <3>2
  <2> QED BY <1>1, <2>1 DEF PathIInv, PathState, PathTypeOK, At
<1>3. PathState'
  BY <1>1, <1>2 DEF PathIInv, PathState, At
<1>4. BuffersHoldRests'
  BY <1>1 DEF PathIInv, BuffersHoldRests, Rest, CachedUnits, At
<1>5. Unwrapped' /\ PathFits'
  BY <1>1 DEF PathIInv, Unwrapped, PathFits, NoCounterFrom, At
<1>6. CountedSoFar'
  <2>1. UNCHANGED <<pc, source, destination, reader, writer, held, delivered, countedRead, countedWrite>>
    BY <1>1
  <2>2. CountedSoFar
    BY DEF PathIInv
  <2> QED BY <2>1, <2>2, CountedStays
<1>7. Frontier' /\ ResultIsDelivered'
  BY <1>1 DEF PathIInv, Frontier, ResultIsDelivered
<1> QED BY <1>3, <1>4, <1>5, <1>6, <1>7 DEF PathIInv
-----------------------------------------------------------------------------
\* Counters that are called once or not at all.
Called(D, counted, cs, k, c) ==
  /\ c \in [D -> Nat]
  /\ \A l \in D : cs[l] = 1 => c[l] = counted[l] + k
  /\ \A l \in D : cs[l] # 1 => c[l] = counted[l]

LEMMA CallIs ==
  ASSUME NEW D, NEW counted \in [D -> Nat], NEW cs \in [D -> {0, 1}], NEW k \in Nat
  PROVE  Called(D, counted, cs, k, Call(counted, cs, k))
<1>1. ASSUME NEW l \in D
      PROVE  /\ counted[l] + k * cs[l] \in Nat
             /\ cs[l] = 1 => counted[l] + k * cs[l] = counted[l] + k
             /\ cs[l] # 1 => counted[l] + k * cs[l] = counted[l]
  <2>1. counted[l] \in Nat /\ (cs[l] = 0 \/ cs[l] = 1)
    OBVIOUS
  <2> QED BY <2>1
<1> QED BY <1>1 DEF Call, Called

\* Unwrapping collects the counters that it passes.
LEMMA CountersAdd ==
  ASSUME NEW chain, NEW l \in Nat, NEW r \in Nat, l <= r, \A k \in At(chain, "counter") : k \in Nat
  PROVE  Plus([k \in At(chain, "counter") |-> IF k < l THEN 1 ELSE 0], Counters(chain, l, r))
           = [k \in At(chain, "counter") |-> IF k < r THEN 1 ELSE 0]
<1>1. ASSUME NEW k \in At(chain, "counter")
      PROVE  (IF k < l THEN 1 ELSE 0) + (IF k \in l .. r - 1 THEN 1 ELSE 0) = IF k < r THEN 1 ELSE 0
  <2>1. k \in Nat
    OBVIOUS
  <2>2. k < l => k \notin l .. r - 1 /\ k < r
    BY <2>1
  <2>3. ~(k < l) => (k \in l .. r - 1 <=> k < r)
    BY <2>1
  <2> QED BY <2>2, <2>3
<1> QED BY <1>1 DEF Plus, Counters

\* The counters and layers are natural numbers.
LEMMA CountersAre ==
  ASSUME PathTypeOK
  PROVE  /\ \A l \in At(source, "counter") : l \in Nat /\ l < Len(source) /\ source[l] = "counter"
         /\ \A l \in At(destination, "counter") : l \in Nat /\ l < Len(destination)
         /\ \A l \in At(source, "cached") : l \in Nat /\ l < Len(source) /\ source[l] = "cached"
<1>1. Len(source) \in Nat /\ Len(destination) \in Nat
  BY Chains
<1>2. /\ \A l \in At(source, "counter") : l \in 1 .. Len(source) - 1 /\ source[l] = "counter"
      /\ \A l \in At(destination, "counter") : l \in 1 .. Len(destination) - 1
      /\ \A l \in At(source, "cached") : l \in 1 .. Len(source) - 1 /\ source[l] = "cached"
  BY Chains DEF Wrappers
<1> QED BY <1>1, <1>2

LEMMA UnwrapMoves ==
  ASSUME PathTypeOK, Unwrapped
  PROVE  LET r == UnwrapCountReader(reader)
             w == UnwrapCountWriter(writer)
         IN  /\ Plus(readCounters, Counters(source, reader, r))
                  = [l \in At(source, "counter") |-> IF l < r THEN 1 ELSE 0]
             /\ Plus(writeCounters, Counters(destination, writer, w))
                  = [l \in At(destination, "counter") |-> IF l < w THEN 1 ELSE 0]
             /\ \A l \in At(source, "cached") : l < r => buffer[l] = << >>
             /\ r \in 1 .. Len(source) /\ w \in 1 .. Len(destination)
             /\ source[r] = "cached" => r \in At(source, "cached") /\ buffer[r] # << >>
<1> DEFINE r == UnwrapCountReader(reader)
           w == UnwrapCountWriter(writer)
<1>1. /\ r \in 1 .. Len(source) /\ reader <= r /\ ~SkipReader(r) /\ \A j \in reader .. r - 1 : SkipReader(j)
      /\ w \in 1 .. Len(destination) /\ writer <= w
  BY ReaderWalk, WriterWalk
<1> HIDE DEF r, w
<1>2. reader \in Nat /\ writer \in Nat /\ Len(source) \in Nat /\ Len(destination) \in Nat
  BY Chains
<1>3. r \in Nat /\ w \in Nat
  BY <1>1, <1>2
<1>4. Plus(readCounters, Counters(source, reader, r)) = [l \in At(source, "counter") |-> IF l < r THEN 1 ELSE 0]
  BY <1>1, <1>2, <1>3, CountersAre, CountersAdd DEF Unwrapped
<1>5. Plus(writeCounters, Counters(destination, writer, w))
        = [l \in At(destination, "counter") |-> IF l < w THEN 1 ELSE 0]
  BY <1>1, <1>2, <1>3, CountersAre, CountersAdd DEF Unwrapped
<1>6. ASSUME NEW l \in At(source, "cached"), l < r PROVE buffer[l] = << >>
  <2>1. CASE l < reader
    BY <2>1 DEF Unwrapped
  <2>2. CASE ~(l < reader)
    <3>1. l \in Nat /\ source[l] = "cached"
      BY CountersAre
    <3>2. l \in reader .. r - 1
      BY <1>2, <1>3, <1>6, <2>2, <3>1
    <3> QED BY <1>1, <3>1, <3>2 DEF SkipReader, ReaderReplaceable
  <2> QED BY <2>1, <2>2
<1>7. source[r] = "cached" => r \in At(source, "cached") /\ buffer[r] # << >>
  BY <1>1 DEF SkipReader, ReaderReplaceable, At
<1> QED BY <1>1, <1>4, <1>5, <1>6, <1>7 DEF r, w

\* What has gone is a sequence of units.
LEMMA GoneIs ==
  ASSUME PathState
  PROVE  Gone \in Seq(Unit) /\ (pc = "transfer" => Gone = delivered) /\ (pc # "transfer" => Gone = delivered \o held)
<1>1. delivered \in Seq(Unit) /\ held \in Seq(Unit)
  BY DEF PathState
<1>2. delivered \o << >> = delivered /\ delivered \o held \in Seq(Unit)
  BY <1>1, NothingJoined, Joined
<1> QED BY <1>1, <1>2 DEF Gone

\* Unwrap hands over what a cached layer holds, or finds none.
LEMMA UnwrapStep ==
  ASSUME PathIInv, Unwrap
  PROVE  PathIInv'
<1> USE DEF chainVars
<1> DEFINE r == UnwrapCountReader(reader)
           w == UnwrapCountWriter(writer)
<1>1. PathTypeOK /\ PathState /\ Unwrapped
  BY DEF PathIInv, PathState
<1>2. /\ [l \in At(source, "counter") |-> IF l < r THEN 1 ELSE 0] = readCounters'
      /\ [l \in At(destination, "counter") |-> IF l < w THEN 1 ELSE 0] = writeCounters'
      /\ \A l \in At(source, "cached") : l < r => buffer[l] = << >>
      /\ r \in 1 .. Len(source) /\ w \in 1 .. Len(destination)
      /\ source[r] = "cached" => r \in At(source, "cached") /\ buffer[r] # << >>
  BY <1>1, UnwrapMoves DEF Unwrap
<1>3. /\ reader' = r /\ writer' = w /\ pc = "unwrap"
      /\ UNCHANGED <<packets, source, destination, needRead, needWrite, closing, path, n, arrived, delivered,
                     handed, countedRead, countedWrite>>
      /\ \/ ReadCached(r) /\ pc' = "cached"
         \/ pc' = "session" /\ UNCHANGED <<cacheTaken, held, buffer>>
  BY DEF Unwrap, countVars
<1> HIDE DEF r, w
<1>4. held = << >> /\ r \in Nat
  BY <1>1, <1>2, <1>3, Chains DEF PathIInv, CountedSoFar
<1>5. CASE pc' = "session" /\ UNCHANGED <<cacheTaken, held, buffer>>
  <2>1. PathState'
    BY <1>2, <1>3, <1>5 DEF PathIInv, PathState, PathTypeOK, At
  <2>2. BuffersHoldRests' /\ PathFits'
    BY <1>3, <1>5 DEF PathIInv, BuffersHoldRests, Rest, CachedUnits, At, PathFits
  <2>3. Unwrapped'
    BY <1>2, <1>3, <1>5 DEF Unwrapped, At
  <2>4. CountedSoFar'
    <3>1. UNCHANGED <<source, destination, delivered, countedRead, countedWrite, held>> /\ pc' = "session"
      BY <1>3, <1>5
    <3>2. CountedSoFar
      BY DEF PathIInv
    <3> QED BY ONLY <1>3, <1>4, <3>1, <3>2 DEF CountedSoFar, Below, At
  <2>5. Frontier'
    <3>1. Layers' = Layers /\ Alls' = Alls /\ Lefts' = Lefts
      BY <1>3, <1>5 DEF Layers, Alls, All, Lefts, Left, CachedUnits, Socket, At
    <3>2. Gone' = Gone
      BY <1>3, <1>5 DEF Gone
    <3> QED BY <1>3, <3>1, <3>2 DEF PathIInv, Frontier
  <2>6. ResultIsDelivered'
    BY <1>3 DEF PathIInv, ResultIsDelivered
  <2> QED BY <2>1, <2>2, <2>3, <2>4, <2>5, <2>6 DEF PathIInv
<1>6. CASE ReadCached(r) /\ pc' = "cached"
  <2>1. /\ r \in At(source, "cached") /\ source[r] = "cached" /\ held' = buffer[r][1]
        /\ buffer' = [buffer EXCEPT ![r] = << >>] /\ cacheTaken' = [cacheTaken EXCEPT ![r] = TRUE]
    BY <1>2, <1>6 DEF ReadCached
  <2>2. PICK s \in 0 .. CachedUnits : buffer[r] = <<Rest(r, s)>>
    BY <1>2, <2>1 DEF PathIInv, BuffersHoldRests
  <2>3. held' = Rest(r, s) /\ Left(r) = s
    BY <1>1, <2>1, <2>2, LeftIs
  <2>4. /\ Rest(r, s) \in Seq(Unit) /\ Len(Rest(r, s)) = CachedUnits - s
        /\ \A i \in 1 .. CachedUnits - s : Rest(r, s)[i] = <<r, s + i>>
    BY <1>1, <1>4, RestIs
  <2>5. /\ DOMAIN buffer' = At(source, "cached") /\ buffer'[r] = << >>
        /\ \A l \in At(source, "cached") : l # r => buffer'[l] = buffer[l]
    BY <1>1, <2>1 DEF PathTypeOK
  <2>6. PathState'
    <3>1. \A l \in DOMAIN buffer' : Len(buffer'[l]) <= 1
      <4>1. \A l \in At(source, "cached") : Len(buffer[l]) <= 1
        BY <1>1 DEF PathTypeOK
      <4>2. Len(<< >>) <= 1
        BY EmptySeq
      <4> QED BY <2>5, <4>1, <4>2
    <3>2. cacheTaken' \in [At(source, "cached") -> BOOLEAN] /\ DOMAIN cacheTaken' = At(source, "cached")
      BY <1>1, <2>1, Zenon DEF PathState
    <3>3. PathTypeOK'
      BY <1>1, <1>2, <1>3, <1>6, <2>5, <3>1, <3>2 DEF PathTypeOK, At
    <3> QED BY <1>1, <1>3, <2>3, <2>4, <3>2, <3>3 DEF PathState, At
  <2>7. BuffersHoldRests'
    BY <1>3, <2>5 DEF PathIInv, BuffersHoldRests, Rest, CachedUnits, At
  <2>8. Unwrapped' /\ PathFits'
    BY <1>2, <1>3, <1>6, <2>5 DEF Unwrapped, PathFits, At
  <2>9. CountedSoFar'
    <3>1. \A i \in 1 .. Len(held') : held'[i][1] = r
      BY <2>3, <2>4
    <3> QED BY <1>3, <1>6, <2>1, <3>1 DEF PathIInv, CountedSoFar, Below, At
  <2>10. Frontier'
    <3>1. Layers' = Layers /\ r \in Layers /\ All(r) = CachedUnits /\ CachedUnits \in Nat
      BY <1>1, <1>3, <2>1, LayersAre DEF Layers, At
    <3>2. \A l \in Layers : (l = r => Left(l)' = CachedUnits) /\ (l # r => Left(l)' = Left(l))
      <4>1. r # Len(source) /\ \A l \in Layers : l # Len(source) => l \in At(source, "cached")
        BY <1>1, <2>1, LayersAre
      <4> QED BY <1>3, <2>5, <4>1 DEF Left, CachedUnits
    <3>3. Lefts'[r] = Left(r) + Len(held') /\ \A l \in Layers : l # r => Lefts'[l] = Left(l)
      <4>1. \A l \in Layers : Lefts'[l] = Left(l)'
        BY <3>1 DEF Lefts
      <4>2. Lefts'[r] = CachedUnits /\ \A l \in Layers : l # r => Lefts'[l] = Left(l)
        BY <3>1, <3>2, <4>1
      <4>3. Left(r) + Len(held') = CachedUnits
        BY <2>3, <2>4, <3>1
      <4> QED BY <4>2, <4>3
    <3>4. \A l \in Layers : l < r => Left(l) = All(l)
      <4> SUFFICES ASSUME NEW l \in Layers, l < r PROVE Left(l) = All(l)
        OBVIOUS
      <4>1. l \in At(source, "cached")
        BY <1>1, <1>2, LayersAre, Chains
      <4>2. buffer[l] = << >> /\ All(l) = CachedUnits
        BY <1>1, <1>2, <4>1, LayersAre
      <4> QED BY <1>1, <4>1, <4>2, LeftIs
    <3>5. Gone' = Gone \o held'
      <4>1. Gone = delivered \o << >> /\ delivered \in Seq(Unit)
        BY <1>1, <1>3, <1>4, GoneIs DEF PathState
      <4>2. Gone = delivered
        BY <4>1, NothingJoined
      <4> QED BY <1>3, <1>6, <4>2 DEF Gone
    <3>6. Gone \in Seq(Unit) /\ BuffersHoldRests /\ Frontier /\ closing' = closing
      BY <1>1, <1>3, GoneIs DEF PathIInv
    <3>7. /\ \A i \in 1 .. Len(held') : held'[i] = <<r, Left(r) + i>>
          /\ Left(r) + Len(held') <= All(r) /\ held' \in Seq(Unit)
      BY <2>3, <2>4, <3>1
    <3> QED BY <1>1, <1>3, <3>1, <3>3, <3>4, <3>5, <3>6, <3>7, FrontierGrows
  <2>11. ResultIsDelivered'
    BY <1>3 DEF PathIInv, ResultIsDelivered
  <2> QED BY <2>6, <2>7, <2>8, <2>9, <2>10, <2>11 DEF PathIInv
<1> QED BY <1>3, <1>5, <1>6
\* Nothing leaves a layer.
LEMMA FrontierStays ==
  ASSUME Frontier, UNCHANGED <<source, packets, buffer, arrived, closing>>, Gone' = Gone
  PROVE  Frontier'
<1>1. Layers' = Layers /\ Alls' = Alls /\ Lefts' = Lefts
  BY DEF Layers, Alls, All, Lefts, Left, CachedUnits, Socket, At
<1> QED BY <1>1 DEF Frontier

\* The counters of the session, and those that a layer passes.
LEMMA CountersBetween ==
  ASSUME PathTypeOK, Unwrapped
  PROVE  /\ readCounters \in [At(source, "counter") -> {0, 1}]
         /\ \A l \in At(source, "counter") : readCounters[l] = 1 <=> l < reader
         /\ writeCounters \in [At(destination, "counter") -> {0, 1}]
         /\ \A l \in At(destination, "counter") : writeCounters[l] = 1 <=> l < writer
         /\ \A h \in Nat : /\ Counters(source, reader, h) \in [At(source, "counter") -> {0, 1}]
                           /\ \A l \in At(source, "counter") :
                                Counters(source, reader, h)[l] = 1 <=> ~(l < reader) /\ l < h
         /\ Counters(destination, writer, Socket(destination)) \in [At(destination, "counter") -> {0, 1}]
         /\ \A l \in At(destination, "counter") :
              Counters(destination, writer, Socket(destination))[l] = 1 <=> ~(l < writer)
         /\ Plus(writeCounters, Counters(destination, writer, Socket(destination)))
              = [l \in At(destination, "counter") |-> 1]
<1>1. /\ \A l \in At(source, "counter") : l \in Nat /\ l < Len(source)
      /\ \A l \in At(destination, "counter") : l \in Nat /\ l < Len(destination)
      /\ reader \in Nat /\ writer \in Nat /\ Len(destination) \in Nat /\ writer <= Len(destination)
  BY CountersAre, Chains
<1>2. /\ readCounters \in [At(source, "counter") -> {0, 1}]
      /\ \A l \in At(source, "counter") : readCounters[l] = 1 <=> l < reader
      /\ writeCounters \in [At(destination, "counter") -> {0, 1}]
      /\ \A l \in At(destination, "counter") : writeCounters[l] = 1 <=> l < writer
  BY DEF Unwrapped
<1>3. ASSUME NEW h \in Nat
      PROVE  /\ Counters(source, reader, h) \in [At(source, "counter") -> {0, 1}]
             /\ \A l \in At(source, "counter") :
                  Counters(source, reader, h)[l] = 1 <=> ~(l < reader) /\ l < h
  <2>1. \A l \in At(source, "counter") : l \in reader .. h - 1 <=> ~(l < reader) /\ l < h
    BY <1>1
  <2> QED BY <2>1 DEF Counters
<1>4. /\ Counters(destination, writer, Socket(destination)) \in [At(destination, "counter") -> {0, 1}]
      /\ \A l \in At(destination, "counter") :
           Counters(destination, writer, Socket(destination))[l] = 1 <=> ~(l < writer)
  <2>1. \A l \in At(destination, "counter") : l \in writer .. Len(destination) - 1 <=> ~(l < writer)
    BY <1>1
  <2> QED BY <2>1 DEF Counters, Socket
<1>5. Plus(writeCounters, Counters(destination, writer, Socket(destination)))
        = [l \in At(destination, "counter") |-> 1]
  <2>1. Plus(writeCounters, Counters(destination, writer, Len(destination)))
          = [l \in At(destination, "counter") |-> IF l < Len(destination) THEN 1 ELSE 0]
    BY <1>1, CountersAdd DEF Unwrapped
  <2>2. [l \in At(destination, "counter") |-> IF l < Len(destination) THEN 1 ELSE 0]
          = [l \in At(destination, "counter") |-> 1]
    BY <1>1
  <2> QED BY <2>1, <2>2 DEF Socket
<1> QED BY <1>2, <1>3, <1>4, <1>5

\* What was handed over is written: every counter of the destination counts
\* it, and those of the source above its layer.
LEMMA WriteCachedStep ==
  ASSUME PathIInv, WriteCached
  PROVE  PathIInv'
<1> USE DEF chainVars, layerVars, sessionVars
<1>1. PathTypeOK /\ PathState /\ Unwrapped /\ CountedSoFar
  BY DEF PathIInv, PathState
<1>2. /\ pc = "cached" /\ pc' = "unwrap" /\ held' = << >> /\ delivered' = delivered \o held
      /\ n' = (IF packets THEN n + Len(held) ELSE n) /\ handed' = handed + Len(held)
      /\ UNCHANGED <<packets, source, destination, buffer, cacheTaken, needRead, needWrite, closing,
                     reader, writer, readCounters, writeCounters, path, arrived>>
      /\ countedRead' = Call(countedRead, readCounters, Len(held))
      /\ countedWrite' =
           Call(countedWrite, Plus(writeCounters, Counters(destination, writer, Socket(destination))), Len(held))
  BY DEF WriteCached
<1>3. delivered \in Seq(Unit) /\ held \in Seq(Unit) /\ handed \in Nat /\ n \in Nat
  BY <1>1 DEF PathState, PathTypeOK
<1>4. /\ delivered' \in Seq(Unit) /\ Len(delivered) \in Nat /\ Len(held) \in Nat
      /\ Len(delivered') = Len(delivered) + Len(held)
  BY <1>2, <1>3, Joined
<1>5. /\ countedRead' \in [At(source, "counter") -> Nat]
      /\ \A l \in At(source, "counter") :
           /\ readCounters[l] = 1 => countedRead'[l] = countedRead[l] + Len(held)
           /\ readCounters[l] # 1 => countedRead'[l] = countedRead[l]
  <2>1. countedRead \in [At(source, "counter") -> Nat] /\ readCounters \in [At(source, "counter") -> {0, 1}]
    BY <1>1, CountersBetween DEF PathState
  <2>2. Len(held) \in Nat /\ countedRead' = Call(countedRead, readCounters, Len(held))
    BY <1>2, <1>4
  <2> DEFINE c == Call(countedRead, readCounters, Len(held))
  <2>3. /\ c \in [At(source, "counter") -> Nat]
        /\ \A l \in At(source, "counter") : readCounters[l] = 1 => c[l] = countedRead[l] + Len(held)
        /\ \A l \in At(source, "counter") : readCounters[l] # 1 => c[l] = countedRead[l]
    <3>1. Called(At(source, "counter"), countedRead, readCounters, Len(held), c)
      BY <2>1, <2>2, CallIs, Zenon
    <3> QED BY <3>1 DEF Called
  <2> HIDE DEF c
  <2> QED BY <2>2, <2>3 DEF c
<1>6. /\ countedWrite' \in [At(destination, "counter") -> Nat]
      /\ \A l \in At(destination, "counter") : countedWrite'[l] = countedWrite[l] + Len(held)
  <2> DEFINE ones == [l \in At(destination, "counter") |-> 1]
  <2>1. ones \in [At(destination, "counter") -> {0, 1}] /\ \A l \in At(destination, "counter") : ones[l] = 1
    OBVIOUS
  <2>2. countedWrite' = Call(countedWrite, ones, Len(held))
    BY <1>1, <1>2, CountersBetween
  <2>3. countedWrite \in [At(destination, "counter") -> Nat] /\ Len(held) \in Nat
    BY <1>1, <1>4 DEF PathState
  <2> HIDE DEF ones
  <2>4. Called(At(destination, "counter"), countedWrite, ones, Len(held), Call(countedWrite, ones, Len(held)))
    BY <2>1, <2>3, CallIs, Zenon
  <2> QED BY <2>1, <2>2, <2>4 DEF Called
<1>7. PathState'
  <2>1. PathTypeOK' /\ handed' \in Nat
    <3>1. n' \in Nat /\ handed' \in Nat
      BY <1>2, <1>3, <1>4
    <3>2. /\ UNCHANGED <<packets, source, destination, buffer, cacheTaken, needRead, needWrite, closing,
                         reader, writer, path, arrived>>
          /\ pc' = "unwrap"
      BY <1>2
    <3> QED BY ONLY <1>1, <3>1, <3>2 DEF PathTypeOK, At
  <2>2. held' \in Seq(Unit)
    BY <1>2, <1>3, NothingJoined
  <2>3. UNCHANGED <<source, destination, cacheTaken>> /\ cacheTaken \in [At(source, "cached") -> BOOLEAN]
    BY <1>1, <1>2 DEF PathState
  <2> QED BY <1>4, <1>5, <1>6, <2>1, <2>2, <2>3 DEF PathState, At
<1>8. BuffersHoldRests' /\ Unwrapped' /\ PathFits'
  BY <1>2 DEF PathIInv, BuffersHoldRests, Rest, CachedUnits, At, Unwrapped, PathFits
<1>9. CountedSoFar'
  <2>1. ASSUME NEW l \in At(source, "counter") PROVE countedRead'[l] = Below(delivered', l)
    <3>1. l \in Nat /\ reader \in Nat /\ \A i \in 1 .. Len(held) : held[i][1] = reader
      BY <1>1, <1>2, CountersAre, Chains DEF CountedSoFar
    <3>2. Below(delivered', l) = Below(delivered, l) + Owed(l, reader, Len(held))
      BY <1>2, <1>3, <3>1, BelowGrows
    <3>3. countedRead[l] = Below(delivered, l) /\ (readCounters[l] = 1 <=> l < reader)
      BY <1>1, <1>2, CountersBetween DEF CountedSoFar
    <3>4. /\ readCounters[l] = 1 => countedRead'[l] = countedRead[l] + Len(held)
          /\ readCounters[l] # 1 => countedRead'[l] = countedRead[l]
      BY <1>5
    <3>5. Below(delivered, l) \in Nat
      BY <1>1, <3>3 DEF PathState
    <3> HIDE DEF Below
    <3> QED BY <3>2, <3>3, <3>4, <3>5 DEF Owed
  <2>2. \A l \in At(destination, "counter") : countedWrite'[l] = Len(delivered')
    BY <1>1, <1>2, <1>4, <1>6 DEF CountedSoFar
  <2> QED BY <1>2, <2>1, <2>2 DEF CountedSoFar, At
<1>10. Frontier'
  <2>1. Gone = delivered' /\ delivered' \o << >> = delivered'
    BY <1>1, <1>2, <1>4, GoneIs, NothingJoined
  <2>2. Gone' = Gone
    BY <1>2, <2>1 DEF Gone
  <2> QED BY <1>2, <2>2, FrontierStays DEF PathIInv
<1>11. ResultIsDelivered'
  BY <1>2, <1>3, <1>4 DEF PathIInv, ResultIsDelivered
<1> QED BY <1>7, <1>8, <1>9, <1>10, <1>11 DEF PathIInv-----------------------------------------------------------------------------
LEMMA PairOf ==
  ASSUME NEW u, NEW h, NEW x, u = <<h, x>>
  PROVE  u[1] = h
OBVIOUS

\* What a counter at l has counted, c before and b after k units were read
\* from layer h, and what the session adds.
CountsUp(l, h, r, k, c, b) ==
  /\ l \in Nat /\ h \in Nat /\ r \in Nat /\ k \in Nat /\ c \in Nat /\ b \in Nat /\ r <= h
  /\ ~(l < r) /\ l < h => b = c + k
  /\ l < r \/ ~(l < h) => b = c

LEMMA Counted ==
  ASSUME NEW l, NEW h, NEW r, NEW k, NEW c, NEW b, CountsUp(l, h, r, k, c, b)
  PROVE  b + Owed(l, r, k) = c + Owed(l, h, k)
BY DEF Owed, CountsUp

\* A read takes the next units of layer h, which the counters between reader
\* and h count; the session adds those above reader later.
Takes(h) ==
  /\ held' \in Seq(Unit) /\ \A i \in 1 .. Len(held') : held'[i] = <<h, Left(h) + i>>
  /\ Left(h) + Len(held') <= All(h)
  /\ \A l \in Layers : l < h => Left(l) = All(l)
  /\ Lefts'[h] = Left(h) + Len(held') /\ \A l \in Layers : l # h => Lefts'[l] = Left(l)
  /\ \A l \in At(source, "cached") : buffer[l] = << >> => buffer'[l] = << >>
Counts(h) ==
  /\ countedRead' \in [At(source, "counter") -> Nat]
  /\ pc' = "write" => \A l \in At(source, "counter") :
       /\ ~(l < reader) /\ l < h => countedRead'[l] = countedRead[l] + Len(held')
       /\ l < reader \/ ~(l < h) => countedRead'[l] = countedRead[l]

LEMMA ReadStep ==
  ASSUME PathIInv, pc = "read", pc' \in {"write", "nil cause"}, PathTypeOK', BuffersHoldRests',
         UNCHANGED <<packets, source, destination, cacheTaken, closing, reader, writer, readCounters,
                     writeCounters, path, n, delivered, handed, countedWrite>>,
         NEW h \in Layers, reader <= h, Takes(h), Counts(h)
  PROVE  PathIInv'
<1>1. PathTypeOK /\ PathState /\ Unwrapped /\ CountedSoFar
  BY DEF PathIInv, PathState
<1>2. PathState'
  BY <1>1 DEF PathState, At, Takes, Counts
<1>3. Unwrapped'
  BY <1>1 DEF Unwrapped, At, Takes
<1>4. PathFits'
  <2>1. PathFits /\ UNCHANGED <<source, destination, reader, writer, path>>
    BY DEF PathIInv
  <2> QED BY <2>1 DEF PathFits, NoCounterFrom, At, Takes
<1>5. held = << >> /\ delivered \in Seq(Unit) /\ held' \in Seq(Unit) /\ Len(held') \in Nat
  BY <1>1, LenProperties DEF CountedSoFar, PathState, Takes
<1>6. CountedSoFar'
  <2>1. ASSUME pc' = "write", NEW l \in At(source, "counter")
        PROVE  countedRead'[l] + Owed(l, reader, Len(held')) = Below(delivered \o held', l)
    <3>1. l \in Nat /\ h \in Nat /\ reader \in Nat
      BY <1>1, CountersAre, LayersAre, Chains
    <3>2. ASSUME NEW i \in 1 .. Len(held') PROVE held'[i][1] = h
      <4>1. held'[i] = <<h, Left(h) + i>>
        BY DEF Takes
      <4> QED BY <4>1, PairOf, Zenon
    <3>3. Below(delivered \o held', l) = Below(delivered, l) + Owed(l, h, Len(held'))
      BY ONLY <1>5, <3>1, <3>2, BelowGrows
    <3>4. countedRead[l] = Below(delivered, l) /\ countedRead[l] \in Nat
      BY <1>1 DEF CountedSoFar, PathState
    <3>5. /\ ~(l < reader) /\ l < h => countedRead'[l] = countedRead[l] + Len(held')
          /\ l < reader \/ ~(l < h) => countedRead'[l] = countedRead[l]
      BY <2>1 DEF Counts
    <3>6. countedRead'[l] + Owed(l, reader, Len(held')) = countedRead[l] + Owed(l, h, Len(held'))
      <4>1. countedRead'[l] \in Nat
        BY DEF Counts
      <4>2. CountsUp(l, h, reader, Len(held'), countedRead[l], countedRead'[l])
        BY <1>5, <3>1, <3>4, <3>5, <4>1 DEF CountsUp
      <4> QED BY ONLY <4>2, Counted
    <3> QED BY <3>3, <3>4, <3>6, Zenon
  <2>2. \A l \in At(destination, "counter") : countedWrite'[l] = Len(delivered')
    BY <1>1 DEF CountedSoFar
  <2> QED BY <2>1, <2>2 DEF CountedSoFar, At
<1>7. Frontier'
  <2>1. Gone = delivered
    BY <1>1, <1>5, GoneIs, NothingJoined
  <2>2. Gone' = Gone \o held' /\ Gone \in Seq(Unit)
    BY <1>5, <2>1 DEF Gone
  <2> QED BY <1>1, <2>2, FrontierGrows DEF PathIInv, Takes
<1>8. ResultIsDelivered'
  BY DEF PathIInv, ResultIsDelivered
<1> QED BY <1>2, <1>3, <1>4, <1>6, <1>7, <1>8 DEF PathIInv

\* The buffers above a layer that is read hold nothing.
LEMMA AboveIsGone ==
  ASSUME PathTypeOK, NEW h \in Layers,
         \A l \in At(source, "cached") : l < h => buffer[l] \in {<< >>, <<<< >>>>}
  PROVE  \A l \in Layers : l < h => l \in At(source, "cached") /\ Left(l) = CachedUnits /\ Left(l) = All(l)
<1>1. ASSUME NEW l \in Layers, l < h PROVE l \in At(source, "cached") /\ Left(l) = CachedUnits /\ Left(l) = All(l)
  <2>1. /\ Len(source) \in Nat /\ \A k \in Layers : k # Len(source) => k \in At(source, "cached")
        /\ \A k \in At(source, "cached") : k \in Nat /\ k < Len(source) /\ All(k) = CachedUnits
    BY LayersAre, Chains
  <2>2. l \in At(source, "cached")
    BY <1>1, <2>1
  <2> QED BY <1>1, <2>1, <2>2, LeftIs
<1> QED BY <1>1

\* Reading down to the holder leaves nil buffers behind.
LEMMA EmptiedIs ==
  ASSUME PathTypeOK, Unwrapped
  PROVE  /\ DOMAIN Emptied(Holder) = At(source, "cached")
         /\ \A l \in At(source, "cached") :
              /\ l < Holder => Emptied(Holder)[l] = << >> /\ buffer[l] \in {<< >>, <<<< >>>>}
              /\ ~(l < Holder) => Emptied(Holder)[l] = buffer[l]
<1>1. DOMAIN buffer = At(source, "cached") /\ reader \in Nat /\ Len(source) \in Nat
  BY Chains DEF PathTypeOK
<1>2. Holder \in Nat
  BY <1>1, HolderIs
<1>3. ASSUME NEW l \in At(source, "cached"), l < Holder
      PROVE  Emptied(Holder)[l] = << >> /\ buffer[l] \in {<< >>, <<<< >>>>}
  <2>1. l \in Nat /\ source[l] = "cached"
    BY CountersAre
  <2>2. CASE l < reader
    BY <1>1, <2>2 DEF Unwrapped, Emptied
  <2>3. CASE ~(l < reader)
    <3>1. l \in reader .. Holder - 1
      BY <1>1, <1>2, <1>3, <2>1, <2>3
    <3> QED BY <1>1, <2>1, <3>1, HolderIs DEF Emptied
  <2> QED BY <2>2, <2>3
<1>4. ASSUME NEW l \in At(source, "cached"), ~(l < Holder) PROVE Emptied(Holder)[l] = buffer[l]
  <2>1. l \in Nat
    BY CountersAre
  <2>2. l \notin reader .. Holder - 1
    BY <1>1, <1>2, <1>4, <2>1
  <2> QED BY <1>1, <2>2 DEF Emptied
<1> QED BY <1>1, <1>3, <1>4 DEF Emptied
\* The connection is read when no layer above it holds anything.
LEMMA SocketTakes ==
  ASSUME PathIInv, pc = "read", path = "pool" => Holder = Len(source), UNCHANGED <<packets, source>>,
         NEW k \in Nat, arrived + k <= MaxUnits, arrived' = arrived + k,
         held' = [i \in 1 .. k |-> <<Len(source), arrived + i>>],
         buffer' = IF path = "pool" THEN Emptied(Len(source)) ELSE buffer
  PROVE  /\ Takes(Len(source)) /\ Len(held') = k /\ BuffersHoldRests' /\ arrived' \in 0 .. MaxUnits
         /\ DOMAIN buffer' = At(source, "cached")
         /\ \A l \in At(source, "cached") : Len(buffer'[l]) <= 1
<1>1. PathTypeOK /\ PathState /\ Unwrapped /\ PathFits
  BY DEF PathIInv, PathState
<1>2. DOMAIN buffer = At(source, "cached") /\ arrived \in Nat /\ MaxUnits \in Nat
  BY <1>1, PathAssumption DEF PathTypeOK
<1>3. /\ Len(source) \in Nat /\ Len(source) \in Layers /\ CachedUnits \in Nat /\ All(Len(source)) = MaxUnits
      /\ \A l \in At(source, "cached") : l \in Nat /\ l # Len(source) /\ l < Len(source)
      /\ \A l \in Layers : l # Len(source) => l \in At(source, "cached")
  BY <1>1, LayersAre, Chains
<1>4. /\ DOMAIN buffer' = At(source, "cached")
      /\ \A l \in At(source, "cached") : buffer[l] \in {<< >>, <<<< >>>>} /\ buffer'[l] = << >>
  <2>1. CASE path = "pool"
    BY <1>1, <1>3, <2>1, EmptiedIs
  <2>2. CASE path # "pool"
    BY <1>1, <1>2, <2>2 DEF PathFits
  <2> QED BY <2>1, <2>2
<1>5. \A l \in Layers : l < Len(source) => Left(l) = CachedUnits /\ Left(l) = All(l)
  BY <1>1, <1>3, <1>4, AboveIsGone
<1>6. \A l \in Layers : /\ l = Len(source) => Left(l) = arrived /\ Left(l)' = arrived + k
                        /\ l # Len(source) => Left(l)' = CachedUnits
  BY <1>3, <1>4 DEF Left, CachedUnits
<1>7. Lefts'[Len(source)] = arrived + k /\ \A l \in Layers : l # Len(source) => Lefts'[l] = Left(l)
  <2>1. Layers' = Layers
    BY DEF Layers, At
  <2>2. \A l \in Layers : Lefts'[l] = Left(l)'
    BY <2>1 DEF Lefts
  <2> QED BY <1>3, <1>5, <1>6, <2>2
<1>8. /\ held' \in Seq(Unit) /\ Len(held') = k
      /\ \A i \in 1 .. Len(held') : held'[i] = <<Len(source), arrived + i>>
  <2>1. \A i \in 1 .. k : <<Len(source), arrived + i>> \in Unit
    BY <1>2, <1>3 DEF Unit
  <2> QED BY <2>1
<1>9. Takes(Len(source))
  BY <1>3, <1>4, <1>5, <1>6, <1>7, <1>8 DEF Takes
<1>10. BuffersHoldRests' /\ \A l \in At(source, "cached") : Len(buffer'[l]) <= 1
  BY <1>4, EmptySeq DEF BuffersHoldRests, At
<1>11. arrived' \in 0 .. MaxUnits
  BY <1>2
<1> QED BY <1>4, <1>8, <1>9, <1>10, <1>11

LEMMA SyscallErrorStep ==
  ASSUME PathIInv, HandleSyscallReadError
  PROVE  PathIInv'
<1> USE DEF chainVars, layerVars, sessionVars, countVars
<1>1. PathTypeOK /\ PathState
  BY DEF PathIInv, PathState
<1>2. /\ pc = "read" /\ path = "splice" /\ pc' = "nil cause" /\ arrived < MaxUnits /\ arrived' = arrived + 1
      /\ held' = <<<<Len(source), arrived + 1>>>>
      /\ UNCHANGED <<packets, source, destination, buffer, cacheTaken, needRead, needWrite, closing, reader,
                     writer, readCounters, writeCounters, path, n, delivered, handed, countedRead, countedWrite>>
  BY DEF HandleSyscallReadError, Socket
<1>3. held' = [i \in 1 .. 1 |-> <<Len(source), arrived + i>>] /\ arrived + 1 <= MaxUnits
  <2>1. arrived \in 0 .. MaxUnits /\ MaxUnits \in Nat
    BY <1>1, PathAssumption, Zenon DEF PathTypeOK
  <2>2. <<<<Len(source), arrived + 1>>>> = [i \in 1 .. 1 |-> <<Len(source), arrived + i>>]
    OBVIOUS
  <2>3. arrived + 1 <= MaxUnits
    <3>1. arrived < MaxUnits
      BY <1>2, Zenon
    <3> QED BY ONLY <2>1, <3>1
  <2> QED BY <1>2, <2>2, <2>3, Zenon
<1>4. /\ Takes(Len(source)) /\ BuffersHoldRests' /\ arrived' \in 0 .. MaxUnits
  BY <1>2, <1>3, SocketTakes
<1>5. PathTypeOK'
  BY <1>1, <1>2, <1>4 DEF PathTypeOK, At
<1>6. Counts(Len(source))
  BY <1>1, <1>2 DEF Counts, PathState
<1>7. Len(source) \in Layers /\ reader <= Len(source)
  BY <1>1, LayersAre, Chains
<1> QED BY <1>2, <1>4, <1>5, <1>6, <1>7, ReadStep

LEMMA ReadSocketStep ==
  ASSUME PathIInv, NEW k \in 1 .. 2, ReadSocket(k)
  PROVE  PathIInv'
<1> USE DEF chainVars, sessionVars
<1>1. PathTypeOK /\ PathState /\ Unwrapped /\ PathFits
  BY DEF PathIInv, PathState
<1>2. /\ pc = "read" /\ (path = "pool" => Holder = Len(source)) /\ pc' = "write"
      /\ arrived + k <= MaxUnits /\ arrived' = arrived + k
      /\ held' = [i \in 1 .. k |-> <<Len(source), arrived + i>>]
      /\ buffer' = (IF path = "pool" THEN Emptied(Len(source)) ELSE buffer)
      /\ countedRead' = Call(countedRead, CountsInReading, k)
      /\ UNCHANGED <<packets, source, destination, cacheTaken, needRead, needWrite, closing, reader, writer,
                     readCounters, writeCounters, path, n, delivered, handed, countedWrite>>
  BY DEF ReadSocket, Socket
<1>3. /\ Takes(Len(source)) /\ Len(held') = k /\ BuffersHoldRests' /\ arrived' \in 0 .. MaxUnits
      /\ DOMAIN buffer' = At(source, "cached") /\ \A l \in At(source, "cached") : Len(buffer'[l]) <= 1
  BY <1>2, SocketTakes
<1>4. PathTypeOK'
  <2>1. cacheTaken' = cacheTaken /\ DOMAIN cacheTaken = At(source, "cached")
    BY <1>1, <1>2 DEF PathState
  <2> QED BY <1>1, <1>2, <1>3, <2>1 DEF PathTypeOK, At
<1>5. Len(source) \in Layers /\ reader <= Len(source) /\ Len(source) \in Nat
  BY <1>1, LayersAre, Chains
<1>6. /\ CountsInReading \in [At(source, "counter") -> {0, 1}]
      /\ \A l \in At(source, "counter") : CountsInReading[l] = 1 <=> ~(l < reader) /\ l < Len(source)
  <2>1. CASE path \in {"pool", "batch"}
    BY <1>1, <1>5, <2>1, CountersBetween DEF CountsInReading, Socket
  <2>2. CASE path \notin {"pool", "batch"}
    <3>1. path \in {"splice", "wait", "vectorised"}
      BY <1>1, <1>2, <2>2 DEF PathFits, PathTypeOK
    <3>2. \A l \in At(source, "counter") : l < reader
      BY <1>1, <1>2, <3>1 DEF PathFits, NoCounterFrom
    <3> QED BY <2>2, <3>2 DEF CountsInReading, NoCounters
  <2> QED BY <2>1, <2>2
<1>7. Counts(Len(source))
  <2>1. countedRead \in [At(source, "counter") -> Nat] /\ k \in Nat
    BY <1>1 DEF PathState
  <2> DEFINE cs == CountsInReading
             c == Call(countedRead, cs, k)
  <2> HIDE DEF cs
  <2>2. cs \in [At(source, "counter") -> {0, 1}]
    BY <1>6 DEF cs
  <2>3. /\ c \in [At(source, "counter") -> Nat]
        /\ \A l \in At(source, "counter") : cs[l] = 1 => c[l] = countedRead[l] + k
        /\ \A l \in At(source, "counter") : cs[l] # 1 => c[l] = countedRead[l]
    <3>1. Called(At(source, "counter"), countedRead, cs, k, c)
      BY <2>1, <2>2, CallIs, Zenon
    <3> QED BY <3>1 DEF Called
  <2> HIDE DEF c
  <2>4. countedRead' = c /\ \A l \in At(source, "counter") : cs[l] = 1 <=> ~(l < reader) /\ l < Len(source)
    BY <1>2, <1>6 DEF c, cs
  <2> QED BY <1>3, <2>3, <2>4 DEF Counts
<1> QED BY <1>2, <1>3, <1>4, <1>5, <1>7, ReadStep
\* A buffer is taken from the front.
LEMMA RestSplits ==
  ASSUME PathTypeOK, NEW l \in Nat, NEW s \in 0 .. CachedUnits, NEW k \in 1 .. CachedUnits - s
  PROVE  /\ SubSeq(Rest(l, s), 1, k) = [i \in 1 .. k |-> <<l, s + i>>]
         /\ SubSeq(Rest(l, s), k + 1, Len(Rest(l, s))) = Rest(l, s + k)
         /\ s + k \in 0 .. CachedUnits /\ k \in Nat
<1>1. CachedUnits \in Nat /\ s \in Nat /\ s <= CachedUnits
  BY LayersAre
<1>2. /\ Rest(l, s) \in Seq(Unit) /\ Len(Rest(l, s)) = CachedUnits - s
      /\ \A i \in 1 .. CachedUnits - s : Rest(l, s)[i] = <<l, s + i>>
  BY RestIs
<1> DEFINE m == CachedUnits - s
           r == Rest(l, s)
<1>3. m \in Nat /\ 1 <= k /\ k <= m /\ k \in Nat
  BY <1>1
<1> HIDE DEF m, r
<1>4. /\ r \in Seq(Unit) /\ Len(r) = m /\ \A i \in 1 .. m : r[i] = <<l, s + i>>
      /\ CachedUnits - (s + k) = m - k
  BY <1>1, <1>2, <1>3 DEF m, r
<1>5. SubSeq(r, 1, k) = [i \in 1 .. k |-> <<l, s + i>>]
  <2>1. SubSeq(r, 1, k) = [i \in 1 .. k |-> r[i]]
    BY <1>3, <1>4
  <2>2. \A i \in 1 .. k : r[i] = <<l, s + i>>
    BY <1>3, <1>4
  <2> QED BY <2>1, <2>2
<1>6. SubSeq(r, k + 1, m) = [i \in 1 .. m - k |-> <<l, (s + k) + i>>]
  <2>1. SubSeq(r, k + 1, m) = [i \in 1 .. m - k |-> r[k + i]]
    BY <1>3, <1>4
  <2>2. \A i \in 1 .. m - k : k + i \in 1 .. m /\ s + (k + i) = (s + k) + i
    BY <1>1, <1>3
  <2>3. \A i \in 1 .. m - k : r[k + i] = <<l, (s + k) + i>>
    BY <1>4, <2>2
  <2> QED BY <2>1, <2>3
<1>7. s + k \in 0 .. CachedUnits
  BY <1>1, <1>3 DEF m
<1> QED BY <1>3, <1>4, <1>5, <1>6, <1>7 DEF Rest, r
\* The pool loop reads a buffer, or a part of it.
LEMMA ReadCachedLayerStep ==
  ASSUME PathIInv, ReadCachedLayer
  PROVE  PathIInv'
<1> USE DEF chainVars, sessionVars
<1>1. PathTypeOK /\ PathState /\ Unwrapped /\ BuffersHoldRests
  BY DEF PathIInv, PathState
<1> DEFINE h == Holder
           E == Emptied(Holder)
<1>2. PICK k \in 1 .. Len(buffer[h][1]) :
        /\ packets => k = Len(buffer[h][1])
        /\ held' = SubSeq(buffer[h][1], 1, k)
        /\ buffer' = [E EXCEPT ![h] = IF packets THEN << >> ELSE <<SubSeq(@[1], k + 1, Len(@[1]))>>]
        /\ countedRead' = Call(countedRead, Counters(source, reader, h), k)
  BY DEF ReadCachedLayer
<1>3. /\ pc = "read" /\ path = "pool" /\ h # Len(source) /\ pc' = "write"
      /\ UNCHANGED <<packets, source, destination, cacheTaken, needRead, needWrite, closing, reader, writer,
                     readCounters, writeCounters, path, n, arrived, delivered, handed, countedWrite>>
  BY DEF ReadCachedLayer, Socket
<1>4. /\ h \in At(source, "cached") /\ reader <= h /\ buffer[h] # << >>
      /\ DOMAIN E = At(source, "cached") /\ E[h] = buffer[h]
      /\ \A l \in At(source, "cached") :
           /\ l < h => E[l] = << >> /\ buffer[l] \in {<< >>, <<<< >>>>}
           /\ ~(l < h) => E[l] = buffer[l]
  <2>1. h \in 1 .. Len(source) /\ reader <= h /\ source[h] = "cached" /\ buffer[h] # << >>
    BY <1>1, <1>3, HolderIs
  <2>2. /\ DOMAIN E = At(source, "cached")
        /\ \A l \in At(source, "cached") :
           /\ l < h => E[l] = << >> /\ buffer[l] \in {<< >>, <<<< >>>>}
           /\ ~(l < h) => E[l] = buffer[l]
    BY <1>1, EmptiedIs
  <2>3. h \in Nat /\ ~(h < h)
    BY <1>1, <2>1, Chains
  <2> QED BY <2>1, <2>2, <2>3 DEF At
<1> HIDE DEF h, E
<1>5. h \in Nat /\ h \in Layers /\ All(h) = CachedUnits /\ CachedUnits \in Nat
  BY <1>1, <1>4, LayersAre
<1>6. PICK s \in 0 .. CachedUnits : buffer[h] = <<Rest(h, s)>>
  BY <1>1, <1>4 DEF BuffersHoldRests
<1>7. buffer[h][1] = Rest(h, s) /\ Left(h) = s /\ Len(Rest(h, s)) = CachedUnits - s
  BY <1>1, <1>4, <1>5, <1>6, LeftIs, RestIs
<1>8. k \in 1 .. CachedUnits - s
  BY <1>2, <1>7
<1>9. /\ held' = [i \in 1 .. k |-> <<h, s + i>>]
      /\ SubSeq(Rest(h, s), k + 1, Len(Rest(h, s))) = Rest(h, s + k)
      /\ s + k \in 0 .. CachedUnits /\ k \in Nat
  <2>1. /\ SubSeq(Rest(h, s), 1, k) = [i \in 1 .. k |-> <<h, s + i>>]
        /\ SubSeq(Rest(h, s), k + 1, Len(Rest(h, s))) = Rest(h, s + k)
        /\ s + k \in 0 .. CachedUnits /\ k \in Nat
    BY <1>1, <1>5, <1>8, RestSplits
  <2>2. held' = SubSeq(Rest(h, s), 1, k)
    BY <1>2, <1>7
  <2> QED BY <2>1, <2>2, Zenon
<1>10. held' \in Seq(Unit) /\ Len(held') = k /\ \A i \in 1 .. Len(held') : held'[i] = <<h, s + i>>
  <2>1. \A i \in 1 .. k : <<h, s + i>> \in Unit
    BY <1>5, <1>9 DEF Unit
  <2> DEFINE e == [i \in 1 .. k |-> <<h, s + i>>]
  <2>2. e \in Seq(Unit) /\ Len(e) = k /\ \A i \in 1 .. k : e[i] = <<h, s + i>>
    <3>1. k \in Nat
      BY <1>9
    <3> QED BY ONLY <2>1, <3>1
  <2>3. held' = e
    BY <1>9
  <2> QED BY ONLY <2>2, <2>3
<1>11. /\ DOMAIN buffer' = At(source, "cached")
       /\ packets => buffer'[h] = << >> /\ s + k = CachedUnits
       /\ ~packets => buffer'[h] = <<Rest(h, s + k)>>
       /\ \A l \in At(source, "cached") : l # h => buffer'[l] = E[l]
  <2>1. buffer' = [E EXCEPT ![h] = IF packets THEN << >> ELSE <<Rest(h, s + k)>>]
    BY <1>2, <1>4, <1>7, <1>9
  <2>2. packets => s + k = CachedUnits
    BY <1>2, <1>5, <1>7
  <2> QED BY <1>4, <2>1, <2>2
<1>12. \A l \in At(source, "cached") :
         /\ l # h => buffer'[l] = buffer[l] \/ (buffer'[l] = << >> /\ buffer[l] = <<<< >>>>)
         /\ l = h => buffer'[l] = << >> \/ buffer'[l] = <<Rest(h, s + k)>>
  BY <1>4, <1>11
<1>13. \A l \in Layers : (l = h => Left(l)' = s + k) /\ (l # h => Left(l)' = Left(l))
  <2>1. ASSUME NEW l \in Layers, l # h, l # Len(source) PROVE Left(l)' = Left(l)
    <3>1. l \in At(source, "cached")
      BY <1>1, <2>1, LayersAre
    <3>2. CASE buffer'[l] = buffer[l]
      BY <1>3, <3>2 DEF Left, CachedUnits
    <3>3. CASE buffer'[l] = << >> /\ buffer[l] = <<<< >>>>
      <4>1. Left(l) = CachedUnits
        BY <1>1, <3>1, <3>3, LeftIs
      <4> QED BY <1>3, <2>1, <3>3, <4>1 DEF Left, CachedUnits
    <3> QED BY <1>12, <2>1, <3>1, <3>2, <3>3
  <2>2. ASSUME NEW l \in Layers, l = Len(source) PROVE Left(l)' = Left(l)
    BY <1>3, <2>2 DEF Left
  <2>3. ASSUME NEW l \in Layers, l = h PROVE Left(l)' = s + k
    <3>0. l # Len(source) /\ l \in At(source, "cached")
      BY <1>3, <1>4, <2>3
    <3>1. CASE packets
      <4>1. buffer'[l] = << >> /\ s + k = CachedUnits
        BY <1>11, <2>3, <3>1
      <4> QED BY <1>3, <3>0, <4>1 DEF Left, CachedUnits
    <3>2. CASE ~packets
      <4>1. buffer'[l] = <<Rest(h, s + k)>>
        BY <1>11, <2>3, <3>2
      <4>2. buffer'[l] # << >> /\ buffer'[l][1] = Rest(h, s + k)
        BY <4>1
      <4>3. Left(l)' = CachedUnits - Len(Rest(h, s + k))
        BY <1>3, <3>0, <4>2 DEF Left, CachedUnits
      <4>4. Len(Rest(h, s + k)) = CachedUnits - (s + k)
        BY <1>1, <1>5, <1>9, RestIs
      <4> QED BY ONLY <1>5, <1>9, <4>3, <4>4
    <3> QED BY <3>1, <3>2
  <2> QED BY <2>1, <2>2, <2>3
<1>14. Takes(h)
  <2>1. Layers' = Layers
    BY <1>3 DEF Layers, At
  <2>2. \A l \in Layers : Lefts'[l] = Left(l)'
    BY <2>1 DEF Lefts
  <2>3. Lefts'[h] = Left(h) + Len(held') /\ \A l \in Layers : l # h => Lefts'[l] = Left(l)
    BY <1>5, <1>7, <1>10, <1>13, <2>2
  <2>4. \A l \in Layers : l < h => Left(l) = All(l)
    BY <1>1, <1>4, <1>5, AboveIsGone
  <2>5. Left(h) + Len(held') <= All(h)
    BY <1>5, <1>7, <1>9, <1>10
  <2>6. \A l \in At(source, "cached") : buffer[l] = << >> => buffer'[l] = << >>
    BY <1>4, <1>11
  <2> QED BY <1>7, <1>10, <2>3, <2>4, <2>5, <2>6 DEF Takes
<1>15. Counts(h)
  <2> DEFINE cs == Counters(source, reader, h)
             c == Call(countedRead, cs, k)
  <2>1. countedRead \in [At(source, "counter") -> Nat]
    BY <1>1 DEF PathState
  <2>2. /\ cs \in [At(source, "counter") -> {0, 1}]
        /\ \A l \in At(source, "counter") : cs[l] = 1 <=> ~(l < reader) /\ l < h
    BY <1>1, <1>5, CountersBetween
  <2> HIDE DEF cs
  <2>3. /\ c \in [At(source, "counter") -> Nat]
        /\ \A l \in At(source, "counter") : cs[l] = 1 => c[l] = countedRead[l] + k
        /\ \A l \in At(source, "counter") : cs[l] # 1 => c[l] = countedRead[l]
    <3>1. Called(At(source, "counter"), countedRead, cs, k, c)
      BY <2>1, <2>2, <1>9, CallIs, Zenon
    <3> QED BY <3>1 DEF Called
  <2>4. countedRead' = c
    BY <1>2 DEF cs
  <2> HIDE DEF c
  <2> QED BY <1>10, <2>2, <2>3, <2>4 DEF Counts
<1>16. BuffersHoldRests'
  <2>1. \A l \in At(source, "cached") :
          buffer'[l] = << >> \/ \E t \in 0 .. CachedUnits : buffer'[l] = <<Rest(l, t)>>
    <3> TAKE l \in At(source, "cached")
    <3>1. CASE l = h
      BY <1>9, <1>12, <3>1
    <3>2. CASE l # h
      <4>1. buffer[l] = << >> \/ \E t \in 0 .. CachedUnits : buffer[l] = <<Rest(l, t)>>
        BY <1>1 DEF BuffersHoldRests
      <4> QED BY <1>12, <3>2, <4>1
    <3> QED BY <3>1, <3>2
  <2> QED BY <1>3, <2>1 DEF BuffersHoldRests, Rest, CachedUnits, At
<1>17. PathTypeOK'
  <2>1. DOMAIN cacheTaken' = At(source, "cached")
    BY <1>1, <1>3 DEF PathState
  <2>2. \A l \in At(source, "cached") : Len(buffer'[l]) <= 1
    <3>1. \A l \in At(source, "cached") : Len(buffer[l]) <= 1
      BY <1>1 DEF PathTypeOK
    <3>2. Len(<< >>) <= 1 /\ Len(<<Rest(h, s + k)>>) <= 1
      BY EmptySeq
    <3> QED BY <1>12, <3>1, <3>2
  <2> QED BY <1>1, <1>3, <1>11, <2>1, <2>2 DEF PathTypeOK, At
<1> QED BY <1>3, <1>4, <1>5, <1>14, <1>15, <1>16, <1>17, ReadStep-----------------------------------------------------------------------------
\* What was read is written: the counters below writer count it at once.
LEMMA WriteStep ==
  ASSUME PathIInv, Write
  PROVE  PathIInv'
<1> USE DEF chainVars, layerVars, sessionVars
<1>1. PathTypeOK /\ PathState /\ Unwrapped /\ CountedSoFar /\ PathFits
  BY DEF PathIInv, PathState
<1>2. /\ pc = "write" /\ pc' = "transfer" /\ delivered' = delivered \o held /\ n' = n + Len(held)
      /\ countedWrite' = Call(countedWrite, CountsInWriting, Len(held))
      /\ UNCHANGED <<packets, source, destination, buffer, cacheTaken, needRead, needWrite, closing,
                     reader, writer, readCounters, writeCounters, path, held, arrived, handed, countedRead>>
  BY DEF Write
<1>3. delivered \in Seq(Unit) /\ held \in Seq(Unit) /\ handed \in Nat /\ n \in Nat
  BY <1>1 DEF PathState, PathTypeOK
<1>4. /\ delivered' \in Seq(Unit) /\ Len(delivered) \in Nat /\ Len(held) \in Nat
      /\ Len(delivered') = Len(delivered) + Len(held)
  BY <1>2, <1>3, Joined
<1>5. /\ CountsInWriting \in [At(destination, "counter") -> {0, 1}]
      /\ \A l \in At(destination, "counter") : CountsInWriting[l] = 1 <=> ~(l < writer)
  <2>1. CASE path \in {"pool", "wait", "batch"}
    BY <1>1, <2>1, CountersBetween DEF CountsInWriting
  <2>2. CASE path \notin {"pool", "wait", "batch"}
    <3>1. path \in {"splice", "vectorised"}
      BY <1>1, <1>2, <2>2 DEF PathFits, PathTypeOK
    <3>2. \A l \in At(destination, "counter") : l < writer
      BY <1>1, <1>2, <3>1 DEF PathFits, NoCounterFrom
    <3> QED BY <2>2, <3>2 DEF CountsInWriting, NoCounters
  <2> QED BY <2>1, <2>2
<1>6. /\ countedWrite' \in [At(destination, "counter") -> Nat]
      /\ \A l \in At(destination, "counter") :
           /\ ~(l < writer) => countedWrite'[l] = countedWrite[l] + Len(held)
           /\ l < writer => countedWrite'[l] = countedWrite[l]
  <2> DEFINE cs == CountsInWriting
             c == Call(countedWrite, cs, Len(held))
  <2> HIDE DEF cs
  <2>1. countedWrite \in [At(destination, "counter") -> Nat] /\ Len(held) \in Nat
    BY <1>1, <1>4 DEF PathState
  <2>2. /\ cs \in [At(destination, "counter") -> {0, 1}]
        /\ \A l \in At(destination, "counter") : cs[l] = 1 <=> ~(l < writer)
    BY <1>5 DEF cs
  <2>3. /\ c \in [At(destination, "counter") -> Nat]
        /\ \A l \in At(destination, "counter") : cs[l] = 1 => c[l] = countedWrite[l] + Len(held)
        /\ \A l \in At(destination, "counter") : cs[l] # 1 => c[l] = countedWrite[l]
    <3>1. Called(At(destination, "counter"), countedWrite, cs, Len(held), c)
      BY <2>1, <2>2, CallIs, Zenon
    <3> QED BY <3>1 DEF Called
  <2>4. countedWrite' = c
    BY <1>2 DEF cs
  <2> HIDE DEF c
  <2> QED BY <2>2, <2>3, <2>4
<1>7. PathState'
  <2>1. PathTypeOK' /\ handed' \in Nat
    BY <1>1, <1>2, <1>3, <1>4 DEF PathTypeOK, At
  <2>2. UNCHANGED <<source, destination, cacheTaken, held, countedRead>>
    BY <1>2
  <2> QED BY <1>1, <1>4, <1>6, <2>1, <2>2 DEF PathState, At
<1>8. BuffersHoldRests' /\ Unwrapped' /\ PathFits'
  <2>1. UNCHANGED <<packets, source, destination, buffer, reader, writer, readCounters, writeCounters, path>>
    BY <1>2
  <2>2. BuffersHoldRests' /\ Unwrapped'
    BY <2>1 DEF PathIInv, BuffersHoldRests, Rest, CachedUnits, At, Unwrapped
  <2>3. PathFits'
    BY <1>1, <1>2, <2>1 DEF PathFits, NoCounterFrom, At
  <2> QED BY <2>2, <2>3
<1>9. CountedSoFar'
  <2>1. \A l \in At(source, "counter") : countedRead[l] + Owed(l, reader, Len(held)) = Below(delivered', l)
    BY <1>1, <1>2 DEF CountedSoFar
  <2>2. ASSUME NEW l \in At(destination, "counter")
        PROVE  countedWrite'[l] + Owed(l, writer, Len(held)) = Len(delivered')
    <3>1. countedWrite[l] = Len(delivered) /\ countedWrite[l] \in Nat
      BY <1>1, <1>2 DEF CountedSoFar, PathState
    <3>2. CASE l < writer
      BY ONLY <1>4, <1>6, <3>1, <3>2 DEF Owed
    <3>3. CASE ~(l < writer)
      BY ONLY <1>4, <1>6, <3>1, <3>3 DEF Owed
    <3> QED BY <3>2, <3>3
  <2>3. UNCHANGED <<source, destination, reader, writer, held, countedRead>> /\ pc' = "transfer"
    BY <1>2
  <2> QED BY <2>1, <2>2, <2>3 DEF CountedSoFar, At
<1>10. Frontier'
  <2>1. Gone = delivered' /\ delivered' \o << >> = delivered'
    BY <1>1, <1>2, <1>4, GoneIs, NothingJoined
  <2>2. Gone' = Gone
    BY <1>2, <2>1 DEF Gone
  <2> QED BY <1>2, <2>2, FrontierStays DEF PathIInv
<1>11. ResultIsDelivered'
  <2>1. Len(delivered) = n + (IF packets THEN 0 ELSE handed)
    BY DEF PathIInv, ResultIsDelivered
  <2>2. n' = n + Len(held) /\ UNCHANGED <<packets, handed>>
    BY <1>2
  <2>3. Len(delivered') = n' + (IF packets THEN 0 ELSE handed)
    <3>1. CASE packets
      BY ONLY <1>3, <1>4, <2>1, <2>2, <3>1
    <3>2. CASE ~packets
      BY ONLY <1>3, <1>4, <2>1, <2>2, <3>2
    <3> QED BY <3>1, <3>2
  <2> QED BY <2>2, <2>3 DEF ResultIsDelivered
<1> QED BY <1>7, <1>8, <1>9, <1>10, <1>11 DEF PathIInv

\* The session calls the counters that were unwrapped, and unwraps further
\* when a handshake is done.
LEMMA TransferStep ==
  ASSUME PathIInv, Transfer
  PROVE  PathIInv'
<1> USE DEF chainVars, layerVars
<1>1. PathTypeOK /\ PathState /\ Unwrapped /\ CountedSoFar /\ PathFits
  BY DEF PathIInv, PathState
<1>2. /\ pc = "transfer" /\ held' = << >> /\ pc' \in {"path", "read"}
      /\ countedRead' = Call(countedRead, readCounters, Len(held))
      /\ countedWrite' = Call(countedWrite, writeCounters, Len(held))
      /\ UNCHANGED <<packets, source, destination, buffer, cacheTaken, needRead, needWrite, closing,
                     path, n, arrived, delivered, handed>>
  BY DEF Transfer, refreshUnwrap
<1>3. delivered \in Seq(Unit) /\ held \in Seq(Unit) /\ Len(held) \in Nat /\ << >> \in Seq(Unit)
  BY <1>1, LenProperties, NothingJoined DEF PathState
<1>4. /\ countedRead' \in [At(source, "counter") -> Nat]
      /\ \A l \in At(source, "counter") : countedRead'[l] = countedRead[l] + Owed(l, reader, Len(held))
  <2> DEFINE c == Call(countedRead, readCounters, Len(held))
  <2>1. countedRead \in [At(source, "counter") -> Nat] /\ Len(held) \in Nat
    BY <1>1, <1>3 DEF PathState
  <2>2. /\ readCounters \in [At(source, "counter") -> {0, 1}]
        /\ \A l \in At(source, "counter") : readCounters[l] = 1 <=> l < reader
    BY <1>1, CountersBetween
  <2>3. /\ c \in [At(source, "counter") -> Nat]
        /\ \A l \in At(source, "counter") : readCounters[l] = 1 => c[l] = countedRead[l] + Len(held)
        /\ \A l \in At(source, "counter") : readCounters[l] # 1 => c[l] = countedRead[l]
    <3>1. Called(At(source, "counter"), countedRead, readCounters, Len(held), c)
      BY <2>1, <2>2, CallIs, Zenon
    <3> QED BY <3>1 DEF Called
  <2>4. countedRead' = c
    BY <1>2
  <2> HIDE DEF c
  <2>5. ASSUME NEW l \in At(source, "counter") PROVE c[l] = countedRead[l] + Owed(l, reader, Len(held))
    <3>1. countedRead[l] \in Nat
      BY <2>1
    <3>2. l < reader => c[l] = countedRead[l] + Len(held)
      BY <2>2, <2>3
    <3>3. ~(l < reader) => c[l] = countedRead[l]
      BY <2>2, <2>3
    <3> QED BY ONLY <3>1, <3>2, <3>3 DEF Owed
  <2> QED BY <2>3, <2>4, <2>5
<1>5. /\ countedWrite' \in [At(destination, "counter") -> Nat]
      /\ \A l \in At(destination, "counter") : countedWrite'[l] = countedWrite[l] + Owed(l, writer, Len(held))
  <2> DEFINE c == Call(countedWrite, writeCounters, Len(held))
  <2>1. countedWrite \in [At(destination, "counter") -> Nat] /\ Len(held) \in Nat
    BY <1>1, <1>3 DEF PathState
  <2>2. /\ writeCounters \in [At(destination, "counter") -> {0, 1}]
        /\ \A l \in At(destination, "counter") : writeCounters[l] = 1 <=> l < writer
    BY <1>1, CountersBetween
  <2>3. /\ c \in [At(destination, "counter") -> Nat]
        /\ \A l \in At(destination, "counter") : writeCounters[l] = 1 => c[l] = countedWrite[l] + Len(held)
        /\ \A l \in At(destination, "counter") : writeCounters[l] # 1 => c[l] = countedWrite[l]
    <3>1. Called(At(destination, "counter"), countedWrite, writeCounters, Len(held), c)
      BY <2>1, <2>2, CallIs, Zenon
    <3> QED BY <3>1 DEF Called
  <2>4. countedWrite' = c
    BY <1>2
  <2> HIDE DEF c
  <2>5. ASSUME NEW l \in At(destination, "counter") PROVE c[l] = countedWrite[l] + Owed(l, writer, Len(held))
    <3>1. countedWrite[l] \in Nat
      BY <2>1
    <3>2. l < writer => c[l] = countedWrite[l] + Len(held)
      BY <2>2, <2>3
    <3>3. ~(l < writer) => c[l] = countedWrite[l]
      BY <2>2, <2>3
    <3> QED BY ONLY <3>1, <3>2, <3>3 DEF Owed
  <2> QED BY <2>3, <2>4, <2>5
<1>6. reader' \in 1 .. Len(source) /\ writer' \in 1 .. Len(destination) /\ Unwrapped' /\ PathFits'
  <2>1. CASE refreshUnwrap
    <3> DEFINE r == UnwrapCountReader(reader)
               w == UnwrapCountWriter(writer)
    <3>1. /\ Plus(readCounters, Counters(source, reader, r))
               = [l \in At(source, "counter") |-> IF l < r THEN 1 ELSE 0]
          /\ Plus(writeCounters, Counters(destination, writer, w))
               = [l \in At(destination, "counter") |-> IF l < w THEN 1 ELSE 0]
          /\ \A l \in At(source, "cached") : l < r => buffer[l] = << >>
          /\ r \in 1 .. Len(source) /\ w \in 1 .. Len(destination)
      BY <1>1, UnwrapMoves
    <3>2. /\ reader' = r /\ readCounters' = Plus(readCounters, Counters(source, reader, r))
          /\ writer' = w /\ writeCounters' = Plus(writeCounters, Counters(destination, writer, w))
          /\ pc' = "path"
      BY <2>1 DEF refreshUnwrap
    <3> HIDE DEF r, w
    <3>3. Unwrapped'
      BY <1>2, <3>1, <3>2 DEF Unwrapped, At
    <3> QED BY <3>1, <3>2, <3>3 DEF PathFits
  <2>2. CASE UNCHANGED sessionVars
    <3>1. UNCHANGED <<source, destination, buffer, path, reader, writer, readCounters, writeCounters>>
      BY <1>2, <2>2 DEF sessionVars
    <3>2. Unwrapped'
      BY <1>1, <3>1 DEF Unwrapped, At
    <3>3. PathFits'
      BY <1>1, <1>2, <3>1 DEF PathFits, NoCounterFrom, At
    <3> QED BY <1>1, <3>1, <3>2, <3>3 DEF PathTypeOK
  <2> QED BY <2>1, <2>2 DEF Transfer
<1>7. PathState'
  <2>1. PathTypeOK'
    BY <1>1, <1>2, <1>6 DEF PathTypeOK, At
  <2>2. UNCHANGED <<source, destination, cacheTaken, delivered, handed>> /\ held' \in Seq(Unit)
    BY <1>2, <1>3
  <2> QED BY <1>1, <1>4, <1>5, <2>1, <2>2 DEF PathState, At
<1>8. BuffersHoldRests'
  BY <1>2 DEF PathIInv, BuffersHoldRests, Rest, CachedUnits, At
<1>9. CountedSoFar'
  <2>1. \A l \in At(source, "counter") : countedRead'[l] = Below(delivered, l)
    BY <1>1, <1>2, <1>4 DEF CountedSoFar
  <2>2. \A l \in At(destination, "counter") : countedWrite'[l] = Len(delivered)
    BY <1>1, <1>2, <1>5 DEF CountedSoFar
  <2>3. UNCHANGED <<source, destination, delivered>> /\ held' = << >> /\ pc' \in {"path", "read"}
    BY <1>2
  <2> QED BY <2>1, <2>2, <2>3 DEF CountedSoFar, At
<1>10. Frontier'
  <2>1. Gone = delivered /\ delivered \o << >> = delivered
    BY <1>1, <1>2, <1>3, GoneIs, NothingJoined
  <2>2. Gone' = Gone
    BY <1>2, <2>1 DEF Gone
  <2> QED BY <1>2, <2>2, FrontierStays DEF PathIInv
<1>11. ResultIsDelivered'
  BY <1>2 DEF PathIInv, ResultIsDelivered
<1> QED BY <1>6, <1>7, <1>8, <1>9, <1>10, <1>11 DEF PathIInv-----------------------------------------------------------------------------
\* At first every buffer is full and nothing has gone.
LEMMA PathStarts ==
  ASSUME PathInit
  PROVE  PathIInv
<1>1. /\ packets \in BOOLEAN /\ source \in Sources /\ destination \in Destinations
      /\ buffer = [l \in At(source, "cached") |-> <<Units(l, CachedUnits)>>]
      /\ cacheTaken = [l \in At(source, "cached") |-> FALSE]
      /\ needRead = At(source, "early")
      /\ needWrite = At(destination, "early") \cup At(destination, "lazy")
      /\ reader = 1 /\ writer = 1
      /\ readCounters = [l \in At(source, "counter") |-> 0]
      /\ writeCounters = [l \in At(destination, "counter") |-> 0]
      /\ pc = "unwrap" /\ path = "none" /\ closing = "no"
  BY DEF PathInit
<1>2. /\ held = << >> /\ n = 0 /\ arrived = 0 /\ delivered = << >> /\ handed = 0
      /\ countedRead = [l \in At(source, "counter") |-> 0]
      /\ countedWrite = [l \in At(destination, "counter") |-> 0]
  BY DEF PathInit
<1>3. Len(source) \in Nat \ {0} /\ Len(destination) \in Nat \ {0}
  <2>1. IsChain(source) /\ IsChain(destination)
    BY <1>1, PathAssumption
  <2> QED BY <2>1, ChainIs
<1>4. PathTypeOK
  <2>1. \A l \in At(source, "cached") : Len(buffer[l]) <= 1
    BY <1>1
  <2>2. /\ needRead \subseteq At(source, "early") /\ needWrite \subseteq 1 .. Len(destination)
        /\ DOMAIN buffer = At(source, "cached") /\ DOMAIN cacheTaken = At(source, "cached")
    BY <1>1 DEF At
  <2>3. reader \in 1 .. Len(source) /\ writer \in 1 .. Len(destination) /\ arrived \in 0 .. MaxUnits /\ n \in Nat
    BY <1>1, <1>2, <1>3, PathAssumption
  <2> QED BY <1>1, <2>1, <2>2, <2>3, Zenon DEF PathTypeOK
<1>5. << >> \in Seq(Unit) /\ Len(<< >>) = 0
  BY EmptySeq
<1>6. PathState
  BY <1>1, <1>2, <1>4, <1>5 DEF PathState
<1>7. CachedUnits \in Nat
  BY <1>4, LayersAre
<1>8. \A l \in At(source, "cached") : buffer[l] = <<Rest(l, 0)>>
  <2>1. ASSUME NEW l \in At(source, "cached") PROVE Units(l, CachedUnits) = Rest(l, 0)
    BY <1>7 DEF Units, Rest
  <2> QED BY <1>1, <2>1
<1>9. BuffersHoldRests
  BY <1>7, <1>8 DEF BuffersHoldRests
<1>10. Unwrapped
  <2>1. /\ \A l \in At(source, "counter") \cup At(source, "cached") : ~(l < reader)
        /\ \A l \in At(destination, "counter") : ~(l < writer)
    BY <1>1 DEF At
  <2> QED BY <1>1, <2>1 DEF Unwrapped
<1>11. PathFits
  BY <1>1 DEF PathFits
<1>12. \A l : Below(<< >>, l) = 0
  <2>1. \A l : {i \in 1 .. Len(<< >>) : << >>[i][1] > l} = {}
    BY <1>5
  <2> QED BY <2>1, FS_EmptySet DEF Below
<1>13. CountedSoFar
  BY <1>1, <1>2, <1>5, <1>12 DEF CountedSoFar
<1>14. OrderOf(Layers, MaxUnits + Cached, Alls, Lefts, << >>)
  <2>1. ASSUME NEW l \in Layers PROVE Lefts[l] = 0
    <3>1. CASE l = Len(source)
      BY <1>2, <3>1 DEF Lefts, Left
    <3>2. CASE l # Len(source)
      <4>1. l \in At(source, "cached")
        BY <1>4, <3>2, LayersAre
      <4>2. Left(l) = 0
        BY <1>4, <1>7, <1>8, <4>1, LeftIs
      <4> QED BY <4>2 DEF Lefts
    <3> QED BY <3>1, <3>2
  <2>2. Layers \subseteq Nat /\ MaxUnits + Cached \in Nat
    BY <1>4, LayersAre
  <2> DEFINE L == Layers  m == MaxUnits + Cached  t == Lefts
  <2> HIDE DEF L, m, t
  <2>3. GoneOf(L, m, t) = {}
    <3>1. \A u \in UnitsOf(L, m) : u[1] \in L /\ u[2] \in 1 .. m
      BY <2>2, UnitIs DEF L, m
    <3>2. \A u \in UnitsOf(L, m) : t[u[1]] = 0 /\ u[2] \in 1 .. m
      BY <2>1, <3>1 DEF L, t
    <3>3. m \in Nat
      BY <2>2 DEF m
    <3> QED BY <3>2, <3>3 DEF GoneOf
  <2>4. \A l \in L : ~(t[l] > 0)
    BY <2>1 DEF L, t
  <2>5. 1 .. Len(<< >>) = {}
    BY <1>5
  <2> QED BY <2>3, <2>4, <2>5 DEF OrderOf, L, m, t
<1>15. Frontier
  <2>1. Gone = << >>
    BY <1>1, <1>2, <1>5, NothingJoined DEF Gone
  <2> QED BY <1>14, <2>1 DEF Frontier
<1>16. ResultIsDelivered
  BY <1>2, <1>5 DEF ResultIsDelivered
<1> QED BY <1>6, <1>9, <1>10, <1>11, <1>13, <1>15, <1>16 DEF PathIInv

\* Every step of the copy and of the other goroutine keeps the invariant.
LEMMA PathSteps ==
  ASSUME PathIInv, [PathNext]_pathVars
  PROVE  PathIInv'
<1>1. CASE UNCHANGED pathVars
  <2> USE DEF pathVars, chainVars, layerVars, sessionVars, dataVars, countVars
  <2>1. PathTypeOK'
    BY <1>1 DEF PathIInv, PathState, PathTypeOK, At
  <2>2. PathFits'
    BY <1>1 DEF PathIInv, PathFits, NoCounterFrom, At
  <2> QED BY <1>1, <2>1, <2>2, QuietStep
<1>2. CASE PathStep
  <2>1. CASE Unwrap \/ WriteCached \/ NewCopySession
    BY <2>1, UnwrapStep, WriteCachedStep, SessionStep
  <2>2. CASE copyDirect \/ copyExtended \/ copyPacketWithCountersOnce \/ copyWaitVectorisedWithPool
    BY <2>2, ChooseSteps, VectorisedStep
  <2>3. CASE ReadCachedLayer \/ (\E k \in 1 .. 2 : ReadSocket(k)) \/ HandleSyscallReadError
    BY <2>3, ReadCachedLayerStep, ReadSocketStep, SyscallErrorStep
  <2>4. CASE Ends \/ Write \/ Transfer
    BY <2>4, EndStep, WriteStep, TransferStep
  <2> QED BY <1>2, <2>1, <2>2, <2>3, <2>4 DEF PathStep
<1>3. CASE HandshakeDone \/ Close \/ CloseSocket
  BY <1>3, HandshakeStep, CloseStep
<1> QED BY <1>1, <1>2, <1>3 DEF PathNext

\* In every reachable state of a copy, of whatever chains and with whatever
\* buffers, each layer above the reader is empty, the session holds each
\* counter above reader and writer once, the chosen loop passes by no counter
\* and no buffer, and what has gone is an initial part of what the layers
\* hold, one after the other.
THEOREM PathInvariance == PathSpec => []PathIInv
<1>1. PathInit => PathIInv
  BY PathStarts
<1>2. PathIInv /\ [PathNext]_pathVars => PathIInv'
  BY PathSteps
<1> QED BY <1>1, <1>2, PTL DEF PathSpec

\* Every counter of both chains has counted every unit that passed it once,
\* whenever the copy is between two units: for every pair of chains, however
\* deep, with any number of counters, caches and early layers in any order.
THEOREM CountersCountOnce == PathSpec => []PathInv
<1>1. PathIInv => PathInv
  <2> SUFFICES ASSUME PathIInv PROVE PathInv
    OBVIOUS
  <2>1. PathTypeOK /\ delivered \in Seq(Unit) /\ CountedSoFar
        /\ DOMAIN countedRead = At(source, "counter") /\ DOMAIN countedWrite = At(destination, "counter")
    BY DEF PathIInv, PathState
  <2>2. DOMAIN delivered = 1 .. Len(delivered)
    BY <2>1, LenProperties
  <2>3. \A l : Below(delivered, l) = Cardinality({i \in DOMAIN delivered : delivered[i][1] > l})
    BY <2>2 DEF Below
  <2>4. CountedOnce
    BY <2>1, <2>3 DEF CountedSoFar, CountedOnce
  <2> QED BY <2>1, <2>4 DEF PathInv
<1> QED BY <1>1, PathInvariance, PTL

\* The destination gets the units in the order of the layers, without gaps
\* and repetitions, until the source is closed, and the result is their
\* number: for every pair of chains.
THEOREM UnitsKeepOrder == PathSpec => []UnitsForwarded
<1>1. PathIInv => UnitsForwarded
  <2> SUFFICES ASSUME PathIInv PROVE UnitsForwarded
    OBVIOUS
  <2>1. PathState /\ PathTypeOK /\ Frontier /\ ResultIsDelivered /\ DOMAIN buffer = At(source, "cached")
    BY DEF PathIInv, PathState, PathTypeOK
  <2>2. ASSUME closing = "no", NEW i \in DOMAIN Gone
        PROVE  {Gone[j] : j \in 1 .. i - 1} = {u \in Expected : u[2] <= All(u[1]) /\ Earlier(u, Gone[i])}
    <3>1. i \in 1 .. Len(Gone)
      BY <2>1, <2>2, GoneIs, LenProperties
    <3>2. {Gone[j] : j \in 1 .. i - 1} = BeforeOf(Layers, MaxUnits + Cached, Alls, Gone[i])
      BY <2>1, <2>2, <3>1 DEF Frontier, OrderOf
    <3>3. Expected = UnitsOf(Layers, MaxUnits + Cached)
      BY <2>1 DEF Expected, UnitsOf, Layers, Socket
    <3>4. \A u \in UnitsOf(Layers, MaxUnits + Cached) : Alls[u[1]] = All(u[1])
      <4>1. \A u \in UnitsOf(Layers, MaxUnits + Cached) : u[1] \in Layers
        BY <2>1, LayersAre, UnitIs
      <4> QED BY <4>1 DEF Alls
    <3> QED BY <3>2, <3>3, <3>4 DEF BeforeOf
  <2>3. Forwarded
    BY <2>2 DEF Forwarded, Gone
  <2> QED BY <2>1, <2>3 DEF UnitsForwarded
<1> QED BY <1>1, PathInvariance, PTL
=============================================================================
