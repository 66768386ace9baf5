---------------------------- MODULE SessionProofs -----------------------------
(***************************************************************************)
(* Long-lived sessions: the NAT table of udpnat2, observable.Observer and  *)
(* the idle timeout of canceler, each for all its parameters.              *)
(***************************************************************************)
EXTENDS UdpNat2, Observer, IdleTimeout, SequenceTheorems, TLAPS

(***************************************************************************)
(* The NAT table of udpnat2 for any sources, queues and batches.           *)
(*                                                                         *)
(* Whatever leaves the cache is in the hands of the cache's mutex until    *)
(* its doneChan is closed, so a connection that is neither is still under  *)
(* its own source.  The packet that a NewPacket carries is newer than all  *)
(* others of its source: it is in no queue, was read by nobody and not     *)
(* dropped, and may be put behind them.  A NewPacket that has found no     *)
(* handler is the only one of its source, so after SetHandler and its last *)
(* look at the queue at most that one packet follows.                      *)
(***************************************************************************)
\* The packets of a sequence, no two alike, in the order of their numbers.
Items(s) == {s[i] : i \in 1 .. Len(s)}
Distinct(s) == \A i, j \in 1 .. Len(s) : s[i] = s[j] => i = j
Rising(s) == \A i, j \in 1 .. Len(s) : i < j => s[i][2] < s[j][2]

\* What ReadPacket has returned and what it will return.
Queue(c) == read[c] \o packetChan[c]

QueuesOK ==
  /\ packetChan \in [Conns -> Seq(Packets)]
  /\ read \in [Conns -> Seq(Packets)] /\ handled \in [Conns -> Seq(Packets)]
  /\ dropped \subseteq Packets

\* A connection that is not made yet has no goroutine and no packets.
Unmade ==
  \A c \in Conns :
    /\ c > conns => read[c] = << >> /\ packetChan[c] = << >> /\ handled[c] = << >>
    /\ upc[c] = "none" <=> c > conns

\* The entries of the cache, and what NewPacket has got from it.
CacheIsOwn ==
  \A s \in Sources : cache[s] # NoConn => cache[s] \in 1 .. conns /\ localAddr[cache[s]] = s
SendsToOwn ==
  \A s \in Sources : spc[s] # "idle" =>
    sconn[s] \in 1 .. conns /\ localAddr[sconn[s]] = s /\ packet[s] \in 1 .. sent

\* Close closes doneChan first.
ClosedIsDone == \A c \in Conns : closing[c] # "no" <=> c \in doneChan

\* SetHandler is called instead of a loop of reads; after it, the one packet
\* that may follow is in the queue or on its way.
HandlerOrReads ==
  \A c \in Conns :
    /\ c \in handler => upc[c] \in {"drain", "end"}
    /\ upc[c] \in {"none", "start", "drain"} \/ c \in handler => read[c] = << >>
Stranded ==
  \A c \in handler : upc[c] = "end" =>
    /\ Len(packetChan[c]) <= 1
    /\ \A s \in Sources :
         spc[s] = "send" /\ sconn[s] = c /\ ~shandler[s] => packetChan[c] = << >>

\* A packet that is in somebody's hands is older than what NewPacket carries.
Known(p) == p[2] <= sent /\ (spc[p[1]] # "idle" => p[2] < packet[p[1]])
Mine(c, p) == p[1] = localAddr[c] /\ p \notin dropped /\ Known(p)
GivenOnce(c) ==
  /\ \A p \in Items(Queue(c)) \cup Items(handled[c]) : Mine(c, p)
  /\ Rising(Queue(c)) /\ Distinct(handled[c])
  /\ Items(Queue(c)) \cap Items(handled[c]) = {}

TableIInv == /\ Nat2TypeOK /\ QueuesOK /\ Unmade /\ CacheIsOwn /\ SendsToOwn /\ ClosedIsDone
             /\ LiveIsReachable /\ HandlerOrReads /\ Stranded
PacketsIInv == (\A p \in dropped : Known(p)) /\ \A c \in Conns : GivenOnce(c)
Nat2IInv == TableIInv /\ PacketsIInv

-----------------------------------------------------------------------------
\* The parts of a packet.
LEMMA PacketParts ==
  ASSUME NEW p \in Packets
  PROVE  p[1] \in Sources /\ p[2] \in 1 .. MaxPackets /\ p[2] \in Nat /\ p = <<p[1], p[2]>>
  BY NatAssumption DEF Packets

LEMMA MakePacket ==
  ASSUME NEW s \in Sources, NEW n \in 1 .. MaxPackets
  PROVE  <<s, n>> \in Packets /\ <<s, n>>[1] = s /\ <<s, n>>[2] = n
  BY DEF Packets

LEMMA ItemsArePackets ==
  ASSUME NEW q \in Seq(Packets)
  PROVE  Items(q) \subseteq Packets /\ Len(q) \in Nat /\ \A i \in 1 .. Len(q) : q[i] \in Items(q)
  BY ElementOfSeq, LenProperties DEF Items

\* One more packet at the end of a sequence.
LEMMA AppendItems ==
  ASSUME NEW q \in Seq(Packets), NEW p \in Packets
  PROVE  /\ Append(q, p) \in Seq(Packets) /\ Items(Append(q, p)) = Items(q) \cup {p}
         /\ Len(Append(q, p)) = Len(q) + 1 /\ Append(q, p)[Len(q) + 1] = p
         /\ \A i \in 1 .. Len(q) : Append(q, p)[i] = q[i]
<1> DEFINE r == Append(q, p)
<1>1. /\ r \in Seq(Packets) /\ Len(r) = Len(q) + 1 /\ Len(q) \in Nat
      /\ \A i \in 1 .. Len(q) : r[i] = q[i]
      /\ r[Len(q) + 1] = p
  BY AppendProperties, LenProperties
<1> HIDE DEF r
<1>2. \A i : i \in 1 .. Len(r) <=> i \in 1 .. Len(q) \/ i = Len(q) + 1
  BY <1>1
<1>3. Items(r) = Items(q) \cup {p}
  BY <1>1, <1>2 DEF Items
<1> QED BY <1>1, <1>3 DEF r

LEMMA AppendRises ==
  ASSUME NEW q \in Seq(Packets), NEW p \in Packets, Rising(q), \A x \in Items(q) : x[2] < p[2]
  PROVE  Rising(Append(q, p))
<1> DEFINE r == Append(q, p)
<1>1. /\ Len(r) = Len(q) + 1 /\ Len(q) \in Nat
      /\ \A i \in 1 .. Len(q) : r[i] = q[i] /\ r[i] \in Items(q)
      /\ r[Len(q) + 1] = p
  BY AppendItems, ItemsArePackets
<1> HIDE DEF r
<1>2. ASSUME NEW i \in 1 .. Len(r), NEW j \in 1 .. Len(r), i < j
      PROVE  r[i][2] < r[j][2]
  <2>1. i \in 1 .. Len(q)
    BY <1>1, <1>2
  <2>2. CASE j = Len(q) + 1
    BY <1>1, <2>1, <2>2
  <2>3. CASE j \in 1 .. Len(q)
    BY <1>1, <1>2, <2>1, <2>3 DEF Rising
  <2> QED BY <1>1, <2>2, <2>3
<1> QED BY <1>2 DEF r, Rising

LEMMA AppendDistinct ==
  ASSUME NEW q \in Seq(Packets), NEW p \in Packets, Distinct(q), p \notin Items(q)
  PROVE  Distinct(Append(q, p))
<1> DEFINE r == Append(q, p)
<1>1. /\ Len(r) = Len(q) + 1 /\ Len(q) \in Nat
      /\ \A i \in 1 .. Len(q) : r[i] = q[i] /\ r[i] # p
      /\ r[Len(q) + 1] = p
  BY AppendItems, ItemsArePackets
<1> HIDE DEF r
<1>2. ASSUME NEW i \in 1 .. Len(r), NEW j \in 1 .. Len(r), r[i] = r[j]
      PROVE  i = j
  <2>1. (i = Len(q) + 1 \/ i \in 1 .. Len(q)) /\ (j = Len(q) + 1 \/ j \in 1 .. Len(q))
    BY <1>1
  <2> QED BY <1>1, <1>2, <2>1 DEF Distinct
<1> QED BY <1>2 DEF r, Distinct

\* One packet less at the front.
LEMMA TailItems ==
  ASSUME NEW q \in Seq(Packets), q # << >>, Rising(q)
  PROVE  /\ Head(q) \in Items(q) /\ Tail(q) \in Seq(Packets) /\ Len(Tail(q)) = Len(q) - 1
         /\ Items(Tail(q)) \subseteq Items(q) /\ Head(q) \notin Items(Tail(q)) /\ Rising(Tail(q))
<1> DEFINE r == Tail(q)
<1>1. /\ r \in Seq(Packets) /\ Len(r) = Len(q) - 1 /\ Len(q) \in Nat \ {0} /\ Head(q) = q[1]
      /\ \A i \in 1 .. Len(r) : r[i] = q[i + 1]
  BY HeadTailProperties, EmptySeq
<1> HIDE DEF r
<1>2. /\ \A i \in 1 .. Len(r) : i + 1 \in 1 .. Len(q) /\ 1 < i + 1 /\ i \in Nat
      /\ 1 \in 1 .. Len(q)
  BY <1>1
<1>3. \A i \in 1 .. Len(q) : q[i] \in Items(q) /\ q[i][2] \in Nat
  BY ItemsArePackets, PacketParts
<1>4. Items(r) \subseteq Items(q)
  BY <1>1, <1>2 DEF Items
<1>5. ASSUME NEW i \in 1 .. Len(r) PROVE q[1] # r[i]
  BY <1>1, <1>2, <1>3 DEF Rising
<1>6. q[1] \notin Items(r)
  BY <1>5 DEF Items
<1>7. \A i, j \in 1 .. Len(r) : i < j => i + 1 < j + 1
  BY <1>1
<1>8. Rising(r)
  BY <1>1, <1>2, <1>7 DEF Rising
<1> QED BY <1>1, <1>2, <1>3, <1>4, <1>6, <1>8 DEF r

\* Two sequences, one behind the other.
LEMMA ConcatItems ==
  ASSUME NEW q \in Seq(Packets), NEW r \in Seq(Packets)
  PROVE  /\ q \o r \in Seq(Packets) /\ Items(q \o r) = Items(q) \cup Items(r)
         /\ \A i \in 1 .. Len(q) : i \in 1 .. Len(q \o r) /\ (q \o r)[i] = q[i]
         /\ \A i \in 1 .. Len(r) : i + Len(q) \in 1 .. Len(q \o r) /\ (q \o r)[i + Len(q)] = r[i]
         /\ \A i \in 1 .. Len(q \o r) :
              \/ i \in 1 .. Len(q) /\ (q \o r)[i] = q[i]
              \/ i - Len(q) \in 1 .. Len(r) /\ (q \o r)[i] = r[i - Len(q)]
<1> DEFINE a == q \o r
<1>1. /\ a \in Seq(Packets) /\ Len(a) = Len(q) + Len(r) /\ Len(q) \in Nat /\ Len(r) \in Nat
      /\ \A i \in 1 .. Len(q) + Len(r) : a[i] = IF i <= Len(q) THEN q[i] ELSE r[i - Len(q)]
  BY ConcatProperties, LenProperties
<1> HIDE DEF a
<1>2. \A i \in 1 .. Len(q) : i \in 1 .. Len(a) /\ a[i] = q[i]
  BY <1>1
<1>3. \A i \in 1 .. Len(r) : i + Len(q) \in 1 .. Len(a) /\ a[i + Len(q)] = r[i]
  <2> SUFFICES ASSUME NEW i \in 1 .. Len(r)
               PROVE  i + Len(q) \in 1 .. Len(a) /\ a[i + Len(q)] = r[i]
    OBVIOUS
  <2>1. i + Len(q) \in 1 .. Len(q) + Len(r) /\ ~(i + Len(q) <= Len(q)) /\ (i + Len(q)) - Len(q) = i
    BY <1>1
  <2> QED BY <1>1, <2>1
<1>4. \A i \in 1 .. Len(a) :
        \/ i \in 1 .. Len(q) /\ a[i] = q[i]
        \/ i - Len(q) \in 1 .. Len(r) /\ a[i] = r[i - Len(q)]
  BY <1>1
<1>5. Items(a) \subseteq Items(q) \cup Items(r)
  BY <1>4 DEF Items
<1>6. Items(q) \subseteq Items(a)
  BY <1>2 DEF Items
<1>7. Items(r) \subseteq Items(a)
  BY <1>3 DEF Items
<1> QED BY <1>1, <1>2, <1>3, <1>4, <1>5, <1>6, <1>7 DEF a

LEMMA ConcatDistinct ==
  ASSUME NEW q \in Seq(Packets), NEW r \in Seq(Packets), Distinct(q), Distinct(r),
         Items(q) \cap Items(r) = {}
  PROVE  Distinct(q \o r)
<1> DEFINE a == q \o r
<1>1. \A i \in 1 .. Len(a) :
        \/ i \in 1 .. Len(q) /\ a[i] = q[i]
        \/ i - Len(q) \in 1 .. Len(r) /\ a[i] = r[i - Len(q)]
  BY ConcatItems
<1> HIDE DEF a
<1>2. /\ Len(q) \in Nat /\ \A i \in 1 .. Len(q) : q[i] \in Items(q)
      /\ \A i \in 1 .. Len(r) : r[i] \in Items(r)
  BY ItemsArePackets
<1>3. ASSUME NEW i \in 1 .. Len(a), NEW j \in 1 .. Len(a), a[i] = a[j] PROVE i = j
  <2>1. CASE i \in 1 .. Len(q) /\ a[i] = q[i]
    <3>1. j \in 1 .. Len(q) /\ a[j] = q[j]
      BY <1>1, <1>2, <1>3, <2>1
    <3> QED BY <1>3, <2>1, <3>1 DEF Distinct
  <2>2. CASE i - Len(q) \in 1 .. Len(r) /\ a[i] = r[i - Len(q)]
    <3>1. j - Len(q) \in 1 .. Len(r) /\ a[j] = r[j - Len(q)]
      BY <1>1, <1>2, <1>3, <2>2
    <3>2. i - Len(q) = j - Len(q)
      BY <1>3, <2>2, <3>1 DEF Distinct
    <3> QED BY <1>2, <3>2
  <2> QED BY <1>1, <2>1, <2>2
<1> QED BY <1>3 DEF a, Distinct

LEMMA RisingParts ==
  ASSUME NEW q \in Seq(Packets), NEW r \in Seq(Packets), Rising(q \o r)
  PROVE  Distinct(q) /\ Distinct(r) /\ Items(q) \cap Items(r) = {}
<1> DEFINE a == q \o r
<1>1. /\ a \in Seq(Packets) /\ Rising(a) /\ Len(q) \in Nat
      /\ \A i \in 1 .. Len(q) : i \in 1 .. Len(a) /\ a[i] = q[i]
      /\ \A i \in 1 .. Len(r) : i + Len(q) \in 1 .. Len(a) /\ a[i + Len(q)] = r[i]
  BY ConcatItems, LenProperties
<1> HIDE DEF a
<1>2. Len(a) \in Nat /\ \A i \in 1 .. Len(a) : a[i][2] \in Nat
  BY <1>1, ElementOfSeq, LenProperties, PacketParts
<1>3. ASSUME NEW i \in 1 .. Len(a), NEW j \in 1 .. Len(a), a[i] = a[j] PROVE i = j
  <2>1. i < j \/ j < i \/ i = j
    BY <1>2
  <2>2. a[i][2] = a[j][2] /\ a[i][2] \in Nat
    BY <1>2, <1>3
  <2>3. ~(a[i][2] < a[j][2]) /\ ~(a[j][2] < a[i][2])
    BY <2>2
  <2> QED BY <1>1, <2>1, <2>3 DEF Rising
<1>4. Distinct(q)
  BY <1>1, <1>3 DEF Distinct
<1>5. ASSUME NEW i \in 1 .. Len(r), NEW j \in 1 .. Len(r), r[i] = r[j] PROVE i = j
  <2>1. i + Len(q) = j + Len(q)
    BY <1>1, <1>3, <1>5
  <2> QED BY <1>1, <2>1
<1>6. \A i \in 1 .. Len(q), j \in 1 .. Len(r) : i # j + Len(q)
  BY <1>1
<1>7. \A i \in 1 .. Len(q), j \in 1 .. Len(r) : q[i] # r[j]
  BY <1>1, <1>3, <1>6
<1>8. Items(q) \cap Items(r) = {}
  BY <1>7 DEF Items
<1>9. Distinct(r)
  BY <1>5 DEF Distinct
<1> QED BY <1>4, <1>8, <1>9

-----------------------------------------------------------------------------
LEMMA TableInit == Nat2Init => TableIInv
<1> SUFFICES ASSUME Nat2Init PROVE TableIInv
  OBVIOUS
<1>1. << >> \in Seq(Packets) /\ Len(<< >>) = 0 /\ << >> \in [1 .. 0 -> Sources] /\ 1 .. 0 = {}
  OBVIOUS
<1>2. Nat2TypeOK
  BY <1>1, NatAssumption DEF Nat2Init, Nat2TypeOK, NoConn, Conns
<1>3. QueuesOK
  BY <1>1 DEF Nat2Init, QueuesOK
<1>4. Unmade /\ HandlerOrReads /\ Stranded /\ ClosedIsDone
  BY NatAssumption DEF Nat2Init, Unmade, HandlerOrReads, Stranded, ClosedIsDone, Conns
<1>5. CacheIsOwn /\ SendsToOwn /\ LiveIsReachable
  BY <1>1 DEF Nat2Init, CacheIsOwn, SendsToOwn, LiveIsReachable
<1> QED BY <1>2, <1>3, <1>4, <1>5 DEF TableIInv

\* What leaves the cache is closed, or in the hands of who holds the mutex.
LEMMA DropsKeeps ==
  ASSUME TableIInv, CacheUnlocked, NEW S \in SUBSET Sources, NEW by \in Sources \cup {"other"},
         Drops(S, by), UNCHANGED <<connVars, upc, spc, sconn, shandler, packet>>,
         sent' \in 0 .. MaxPackets, sent' >= sent, UNCHANGED <<read, handled>>, dropped' \subseteq Packets
  PROVE  TableIInv'
<1>1. Nat2TypeOK'
  BY DEF TableIInv, Nat2TypeOK, Drops, Evicts, connVars, NoConn
<1>2. QueuesOK' /\ Unmade' /\ HandlerOrReads' /\ Stranded' /\ ClosedIsDone'
  BY DEF TableIInv, QueuesOK, Unmade, HandlerOrReads, Stranded, ClosedIsDone, connVars
<1>3. CacheIsOwn'
  BY DEF TableIInv, Nat2TypeOK, CacheIsOwn, Drops, connVars
<1>4. SendsToOwn'
  BY DEF TableIInv, Nat2TypeOK, SendsToOwn, connVars
<1>5. LiveIsReachable'
  <2> SUFFICES ASSUME NEW c \in 1 .. conns, c \notin doneChan, c \notin evicting'
               PROVE  cache'[localAddr[c]] = c
    BY DEF LiveIsReachable, connVars
  <2>1. c \in Conns /\ localAddr[c] \in Sources /\ cache[localAddr[c]] = c /\ c # NoConn
    BY NatAssumption DEF TableIInv, Nat2TypeOK, LiveIsReachable, CacheUnlocked, Conns, NoConn
  <2>2. closing[c] # "done"
    BY <2>1 DEF TableIInv, ClosedIsDone
  <2>3. localAddr[c] \notin S
    BY <2>1, <2>2 DEF Drops, Evicts
  <2> QED BY <2>1, <2>3 DEF Drops
<1> QED BY <1>1, <1>2, <1>3, <1>4, <1>5 DEF TableIInv

LEMMA TableFound ==
  ASSUME TableIInv, NEW s \in Sources, Found(s)
  PROVE  TableIInv'
<1> USE NatAssumption DEF TableIInv, Found, Receives, connVars, sendVars, outVars, cacheVars
<1>1. Nat2TypeOK'
  BY DEF Nat2TypeOK
<1>2. QueuesOK' /\ Unmade' /\ HandlerOrReads' /\ ClosedIsDone' /\ CacheIsOwn' /\ LiveIsReachable'
  BY DEF QueuesOK, Unmade, HandlerOrReads, ClosedIsDone, CacheIsOwn, LiveIsReachable
<1>3. SendsToOwn'
  BY DEF Nat2TypeOK, SendsToOwn, CacheIsOwn
<1>4. Stranded'
  BY DEF Nat2TypeOK, Stranded
<1> QED BY <1>1, <1>2, <1>3, <1>4

LEMMA TableMade ==
  ASSUME TableIInv, NEW s \in Sources, Made(s)
  PROVE  TableIInv'
<1> USE NatAssumption DEF TableIInv
<1> DEFINE new == conns + 1
<1>1. /\ new \in Conns /\ conns' = new /\ new \notin 1 .. conns /\ conns \in Nat /\ new # NoConn
      /\ \A c : c \in 1 .. new <=> c \in 1 .. conns \/ c = new
  BY DEF Nat2TypeOK, Made, Receives, Conns, NoConn
<1>2. /\ localAddr' \in [1 .. new -> Sources] /\ localAddr'[new] = s
      /\ \A c \in 1 .. conns : localAddr'[c] = localAddr[c] /\ localAddr[c] \in Sources
  <2>1. localAddr \in Seq(Sources) /\ Len(localAddr) = conns
    BY <1>1 DEF Nat2TypeOK
  <2>2. localAddr' = Append(localAddr, s)
    BY DEF Made
  <2>3. localAddr' \in Seq(Sources) /\ Len(localAddr') = new /\ localAddr'[new] = s
    BY <2>1, <2>2, AppendProperties
  <2>4. \A c \in 1 .. conns : localAddr'[c] = localAddr[c]
    BY <2>1, <2>2, AppendProperties
  <2>5. localAddr' \in [1 .. new -> Sources]
    BY <2>3, LenProperties
  <2> QED BY <2>3, <2>4, <2>5 DEF Nat2TypeOK
<1>3. PICK oldest \in SUBSET (Sources \ {s}) :
        LET out == {t \in {s} \cup oldest \cup expired : cache[t] # NoConn}
        IN /\ cache' = [t \in Sources |->
                          IF t = s THEN conns + 1 ELSE IF t \in out THEN NoConn ELSE cache[t]]
           /\ Evicts({cache[t] : t \in out}, s)
           /\ expired' = expired \ (out \cup {s})
  BY DEF Made
<1> DEFINE out == {t \in {s} \cup oldest \cup expired : cache[t] # NoConn}
<1>4. /\ cache' = [t \in Sources |-> IF t = s THEN new ELSE IF t \in out THEN NoConn ELSE cache[t]]
      /\ evicting' = {c \in {cache[t] : t \in out} : closing[c] # "done"}
      /\ holder' \in {s, "other"} /\ expired' = expired \ (out \cup {s})
  BY <1>3 DEF Evicts
<1>5. out \subseteq Sources /\ \A t \in out : cache[t] \in 1 .. conns
  BY DEF Nat2TypeOK, CacheIsOwn
<1>6. /\ UNCHANGED <<handler, packetChan, doneChan, closing, handlerClosed, shandler, read, handled, dropped>>
      /\ spc[s] = "idle" /\ spc' = [spc EXCEPT ![s] = "load"]
      /\ upc' = [upc EXCEPT ![new] = "start"] /\ sconn' = [sconn EXCEPT ![s] = new]
      /\ packet' = [packet EXCEPT ![s] = sent + 1] /\ sent' = sent + 1 /\ sent + 1 \in 1 .. MaxPackets
      /\ sent \in Nat /\ evicting = {}
  BY DEF Made, Receives, outVars, CacheUnlocked, Nat2TypeOK
<1>7. s \in out <=> cache[s] # NoConn
  OBVIOUS
<1> HIDE DEF new, out
<1>8. Nat2TypeOK'
  <2>1. cache' \in [Sources -> Conns \cup {NoConn}] /\ expired' \subseteq Sources /\ holder' \in Sources \cup {"other"}
    BY <1>1, <1>4 DEF Nat2TypeOK
  <2>2. evicting' \subseteq Conns
    BY <1>4, <1>5 DEF Nat2TypeOK, Conns
  <2>3. conns' \in 0 .. MaxConns
    BY <1>1 DEF Conns
  <2>4. /\ localAddr' \in [1 .. conns' -> Sources] /\ sent' \in 0 .. MaxPackets
        /\ packet' \in [Sources -> 0 .. MaxPackets] /\ spc' \in [Sources -> {"idle", "load", "send"}]
        /\ sconn' \in [Sources -> Conns \cup {NoConn}]
    BY <1>1, <1>2, <1>6 DEF Nat2TypeOK
  <2>5. upc' \in [Conns -> {"none", "start", "read", "drain", "end"}]
    BY <1>1, <1>6 DEF Nat2TypeOK
  <2> QED BY <1>6, <2>1, <2>2, <2>3, <2>4, <2>5 DEF Nat2TypeOK
<1>9. QueuesOK' /\ ClosedIsDone'
  BY <1>6 DEF QueuesOK, ClosedIsDone
<1>10. upc[new] = "none" /\ read[new] = << >> /\ new \notin handler
  BY <1>1 DEF Unmade, new, HandlerOrReads
<1>11. Unmade'
  <2>1. \A c \in Conns : (c > new <=> c > conns /\ c # new) /\ ~(new > new)
    BY <1>1 DEF Conns, new
  <2>2. \A c \in Conns : upc'[c] = IF c = new THEN "start" ELSE upc[c]
    BY <1>6 DEF Nat2TypeOK
  <2> QED BY <1>1, <1>6, <2>1, <2>2 DEF Unmade
<1>12. HandlerOrReads'
  BY <1>1, <1>6, <1>10 DEF HandlerOrReads, Nat2TypeOK
<1>13. Stranded'
  BY <1>1, <1>6, <1>10 DEF Stranded, Nat2TypeOK
<1>14. CacheIsOwn'
  <2> SUFFICES ASSUME NEW t \in Sources, cache'[t] # NoConn
               PROVE  cache'[t] \in 1 .. new /\ localAddr'[cache'[t]] = t
    BY <1>1 DEF CacheIsOwn
  <2>1. CASE t = s
    BY <1>1, <1>2, <1>4, <2>1
  <2>2. CASE t # s
    <3>1. cache'[t] = cache[t] /\ cache[t] # NoConn
      BY <1>4, <2>2
    <3>2. cache[t] \in 1 .. conns /\ localAddr[cache[t]] = t
      BY <3>1 DEF CacheIsOwn
    <3> QED BY <1>1, <1>2, <3>1, <3>2
  <2> QED BY <2>1, <2>2
<1>15. SendsToOwn'
  <2> SUFFICES ASSUME NEW t \in Sources, spc'[t] # "idle"
               PROVE  sconn'[t] \in 1 .. new /\ localAddr'[sconn'[t]] = t /\ packet'[t] \in 1 .. sent'
    BY <1>1 DEF SendsToOwn
  <2>1. CASE t = s
    BY <1>1, <1>2, <1>6, <2>1 DEF Nat2TypeOK
  <2>2. CASE t # s
    <3>1. spc[t] # "idle" /\ sconn'[t] = sconn[t] /\ packet'[t] = packet[t]
      BY <1>6, <2>2 DEF Nat2TypeOK
    <3>2. sconn[t] \in 1 .. conns /\ localAddr[sconn[t]] = t /\ packet[t] \in 1 .. sent
      BY <3>1 DEF SendsToOwn
    <3> QED BY <1>1, <1>2, <1>6, <3>1, <3>2
  <2> QED BY <2>1, <2>2
<1>16. LiveIsReachable'
  <2> SUFFICES ASSUME NEW c \in 1 .. new, c \notin doneChan, c \notin evicting'
               PROVE  cache'[localAddr'[c]] = c
    BY <1>1, <1>6 DEF LiveIsReachable
  <2>1. CASE c = new
    BY <1>2, <1>4, <2>1
  <2>2. CASE c \in 1 .. conns
    <3>1. cache[localAddr[c]] = c /\ localAddr'[c] = localAddr[c] /\ localAddr[c] \in Sources /\ c # NoConn
      BY <1>2, <1>6, <2>2 DEF LiveIsReachable, NoConn
    <3>2. c \in Conns /\ closing[c] # "done"
      BY <1>1, <2>2 DEF ClosedIsDone, Conns, Nat2TypeOK
    <3>3. localAddr[c] \notin out
      BY <1>4, <3>1, <3>2
    <3>4. localAddr[c] # s
      BY <1>7, <3>1, <3>3
    <3> QED BY <1>4, <3>1, <3>3, <3>4
  <2> QED BY <1>1, <2>1, <2>2
<1> QED BY <1>8, <1>9, <1>11, <1>12, <1>13, <1>14, <1>15, <1>16

LEMMA TableDrops ==
  ASSUME TableIInv,
         \/ \E s \in Sources : Refused(s)
         \/ \E c \in Conns : Timeout(c)
         \/ PurgeSome(Sources) \/ PurgeSome(expired)
  PROVE  TableIInv'
<1>1. ASSUME NEW s \in Sources, Refused(s) PROVE TableIInv'
  <2>1. sent' = sent + 1 /\ sent \in Nat /\ sent' \in 1 .. MaxPackets
    BY <1>1, NatAssumption DEF Refused, Receives, TableIInv, Nat2TypeOK
  <2>2. <<s, sent'>> \in Packets
    BY <2>1, MakePacket
  <2>3. dropped' \subseteq Packets
    BY <1>1, <2>2 DEF Refused, TableIInv, QueuesOK
  <2>4. sent' \in 0 .. MaxPackets /\ sent' >= sent
    BY <2>1
  <2> QED BY <1>1, <2>3, <2>4, DropsKeeps DEF Refused, Receives, outVars
<1>2. ASSUME NEW c \in Conns, Timeout(c) PROVE TableIInv'
  <2>1. localAddr[c] \in Sources
    BY <1>2 DEF Timeout, TableIInv, Nat2TypeOK, Conns
  <2>2. sent \in 0 .. MaxPackets /\ sent >= sent /\ dropped \subseteq Packets
    BY NatAssumption DEF TableIInv, Nat2TypeOK, QueuesOK
  <2> QED BY <1>2, <2>1, <2>2, DropsKeeps DEF Timeout, sendVars, outVars
<1>3. ASSUME NEW S \in SUBSET Sources, PurgeSome(S) PROVE TableIInv'
  <2>1. sent \in 0 .. MaxPackets /\ sent >= sent /\ dropped \subseteq Packets
    BY NatAssumption DEF TableIInv, Nat2TypeOK, QueuesOK
  <2>2. {s \in S : cache[s] # NoConn} \in SUBSET Sources
    OBVIOUS
  <2> QED BY <1>3, <2>1, <2>2, DropsKeeps DEF PurgeSome, sendVars, outVars
<1>4. expired \in SUBSET Sources
  BY DEF TableIInv, Nat2TypeOK
<1> QED BY <1>1, <1>2, <1>3, <1>4

\* Steps that only refresh or age an entry of the cache.
LEMMA TableAges ==
  ASSUME TableIInv,
         (\E s \in Sources : Lapse(s)) \/ \E c \in Conns : SetTimeout(c)
  PROVE  TableIInv'
<1> USE DEF TableIInv, connVars, sendVars, outVars
<1>1. /\ UNCHANGED <<cache, evicting, holder, connVars, upc, sendVars, outVars>>
      /\ expired' \subseteq Sources
  BY DEF Lapse, SetTimeout, Nat2TypeOK
<1>2. Nat2TypeOK' /\ QueuesOK' /\ Unmade' /\ CacheIsOwn' /\ SendsToOwn'
  BY <1>1 DEF Nat2TypeOK, QueuesOK, Unmade, CacheIsOwn, SendsToOwn
<1>3. ClosedIsDone' /\ LiveIsReachable' /\ HandlerOrReads' /\ Stranded'
  BY <1>1 DEF ClosedIsDone, LiveIsReachable, HandlerOrReads, Stranded
<1> QED BY <1>2, <1>3

\* Steps of Close.
LEMMA TableCloses ==
  ASSUME TableIInv, NEW c \in Conns, Close(c) \/ OnEvict(c) \/ CloseFinishes(c)
  PROVE  TableIInv'
<1> USE DEF TableIInv, connVars, sendVars, outVars
<1>1. /\ UNCHANGED <<cache, expired, conns, localAddr, handler, packetChan, upc, sendVars, outVars>>
      /\ doneChan' = doneChan \cup {c} /\ closing' \in [Conns -> {"no", "run", "done"}]
      /\ handlerClosed' \subseteq Conns
      /\ evicting' = evicting \/ (evicting' = evicting \ {c})
      /\ holder' \in {holder, "other"}
      /\ closing'[c] # "no" /\ \A d \in Conns : d # c => closing'[d] = closing[d]
  <2>1. CASE Close(c)
    BY <2>1 DEF Close, CloseStarts, Nat2TypeOK, cacheVars
  <2>2. CASE OnEvict(c)
    BY <2>2 DEF OnEvict, CloseStarts, Nat2TypeOK, cacheVars
  <2>3. CASE CloseFinishes(c)
    BY <2>3 DEF CloseFinishes, Nat2TypeOK, cacheVars, ClosedIsDone
  <2> QED BY <2>1, <2>2, <2>3
<1>2. Nat2TypeOK'
  BY <1>1 DEF Nat2TypeOK
<1>3. QueuesOK' /\ Unmade' /\ CacheIsOwn' /\ SendsToOwn' /\ HandlerOrReads' /\ Stranded'
  BY <1>1 DEF QueuesOK, Unmade, CacheIsOwn, SendsToOwn, HandlerOrReads, Stranded
<1>4. ClosedIsDone' /\ LiveIsReachable'
  BY <1>1 DEF ClosedIsDone, LiveIsReachable
<1> QED BY <1>2, <1>3, <1>4

LEMMA TableLoad ==
  ASSUME TableIInv, NEW s \in Sources, Load(s)
  PROVE  TableIInv'
<1> USE DEF TableIInv, connVars, cacheVars, outVars
<1>1. /\ UNCHANGED <<cacheVars, connVars, upc, sconn, packet, sent, outVars>>
      /\ spc[s] = "load" /\ spc' = [spc EXCEPT ![s] = "send"]
      /\ shandler' = [shandler EXCEPT ![s] = sconn[s] \in handler]
  BY DEF Load
<1>2. shandler' \in [Sources -> BOOLEAN]
  <2>1. shandler \in [Sources -> BOOLEAN]
    BY DEF Nat2TypeOK
  <2>2. (sconn[s] \in handler) \in BOOLEAN
    OBVIOUS
  <2> QED BY <1>1, <2>1, <2>2, Zenon
<1>3. spc' \in [Sources -> {"idle", "load", "send"}]
  BY <1>1 DEF Nat2TypeOK
<1>4. Nat2TypeOK'
  BY <1>1, <1>2, <1>3 DEF Nat2TypeOK
<1>5. QueuesOK' /\ Unmade' /\ CacheIsOwn' /\ ClosedIsDone' /\ LiveIsReachable' /\ HandlerOrReads'
  BY <1>1 DEF QueuesOK, Unmade, CacheIsOwn, ClosedIsDone, LiveIsReachable, HandlerOrReads
<1>6. \A t \in Sources : t # s => spc'[t] = spc[t] /\ shandler'[t] = shandler[t]
  BY <1>1 DEF Nat2TypeOK
<1>7. spc'[s] = "send" /\ (sconn[s] \in handler => shandler'[s])
  <2>1. spc'[s] = "send"
    BY <1>1 DEF Nat2TypeOK
  <2>2. sconn[s] \in handler => shandler'[s]
    BY <1>1, Zenon DEF Nat2TypeOK
  <2> QED BY <2>1, <2>2
<1>8. SendsToOwn'
  BY <1>1, <1>6, <1>7 DEF SendsToOwn
<1>9. Stranded'
  BY <1>1, <1>6, <1>7 DEF Stranded
<1> QED BY <1>4, <1>5, <1>8, <1>9

LEMMA TableSend ==
  ASSUME TableIInv, NEW s \in Sources, Send(s)
  PROVE  TableIInv'
<1> USE DEF TableIInv, cacheVars
<1> DEFINE c == sconn[s]  p == Packet(s)  q == packetChan[c]
<1>1. /\ c \in Conns /\ c \in 1 .. conns /\ localAddr[c] = s /\ p \in Packets /\ spc[s] = "send"
  <2>1. spc[s] = "send" /\ spc[s] # "idle"
    BY DEF Send
  <2>2. c \in 1 .. conns /\ localAddr[c] = s /\ packet[s] \in 1 .. sent
    BY <2>1 DEF SendsToOwn
  <2>3. packet[s] \in 1 .. MaxPackets /\ c \in Conns
    BY <2>2, NatAssumption DEF Nat2TypeOK, Conns
  <2>4. p \in Packets
    BY <2>3, MakePacket DEF Packet
  <2> QED BY <2>1, <2>2, <2>3, <2>4
<1>2. /\ UNCHANGED <<cacheVars, conns, localAddr, handler, doneChan, closing, handlerClosed, upc, sent, read>>
      /\ spc' \in [Sources -> {"idle", "load", "send"}] /\ spc'[s] = "idle"
      /\ sconn' \in [Sources -> Conns \cup {NoConn}]
      /\ packet' \in [Sources -> 0 .. MaxPackets]
      /\ \A t \in Sources : t # s => spc'[t] = spc[t] /\ sconn'[t] = sconn[t] /\ packet'[t] = packet[t]
                                       /\ shandler'[t] = shandler[t]
  BY NatAssumption DEF Send, NewPacketReturns, Nat2TypeOK
<1>3. shandler' \in [Sources -> BOOLEAN]
  BY Zenon DEF Send, NewPacketReturns, Nat2TypeOK
<1>4. /\ q \in Seq(Packets) /\ Len(q) \in Nat /\ Len(q) <= QueueCap
      /\ Append(q, p) \in Seq(Packets) /\ Len(Append(q, p)) = Len(q) + 1
  BY <1>1, LenProperties, AppendItems DEF QueuesOK, Nat2TypeOK
<1>5. \/ UNCHANGED packetChan
      \/ /\ ~shandler[s] /\ Len(q) < QueueCap
         /\ packetChan' = [packetChan EXCEPT ![c] = Append(q, p)]
  BY DEF Send
<1>6. /\ packetChan' \in [Conns -> Seq(Packets)]
      /\ \A d \in Conns : Len(packetChan'[d]) <= QueueCap
      /\ \A d \in Conns : d # c => packetChan'[d] = packetChan[d]
  <2>1. CASE UNCHANGED packetChan
    BY <2>1 DEF QueuesOK, Nat2TypeOK
  <2>2. CASE Len(q) < QueueCap /\ packetChan' = [packetChan EXCEPT ![c] = Append(q, p)]
    <3>1. Len(Append(q, p)) <= QueueCap
      BY <1>4, <2>2, NatAssumption
    <3> HIDE DEF q, p
    <3> QED BY <1>1, <1>4, <2>2, <3>1 DEF QueuesOK, Nat2TypeOK
  <2> QED BY <1>5, <2>1, <2>2
<1>7. handled' \in [Conns -> Seq(Packets)] /\ dropped' \subseteq Packets
      /\ \A d \in Conns : d # c => handled'[d] = handled[d]
  <2>1. Append(handled[c], p) \in Seq(Packets)
    BY <1>1, AppendItems DEF QueuesOK
  <2>2. handled' = handled \/ handled' = [handled EXCEPT ![c] = Append(handled[c], p)]
    BY DEF Send
  <2>3. dropped' = dropped \/ dropped' = dropped \cup {p}
    BY DEF Send
  <2> HIDE DEF p
  <2> QED BY <1>1, <2>1, <2>2, <2>3 DEF QueuesOK
<1> HIDE DEF c, p
<1>8. Nat2TypeOK' /\ QueuesOK'
  BY <1>2, <1>3, <1>6, <1>7 DEF Nat2TypeOK, QueuesOK
<1>9. \A d \in Conns : d > conns => d # c
  BY <1>1 DEF Nat2TypeOK, Conns
<1>10. Unmade'
  BY <1>2, <1>6, <1>7, <1>9 DEF Unmade
<1>11. CacheIsOwn' /\ ClosedIsDone' /\ LiveIsReachable' /\ HandlerOrReads'
  BY <1>2 DEF CacheIsOwn, ClosedIsDone, LiveIsReachable, HandlerOrReads
<1>12. SendsToOwn'
  BY <1>2 DEF SendsToOwn
<1>13. Stranded'
  <2> SUFFICES ASSUME NEW d \in handler, upc[d] = "end"
               PROVE  /\ Len(packetChan'[d]) <= 1
                      /\ \A t \in Sources : spc'[t] = "send" /\ sconn'[t] = d /\ ~shandler'[t]
                                              => packetChan'[d] = << >>
    BY <1>2 DEF Stranded
  <2>1. d \in Conns /\ Len(packetChan[d]) <= 1
    BY DEF Nat2TypeOK, Stranded
  <2>2. CASE d # c
    BY <1>2, <1>6, <2>1, <2>2 DEF Stranded
  <2>3. CASE d = c
    <3>1. \A t \in Sources : spc'[t] # "idle" => sconn'[t] # c
      BY <1>1, <1>2 DEF SendsToOwn
    <3>2. CASE UNCHANGED packetChan
      BY <2>1, <2>3, <3>1, <3>2
    <3>3. CASE ~shandler[s] /\ packetChan' = [packetChan EXCEPT ![c] = Append(q, p)]
      <4>1. q = << >> /\ Len(q) = 0
        BY <1>1, <2>3, <3>3 DEF Stranded, c
      <4>2. packetChan'[c] = Append(q, p)
        BY <1>1, <3>3 DEF QueuesOK
      <4>3. Len(packetChan'[d]) <= 1
        BY <1>4, <2>3, <4>1, <4>2
      <4> QED BY <2>3, <3>1, <4>3
    <3> QED BY <1>5, <3>2, <3>3
  <2> QED BY <2>2, <2>3
<1> QED BY <1>8, <1>10, <1>11, <1>12, <1>13

\* The goroutine of a connection, when it moves no packets.
LEMMA TableGoes ==
  ASSUME TableIInv, NEW c \in Conns, StartReading(c) \/ ReadAbort(c) \/ SetHandler(c)
  PROVE  TableIInv'
<1> USE DEF TableIInv, connVars, cacheVars, sendVars, outVars
<1>1. /\ UNCHANGED <<cacheVars, conns, localAddr, packetChan, doneChan, closing, handlerClosed, sendVars, outVars>>
      /\ \/ upc[c] = "start" /\ upc' = [upc EXCEPT ![c] = "read"] /\ UNCHANGED handler
         \/ upc[c] = "read" /\ upc' = [upc EXCEPT ![c] = "end"] /\ UNCHANGED handler
         \/ upc[c] = "start" /\ upc' = [upc EXCEPT ![c] = "drain"] /\ handler' = handler \cup {c}
  BY DEF StartReading, ReadAbort, SetHandler
<1>2. upc' \in [Conns -> {"none", "start", "read", "drain", "end"}] /\ handler' \subseteq Conns
  BY <1>1 DEF Nat2TypeOK
<1>3. Nat2TypeOK' /\ QueuesOK' /\ CacheIsOwn' /\ SendsToOwn' /\ ClosedIsDone' /\ LiveIsReachable'
  BY <1>1, <1>2 DEF Nat2TypeOK, QueuesOK, CacheIsOwn, SendsToOwn, ClosedIsDone, LiveIsReachable
<1>4. /\ c \notin handler /\ upc'[c] # "none" /\ upc[c] # "none"
      /\ \A d \in Conns : d # c => upc'[d] = upc[d] /\ (d \in handler' <=> d \in handler)
  BY <1>1 DEF HandlerOrReads, Nat2TypeOK
<1>5. Unmade'
  BY <1>1, <1>4 DEF Unmade
<1>6. HandlerOrReads'
  <2>1. /\ c \in handler' => upc'[c] = "drain" /\ upc[c] = "start"
        /\ upc'[c] \in {"none", "start", "drain"} => upc[c] = "start"
    BY <1>1, <1>4 DEF Nat2TypeOK
  <2>2. upc[c] = "start" => read[c] = << >>
    BY DEF HandlerOrReads
  <2> QED BY <1>1, <1>4, <2>1, <2>2 DEF HandlerOrReads
<1>7. Stranded'
  BY <1>1, <1>2, <1>4 DEF Stranded, Nat2TypeOK
<1> QED BY <1>3, <1>5, <1>6, <1>7

\* What is left of a queue.
LEMMA Rest ==
  ASSUME NEW q \in Seq(Packets), NEW n \in 1 .. Len(q)
  PROVE  /\ SubSeq(q, 1, n) \in Seq(Packets) /\ SubSeq(q, n + 1, Len(q)) \in Seq(Packets)
         /\ Len(SubSeq(q, n + 1, Len(q))) <= Len(q)
         /\ SubSeq(q, 1, n) \o SubSeq(q, n + 1, Len(q)) = q
<1>1. Len(q) \in Nat /\ n \in Nat /\ \A i \in 1 .. Len(q) : q[i] \in Packets
  BY LenProperties, ElementOfSeq
<1>2. /\ \A i \in 1 .. n : q[i] \in Packets
      /\ \A i \in n + 1 .. Len(q) : q[i] \in Packets
  BY <1>1
<1>3. SubSeq(q, 1, n) \in Seq(Packets)
  BY <1>1, <1>2, SubSeqProperties
<1>4. /\ SubSeq(q, n + 1, Len(q)) \in Seq(Packets)
      /\ Len(SubSeq(q, n + 1, Len(q))) = IF n + 1 <= Len(q) THEN Len(q) - (n + 1) + 1 ELSE 0
  BY <1>1, <1>2, SubSeqProperties
<1>5. Len(SubSeq(q, n + 1, Len(q))) <= Len(q)
  BY <1>1, <1>4
<1>6. SubSeq(q, 1, n) \o SubSeq(q, n + 1, Len(q)) = SubSeq(q, 1, Len(q))
  BY <1>1, ConcatAdjacentSubSeq
<1> QED BY <1>3, <1>4, <1>5, <1>6, SubSeqFull

LEMMA AppendBehind ==
  ASSUME NEW q \in Seq(Packets), NEW r \in Seq(Packets), NEW p \in Packets
  PROVE  q \o Append(r, p) = Append(q \o r, p)
<1>1. <<p>> \in Seq(Packets) /\ q \o r \in Seq(Packets)
  BY ConcatProperties
<1>2. Append(r, p) = r \o <<p>> /\ Append(q \o r, p) = (q \o r) \o <<p>>
  BY <1>1, AppendIsConcat
<1> QED BY <1>1, <1>2, ConcatAssociative

LEMMA Joined ==
  ASSUME NEW q \in Seq(Packets), NEW r \in Seq(Packets), NEW a \in Seq(Packets)
  PROVE  q \o r \in Seq(Packets) /\ (q \o r) \o a = q \o (r \o a)
  BY ConcatProperties, ConcatAssociative

\* ReadPacket moves packets within Queue.
LEMMA ReadMoves ==
  ASSUME TableIInv, NEW c \in Conns, ReadPackets(c)
  PROVE  /\ read' \in [Conns -> Seq(Packets)] /\ packetChan' \in [Conns -> Seq(Packets)]
         /\ \A d \in Conns : d # c => read'[d] = read[d] /\ packetChan'[d] = packetChan[d]
         /\ Len(packetChan'[c]) <= Len(packetChan[c])
         /\ \A d \in Conns : Queue(d)' = Queue(d)
<1> DEFINE q == packetChan[c]
<1>1. PICK n \in 1 .. BatchSize :
        /\ n <= Len(q)
        /\ read' = [read EXCEPT ![c] = @ \o SubSeq(packetChan[c], 1, n)]
        /\ packetChan' = [packetChan EXCEPT ![c] = SubSeq(@, n + 1, Len(@))]
  BY DEF ReadPackets
<1> DEFINE x == SubSeq(q, 1, n)  y == SubSeq(q, n + 1, Len(q))
<1>2. q \in Seq(Packets) /\ read[c] \in Seq(Packets) /\ n \in 1 .. Len(q)
  BY <1>1, LenProperties DEF TableIInv, QueuesOK
<1>3. x \in Seq(Packets) /\ y \in Seq(Packets) /\ Len(y) <= Len(q) /\ x \o y = q
  BY <1>2, Rest
<1>4. /\ read' = [read EXCEPT ![c] = read[c] \o x] /\ packetChan' = [packetChan EXCEPT ![c] = y]
  BY <1>1
<1> HIDE DEF x, y
<1>5. read[c] \o x \in Seq(Packets) /\ (read[c] \o x) \o y = read[c] \o q
  <2>1. read[c] \o x \in Seq(Packets) /\ (read[c] \o x) \o y = read[c] \o (x \o y)
    <3> HIDE DEF q
    <3> QED BY <1>2, <1>3, Joined, Zenon
  <2> QED BY <1>3, <2>1, Zenon
<1>6. /\ read' \in [Conns -> Seq(Packets)] /\ packetChan' \in [Conns -> Seq(Packets)]
      /\ read'[c] = read[c] \o x /\ packetChan'[c] = y
      /\ \A d \in Conns : d # c => read'[d] = read[d] /\ packetChan'[d] = packetChan[d]
  BY <1>3, <1>4, <1>5 DEF TableIInv, QueuesOK
<1>7. \A d \in Conns : Queue(d)' = Queue(d)
  BY <1>5, <1>6 DEF Queue
<1> QED BY <1>3, <1>6, <1>7

LEMMA TableRead ==
  ASSUME TableIInv, NEW c \in Conns, ReadPackets(c)
  PROVE  TableIInv'
<1> USE DEF TableIInv, cacheVars, sendVars
<1>1. /\ UNCHANGED <<cacheVars, conns, localAddr, handler, doneChan, closing, handlerClosed, upc,
                     sendVars, handled, dropped>>
      /\ upc[c] = "read"
  BY DEF ReadPackets
<1>2. /\ read' \in [Conns -> Seq(Packets)] /\ packetChan' \in [Conns -> Seq(Packets)]
      /\ \A d \in Conns : d # c => read'[d] = read[d] /\ packetChan'[d] = packetChan[d]
      /\ Len(packetChan'[c]) <= Len(packetChan[c])
  BY ReadMoves
<1>3. ASSUME NEW d \in Conns PROVE Len(packetChan'[d]) <= QueueCap
  <2>1. /\ Len(packetChan[d]) \in Nat /\ Len(packetChan'[d]) \in Nat
        /\ Len(packetChan[d]) <= QueueCap
    BY <1>2, LenProperties DEF QueuesOK, Nat2TypeOK
  <2>2. Len(packetChan'[d]) <= Len(packetChan[d])
    <3>1. CASE d = c
      BY <1>2, <3>1
    <3>2. CASE d # c
      BY <1>2, <2>1, <3>2
    <3> QED BY <3>1, <3>2
  <2> QED BY <2>1, <2>2, NatAssumption
<1>4. Nat2TypeOK' /\ QueuesOK'
  BY <1>1, <1>2, <1>3 DEF Nat2TypeOK, QueuesOK
<1>5. CacheIsOwn' /\ SendsToOwn' /\ ClosedIsDone' /\ LiveIsReachable'
  BY <1>1 DEF CacheIsOwn, SendsToOwn, ClosedIsDone, LiveIsReachable
<1>6. c \notin handler /\ ~(c > conns)
  BY <1>1 DEF HandlerOrReads, Unmade
<1>7. Unmade' /\ HandlerOrReads'
  BY <1>1, <1>2, <1>6 DEF Unmade, HandlerOrReads
<1>8. \A d \in handler : d \in Conns /\ packetChan'[d] = packetChan[d]
  BY <1>2, <1>6 DEF Nat2TypeOK
<1>9. Stranded'
  BY <1>1, <1>8 DEF Stranded
<1> QED BY <1>4, <1>5, <1>7, <1>9

LEMMA TableDrain ==
  ASSUME TableIInv, NEW c \in Conns, Drain(c)
  PROVE  TableIInv'
<1> USE DEF TableIInv, cacheVars, sendVars
<1>1. /\ UNCHANGED <<cacheVars, conns, localAddr, handler, doneChan, closing, handlerClosed, sendVars, read, dropped>>
      /\ upc[c] = "drain"
  BY DEF Drain
<1>2. CASE /\ packetChan[c] # << >> /\ UNCHANGED upc
           /\ handled' = [handled EXCEPT ![c] = Append(@, Head(packetChan[c]))]
           /\ packetChan' = [packetChan EXCEPT ![c] = Tail(@)]
  <2> DEFINE q == packetChan[c]  h == handled[c]
  <2>1. q \in Seq(Packets) /\ h \in Seq(Packets) /\ q # << >> /\ Len(q) <= QueueCap
    BY <1>2 DEF QueuesOK, Nat2TypeOK
  <2>2. Head(q) \in Packets /\ Tail(q) \in Seq(Packets) /\ Len(Tail(q)) = Len(q) - 1 /\ Len(q) \in Nat
    BY <2>1, HeadTailProperties, LenProperties
  <2>3. Append(h, Head(q)) \in Seq(Packets) /\ Len(Tail(q)) <= QueueCap
    BY <2>1, <2>2, AppendProperties, NatAssumption
  <2>4. /\ handled' \in [Conns -> Seq(Packets)] /\ packetChan' \in [Conns -> Seq(Packets)]
        /\ \A d \in Conns : d # c => handled'[d] = handled[d] /\ packetChan'[d] = packetChan[d]
        /\ packetChan'[c] = Tail(q)
    BY <1>2, <2>2, <2>3 DEF QueuesOK
  <2>5. Nat2TypeOK' /\ QueuesOK'
    BY <1>1, <1>2, <2>3, <2>4 DEF Nat2TypeOK, QueuesOK
  <2>6. CacheIsOwn' /\ SendsToOwn' /\ ClosedIsDone' /\ LiveIsReachable' /\ HandlerOrReads'
    BY <1>1, <1>2 DEF CacheIsOwn, SendsToOwn, ClosedIsDone, LiveIsReachable, HandlerOrReads
  <2>7. ~(c > conns)
    BY <1>1 DEF Unmade
  <2>8. Unmade' /\ Stranded'
    BY <1>1, <1>2, <2>4, <2>7 DEF Unmade, Stranded, Nat2TypeOK
  <2> QED BY <2>5, <2>6, <2>8
<1>3. CASE packetChan[c] = << >> /\ upc' = [upc EXCEPT ![c] = "end"] /\ UNCHANGED <<handled, packetChan>>
  <2>1. /\ upc' \in [Conns -> {"none", "start", "read", "drain", "end"}] /\ upc'[c] = "end"
        /\ \A d \in Conns : d # c => upc'[d] = upc[d]
    BY <1>3 DEF Nat2TypeOK
  <2>2. Nat2TypeOK' /\ QueuesOK' /\ CacheIsOwn' /\ SendsToOwn' /\ ClosedIsDone' /\ LiveIsReachable'
    BY <1>1, <1>3, <2>1 DEF Nat2TypeOK, QueuesOK, CacheIsOwn, SendsToOwn, ClosedIsDone, LiveIsReachable
  <2>3. Unmade' /\ HandlerOrReads'
    BY <1>1, <1>3, <2>1 DEF Unmade, HandlerOrReads
  <2>4. Len(packetChan[c]) = 0
    BY <1>3
  <2>5. Stranded'
    BY <1>1, <1>3, <2>1, <2>4 DEF Stranded, Nat2TypeOK
  <2> QED BY <2>2, <2>3, <2>5
<1> QED BY <1>2, <1>3 DEF Drain

LEMMA TableStep == TableIInv /\ [Nat2Next]_nat2Vars => TableIInv'
<1> SUFFICES ASSUME TableIInv, [Nat2Next]_nat2Vars PROVE TableIInv'
  OBVIOUS
<1>1. CASE UNCHANGED nat2Vars
  <2>1. UNCHANGED <<cacheVars, connVars, upc, sendVars, outVars>>
    BY <1>1 DEF nat2Vars
  <2> USE DEF cacheVars, connVars, sendVars, outVars
  <2>2. Nat2TypeOK' /\ QueuesOK' /\ Unmade' /\ CacheIsOwn' /\ SendsToOwn'
    BY <2>1 DEF TableIInv, Nat2TypeOK, QueuesOK, Unmade, CacheIsOwn, SendsToOwn
  <2>3. ClosedIsDone' /\ LiveIsReachable' /\ HandlerOrReads' /\ Stranded'
    BY <2>1 DEF TableIInv, ClosedIsDone, LiveIsReachable, HandlerOrReads, Stranded
  <2> QED BY <2>2, <2>3 DEF TableIInv
<1>2. ASSUME NEW s \in Sources,
             Found(s) \/ Made(s) \/ Refused(s) \/ Load(s) \/ Send(s) \/ Lapse(s)
      PROVE  TableIInv'
  BY <1>2, TableFound, TableMade, TableDrops, TableLoad, TableSend, TableAges
<1>3. ASSUME NEW c \in Conns,
             \/ StartReading(c) \/ ReadPackets(c) \/ ReadAbort(c) \/ SetHandler(c) \/ Drain(c)
             \/ Close(c) \/ OnEvict(c) \/ CloseFinishes(c) \/ Timeout(c) \/ SetTimeout(c)
      PROVE  TableIInv'
  BY <1>3, TableGoes, TableRead, TableDrain, TableCloses, TableDrops, TableAges
<1>4. CASE PurgeSome(Sources) \/ PurgeSome(expired)
  BY <1>4, TableDrops
<1> QED BY <1>1, <1>2, <1>3, <1>4 DEF Nat2Next

-----------------------------------------------------------------------------
\* Where the packets of a connection are.
LEMMA QueueType ==
  ASSUME TableIInv, NEW c \in Conns
  PROVE  /\ read[c] \in Seq(Packets) /\ packetChan[c] \in Seq(Packets) /\ handled[c] \in Seq(Packets)
         /\ Queue(c) \in Seq(Packets)
         /\ Items(Queue(c)) \subseteq Packets /\ Items(handled[c]) \subseteq Packets
         /\ Items(Queue(c)) \cup Items(handled[c]) # {} => c \in 1 .. conns
<1>1. /\ read[c] \in Seq(Packets) /\ packetChan[c] \in Seq(Packets) /\ handled[c] \in Seq(Packets)
  BY DEF TableIInv, QueuesOK
<1>2. Queue(c) \in Seq(Packets) /\ Items(Queue(c)) = Items(read[c]) \cup Items(packetChan[c])
  BY <1>1, ConcatItems DEF Queue
<1>3. Items(<< >>) = {}
  BY DEF Items
<1>4. c \in 1 .. conns \/ c > conns
  BY NatAssumption DEF TableIInv, Nat2TypeOK, Conns
<1>5. c > conns => read[c] = << >> /\ packetChan[c] = << >> /\ handled[c] = << >>
  BY DEF TableIInv, Unmade
<1>6. Items(Queue(c)) \cup Items(handled[c]) # {} => c \in 1 .. conns
  BY <1>2, <1>3, <1>4, <1>5
<1> QED BY <1>1, <1>2, <1>6, ItemsArePackets

\* A step that hands no packet out, and drops none but a new one.
LEMMA PacketsKept ==
  ASSUME TableIInv, PacketsIInv, handled' = handled, \A c \in Conns : Queue(c)' = Queue(c),
         \A c \in 1 .. conns : localAddr'[c] = localAddr[c],
         \A p \in Packets : Known(p) => Known(p)',
         \A p \in dropped' \ dropped : ~Known(p) /\ Known(p)'
  PROVE  PacketsIInv'
<1>1. \A p \in dropped' : Known(p)'
  BY DEF PacketsIInv, TableIInv, QueuesOK
<1>2. ASSUME NEW c \in Conns PROVE GivenOnce(c)'
  <2>1. GivenOnce(c)
    BY DEF PacketsIInv
  <2>2. Queue(c)' = Queue(c) /\ handled'[c] = handled[c]
    OBVIOUS
  <2>3. ASSUME NEW p \in Items(Queue(c)) \cup Items(handled[c]) PROVE Mine(c, p)'
    <3>1. p \in Packets /\ c \in 1 .. conns
      BY QueueType
    <3>2. p[1] = localAddr[c] /\ p \notin dropped /\ Known(p)
      BY <2>1 DEF GivenOnce, Mine
    <3>3. Known(p)' /\ p \notin dropped' /\ p[1] = localAddr'[c]
      BY <3>1, <3>2
    <3> QED BY <3>3 DEF Mine
  <2> QED BY <2>1, <2>2, <2>3 DEF GivenOnce
<1> QED BY <1>1, <1>2 DEF PacketsIInv

\* What NewPacket carries is known when it returns, and not before.
LEMMA SendKnown ==
  ASSUME TableIInv, NEW s \in Sources, Send(s)
  PROVE  /\ Packet(s) \in Packets /\ Packet(s)[1] = s /\ Packet(s)[2] = packet[s]
         /\ ~Known(Packet(s))
         /\ \A p \in Packets : Known(p) \/ p = Packet(s) => Known(p)'
         /\ \A p \in Packets : Known(p) /\ p[1] = s => p[2] < packet[s]
<1>1. spc[s] = "send" /\ spc[s] # "idle" /\ sent' = sent
  BY DEF Send
<1>2. packet[s] \in 1 .. sent /\ sent \in 0 .. MaxPackets
  BY <1>1 DEF TableIInv, SendsToOwn, Nat2TypeOK
<1>3. packet[s] \in 1 .. MaxPackets
  BY <1>2, NatAssumption
<1>4. Packet(s) \in Packets /\ Packet(s)[1] = s /\ Packet(s)[2] = packet[s]
  BY <1>3, MakePacket DEF Packet
<1>5. ~Known(Packet(s))
  BY <1>1, <1>2, <1>4 DEF Known
<1>6. spc'[s] = "idle" /\ \A t \in Sources : t # s => spc'[t] = spc[t] /\ packet'[t] = packet[t]
  BY DEF Send, NewPacketReturns, TableIInv, Nat2TypeOK
<1>7. \A p \in Packets : Known(p) => Known(p)'
  BY <1>1, <1>6, PacketParts DEF Known
<1>8. \A p \in Packets : p = Packet(s) => Known(p)'
  BY <1>1, <1>2, <1>4, <1>6 DEF Known
<1>9. \A p \in Packets : Known(p) /\ p[1] = s => p[2] < packet[s]
  BY <1>1 DEF Known
<1> QED BY <1>4, <1>5, <1>7, <1>8, <1>9

LEMMA PacketsSend ==
  ASSUME TableIInv, PacketsIInv, NEW s \in Sources, Send(s)
  PROVE  PacketsIInv'
<1>1. sconn[s] \in Conns /\ localAddr[sconn[s]] = s
  BY NatAssumption DEF Send, TableIInv, SendsToOwn, Conns, Nat2TypeOK
<1>2. Packet(s) \in Packets
  BY SendKnown
<1> SUFFICES ASSUME NEW c \in Conns, c = sconn[s], NEW p \in Packets, p = Packet(s)
             PROVE  PacketsIInv'
  BY <1>1, <1>2
<1>3. /\ p \in Packets /\ p[1] = s /\ p[2] = packet[s] /\ ~Known(p)
      /\ \A x \in Packets : Known(x) \/ x = p => Known(x)'
      /\ \A x \in Packets : Known(x) /\ x[1] = s => x[2] < packet[s]
  BY SendKnown
<1>4. c \in Conns /\ localAddr[c] = s
  BY <1>1
<1>5. read' = read /\ localAddr' = localAddr
  BY DEF Send
<1>6. GivenOnce(c) /\ p \notin Items(Queue(c)) /\ p \notin Items(handled[c]) /\ p \notin dropped
      /\ \A x \in Items(Queue(c)) : x[2] < p[2]
  BY <1>3, <1>4, QueueType DEF PacketsIInv, GivenOnce, Mine
<1>7. /\ read[c] \in Seq(Packets) /\ packetChan[c] \in Seq(Packets) /\ handled[c] \in Seq(Packets)
      /\ Queue(c) \in Seq(Packets)
  BY <1>4, QueueType
<1>8. CASE UNCHANGED <<packetChan, handled>> /\ dropped' = dropped \cup {p}
  BY <1>3, <1>5, <1>8, PacketsKept DEF Queue
<1>9. \/ /\ handled' = [handled EXCEPT ![c] = Append(handled[c], p)] /\ UNCHANGED <<packetChan, dropped>>
      \/ /\ packetChan' = [packetChan EXCEPT ![c] = Append(packetChan[c], p)] /\ UNCHANGED <<handled, dropped>>
      \/ UNCHANGED <<packetChan, handled>> /\ dropped' = dropped \cup {p}
  BY DEF Send
<1>10. ASSUME dropped' = dropped,
             \A d \in Conns : d # c => handled'[d] = handled[d] /\ packetChan'[d] = packetChan[d],
             Items(Queue(c)') \cup Items(handled'[c]) \subseteq Items(Queue(c)) \cup Items(handled[c]) \cup {p},
             Rising(Queue(c)'), Distinct(handled'[c]), Items(Queue(c)') \cap Items(handled'[c]) = {}
      PROVE  PacketsIInv'
  <2>1. \A x \in dropped' : Known(x)'
    BY <1>3, <1>10 DEF PacketsIInv, TableIInv, QueuesOK
  <2>2. ASSUME NEW d \in Conns, NEW x \in Items(Queue(d)) \cup Items(handled[d])
        PROVE  Mine(d, x)'
    <3>1. x \in Packets /\ Mine(d, x)
      BY QueueType DEF PacketsIInv, GivenOnce
    <3> QED BY <1>3, <1>5, <1>10, <3>1 DEF Mine
  <2>3. Mine(c, p)'
    BY <1>3, <1>4, <1>5, <1>6, <1>10 DEF Mine
  <2>4. GivenOnce(c)'
    BY <1>4, <1>10, <2>2, <2>3 DEF GivenOnce
  <2>5. ASSUME NEW d \in Conns, d # c PROVE GivenOnce(d)'
    <3>1. Queue(d)' = Queue(d) /\ handled'[d] = handled[d]
      BY <1>5, <1>10, <2>5 DEF Queue
    <3>2. GivenOnce(d)
      BY DEF PacketsIInv
    <3> QED BY <2>2, <3>1, <3>2 DEF GivenOnce
  <2> QED BY <2>1, <2>4, <2>5 DEF PacketsIInv
<1>11. CASE handled' = [handled EXCEPT ![c] = Append(handled[c], p)] /\ UNCHANGED <<packetChan, dropped>>
  <2>1. /\ handled'[c] = Append(handled[c], p) /\ \A d \in Conns : d # c => handled'[d] = handled[d]
    BY <1>4, <1>11 DEF TableIInv, QueuesOK
  <2>2. Distinct(handled'[c]) /\ Items(handled'[c]) = Items(handled[c]) \cup {p}
    BY <1>3, <1>6, <1>7, <2>1, AppendDistinct, AppendItems DEF GivenOnce
  <2>3. Queue(c)' = Queue(c)
    BY <1>4, <1>5, <1>11 DEF Queue
  <2> QED BY <1>6, <1>10, <1>11, <2>1, <2>2, <2>3 DEF GivenOnce
<1>12. CASE packetChan' = [packetChan EXCEPT ![c] = Append(packetChan[c], p)] /\ UNCHANGED <<handled, dropped>>
  <2>1. /\ packetChan'[c] = Append(packetChan[c], p)
        /\ \A d \in Conns : d # c => packetChan'[d] = packetChan[d]
    BY <1>4, <1>12 DEF TableIInv, QueuesOK
  <2>2. read[c] \o Append(packetChan[c], p) = Append(read[c] \o packetChan[c], p)
    BY <1>3, <1>7, AppendBehind
  <2>3. Queue(c)' = Append(Queue(c), p)
    BY <1>5, <2>1, <2>2 DEF Queue
  <2>4. Rising(Append(Queue(c), p)) /\ Items(Append(Queue(c), p)) = Items(Queue(c)) \cup {p}
    BY <1>3, <1>6, <1>7, AppendRises, AppendItems DEF GivenOnce
  <2> QED BY <1>6, <1>10, <1>12, <2>1, <2>3, <2>4 DEF GivenOnce
<1> QED BY <1>8, <1>9, <1>11, <1>12

LEMMA PacketsDrain ==
  ASSUME TableIInv, PacketsIInv, NEW c \in Conns, Drain(c)
  PROVE  PacketsIInv'
<1> DEFINE q == packetChan[c]  h == handled[c]
<1>1. /\ UNCHANGED <<localAddr, read, dropped, spc, packet, sent>> /\ upc[c] = "drain"
  BY DEF Drain, sendVars
<1>2. \A p : Known(p)' <=> Known(p)
  BY <1>1 DEF Known
<1>3. q \in Seq(Packets) /\ h \in Seq(Packets) /\ read[c] = << >>
  BY <1>1 DEF TableIInv, QueuesOK, HandlerOrReads
<1>4. CASE UNCHANGED <<handled, packetChan>>
  BY <1>1, <1>2, <1>4, PacketsKept DEF Queue
<1>5. CASE /\ q # << >>
           /\ handled' = [handled EXCEPT ![c] = Append(h, Head(q))]
           /\ packetChan' = [packetChan EXCEPT ![c] = Tail(q)]
  <2>1. /\ handled'[c] = Append(h, Head(q)) /\ packetChan'[c] = Tail(q)
        /\ \A d \in Conns : d # c => handled'[d] = handled[d] /\ packetChan'[d] = packetChan[d]
    BY <1>5 DEF TableIInv, QueuesOK
  <2>2. Tail(q) \in Seq(Packets)
    BY <1>3, <1>5, HeadTailProperties
  <2>3. Queue(c) = q
    BY <1>3, ConcatEmptySeq DEF Queue
  <2>4. read[c] \o Tail(q) = Tail(q)
    BY <1>3, <2>2, ConcatEmptySeq
  <2>5. Queue(c)' = Tail(q)
    BY <1>1, <2>1, <2>4 DEF Queue
  <2>6. GivenOnce(c) /\ Rising(q) /\ Distinct(h) /\ Items(q) \cap Items(h) = {}
    BY <2>3 DEF PacketsIInv, GivenOnce
  <2>7. /\ Head(q) \in Items(q) /\ Items(Tail(q)) \subseteq Items(q)
        /\ Head(q) \notin Items(Tail(q)) /\ Rising(Tail(q))
    BY <1>3, <1>5, <2>6, TailItems
  <2>8. Head(q) \in Packets /\ Head(q) \notin Items(h)
    BY <1>3, <2>6, <2>7, ItemsArePackets
  <2>9. Items(Append(h, Head(q))) = Items(h) \cup {Head(q)} /\ Distinct(Append(h, Head(q)))
    BY <1>3, <2>6, <2>8, AppendItems, AppendDistinct
  <2>10. \A d \in Conns : \A p \in Items(Queue(d)) \cup Items(handled[d]) : Mine(d, p)'
    BY <1>1, <1>2 DEF PacketsIInv, GivenOnce, Mine
  <2> HIDE DEF q, h
  <2>11. GivenOnce(c)'
    <3>1. Items(Tail(q)) \cup Items(Append(h, Head(q))) \subseteq Items(Queue(c)) \cup Items(handled[c])
      BY <2>3, <2>7, <2>9 DEF h
    <3>2. Items(Tail(q)) \cap Items(Append(h, Head(q))) = {}
      BY <2>6, <2>7, <2>9
    <3>3. \A p \in Items(Tail(q)) \cup Items(Append(h, Head(q))) : Mine(c, p)'
      BY <2>10, <3>1
    <3> QED BY <2>1, <2>5, <2>7, <2>9, <3>2, <3>3 DEF GivenOnce
  <2>12. ASSUME NEW d \in Conns, d # c PROVE GivenOnce(d)'
    <3>1. Queue(d)' = Queue(d) /\ handled'[d] = handled[d]
      BY <1>1, <2>1, <2>12 DEF Queue
    <3>2. GivenOnce(d)
      BY DEF PacketsIInv
    <3> QED BY <2>10, <3>1, <3>2 DEF GivenOnce
  <2>13. \A p \in dropped' : Known(p)'
    BY <1>1, <1>2 DEF PacketsIInv
  <2> QED BY <2>11, <2>12, <2>13 DEF PacketsIInv
<1> QED BY <1>4, <1>5 DEF Drain

\* Steps that hand out no packet: a new one may be under way, or refused.
LEMMA PacketsStay ==
  ASSUME TableIInv, PacketsIInv,
         \/ \E s \in Sources : Found(s) \/ Made(s) \/ Refused(s) \/ Load(s) \/ Lapse(s)
         \/ \E c \in Conns : \/ StartReading(c) \/ ReadPackets(c) \/ ReadAbort(c) \/ SetHandler(c)
                             \/ Close(c) \/ OnEvict(c) \/ CloseFinishes(c) \/ Timeout(c) \/ SetTimeout(c)
         \/ PurgeSome(Sources) \/ PurgeSome(expired)
         \/ UNCHANGED nat2Vars
  PROVE  PacketsIInv'
<1> USE DEF cacheVars, connVars, sendVars, outVars
<1>1. ASSUME UNCHANGED <<localAddr, read, handled, packetChan, dropped, spc, packet, sent>>
      PROVE  PacketsIInv'
  BY <1>1, PacketsKept DEF Queue, Known
<1>2. ASSUME NEW s \in Sources, Receives(s), UNCHANGED <<read, handled, packetChan>>,
             \A c \in 1 .. conns : localAddr'[c] = localAddr[c],
             \/ /\ UNCHANGED dropped /\ spc' = [spc EXCEPT ![s] = "load"]
                /\ packet' = [packet EXCEPT ![s] = sent']
             \/ dropped' = dropped \cup {<<s, sent'>>} /\ UNCHANGED <<spc, packet>>
      PROVE  PacketsIInv'
  <2>1. sent' = sent + 1 /\ sent \in Nat /\ sent' \in 1 .. MaxPackets /\ spc[s] = "idle"
    BY <1>2, NatAssumption DEF Receives, TableIInv, Nat2TypeOK
  <2>2. \A t \in Sources : spc'[t] # "idle" =>
          \/ t = s /\ packet'[t] = sent'
          \/ spc[t] # "idle" /\ packet'[t] = packet[t]
    BY <1>2, <2>1 DEF TableIInv, Nat2TypeOK
  <2>3. \A p \in Packets : Known(p) => Known(p)'
    BY <2>1, <2>2, PacketParts DEF Known
  <2>4. <<s, sent'>>[1] = s /\ <<s, sent'>>[2] = sent'
    BY <2>1, MakePacket
  <2>5. \A p \in dropped' \ dropped : ~Known(p) /\ Known(p)'
    <3> SUFFICES ASSUME NEW p \in dropped' \ dropped PROVE ~Known(p) /\ Known(p)'
      OBVIOUS
    <3>1. p = <<s, sent'>> /\ UNCHANGED <<spc, packet>>
      BY <1>2
    <3>2. p[1] = s /\ p[2] = sent'
      BY <2>4, <3>1
    <3> QED BY <2>1, <3>1, <3>2 DEF Known
  <2> QED BY <1>2, <2>3, <2>5, PacketsKept DEF Queue
<1>3. ASSUME NEW s \in Sources, Made(s) PROVE PacketsIInv'
  <2>1. localAddr \in Seq(Sources) /\ Len(localAddr) = conns /\ localAddr' = Append(localAddr, s)
    BY <1>3, NatAssumption DEF Made, TableIInv, Nat2TypeOK
  <2>2. \A c \in 1 .. conns : localAddr'[c] = localAddr[c]
    BY <2>1, AppendProperties
  <2> QED BY <1>2, <1>3, <2>2 DEF Made
<1>4. ASSUME NEW s \in Sources, Found(s) \/ Refused(s) PROVE PacketsIInv'
  BY <1>2, <1>4 DEF Found, Refused
<1>5. ASSUME NEW s \in Sources, Load(s) PROVE PacketsIInv'
  <2>1. /\ UNCHANGED <<localAddr, read, handled, packetChan, dropped, packet, sent>>
        /\ \A t \in Sources : spc'[t] # "idle" => spc[t] # "idle"
    BY <1>5 DEF Load, TableIInv, Nat2TypeOK
  <2>2. \A p \in Packets : Known(p) => Known(p)'
    BY <2>1, PacketParts DEF Known
  <2> QED BY <2>1, <2>2, PacketsKept DEF Queue
<1>6. ASSUME NEW c \in Conns, ReadPackets(c) PROVE PacketsIInv'
  <2>1. UNCHANGED <<localAddr, handled, dropped, spc, packet, sent>> /\ \A d \in Conns : Queue(d)' = Queue(d)
    BY <1>6, ReadMoves DEF ReadPackets
  <2>2. \A p \in Packets : Known(p) => Known(p)'
    BY <2>1 DEF Known
  <2> QED BY <2>1, <2>2, PacketsKept
<1>7. ASSUME \/ \E s \in Sources : Lapse(s)
             \/ \E c \in Conns : \/ StartReading(c) \/ ReadAbort(c) \/ SetHandler(c)
                                 \/ Close(c) \/ OnEvict(c) \/ CloseFinishes(c) \/ Timeout(c) \/ SetTimeout(c)
             \/ PurgeSome(Sources) \/ PurgeSome(expired)
             \/ UNCHANGED nat2Vars
      PROVE  UNCHANGED <<localAddr, read, handled, packetChan, dropped, spc, packet, sent>>
  BY <1>7 DEF Lapse, StartReading, ReadAbort, SetHandler, Close, OnEvict, CloseFinishes, Timeout,
              SetTimeout, PurgeSome, nat2Vars
<1> QED BY <1>1, <1>3, <1>4, <1>5, <1>6, <1>7

LEMMA PacketsStep == TableIInv /\ PacketsIInv /\ [Nat2Next]_nat2Vars => PacketsIInv'
<1> SUFFICES ASSUME TableIInv, PacketsIInv, [Nat2Next]_nat2Vars PROVE PacketsIInv'
  OBVIOUS
<1> QED BY PacketsSend, PacketsDrain, PacketsStay DEF Nat2Next

LEMMA PacketsInit == Nat2Init => PacketsIInv
<1> SUFFICES ASSUME Nat2Init PROVE PacketsIInv
  OBVIOUS
<1>1. Len(<< >>) = 0 /\ << >> \o << >> = << >> /\ 1 .. 0 = {}
  OBVIOUS
<1>2. Items(<< >>) = {} /\ Rising(<< >>) /\ Distinct(<< >>)
  BY <1>1 DEF Items, Rising, Distinct
<1>3. ASSUME NEW c \in Conns PROVE Queue(c) = << >> /\ handled[c] = << >>
  BY <1>1 DEF Nat2Init, Queue
<1> QED BY <1>2, <1>3 DEF PacketsIInv, GivenOnce, Nat2Init

\* What the invariant means for what was given out and what waits.
LEMMA GivenOnceMeans ==
  ASSUME TableIInv, PacketsIInv
  PROVE  PacketsOnce
<1> SUFFICES ASSUME NEW c \in Conns
             PROVE  LET all == read[c] \o handled[c] \o packetChan[c]
                        q == read[c] \o packetChan[c]
                    IN /\ \A i, j \in DOMAIN all : all[i] = all[j] => i = j
                       /\ \A i \in DOMAIN all : all[i][1] = localAddr[c] /\ all[i] \notin dropped
                       /\ \A i, j \in DOMAIN q : i < j => q[i][2] < q[j][2]
  BY DEF PacketsOnce, Once, ReadInOrder
<1> DEFINE r == read[c]  h == handled[c]  k == packetChan[c]  all == (r \o h) \o k
<1>1. /\ r \in Seq(Packets) /\ h \in Seq(Packets) /\ k \in Seq(Packets) /\ Queue(c) = r \o k
      /\ r \o k \in Seq(Packets)
  BY QueueType DEF Queue
<1>2. GivenOnce(c)
  BY DEF PacketsIInv
<1>3. /\ Rising(r \o k) /\ Distinct(h) /\ Items(r \o k) \cap Items(h) = {}
      /\ \A p \in Items(r \o k) \cup Items(h) : p[1] = localAddr[c] /\ p \notin dropped
  BY <1>1, <1>2 DEF GivenOnce, Mine
<1> HIDE DEF r, h, k
<1>4. /\ Distinct(r) /\ Distinct(k) /\ Items(r) \cap Items(k) = {}
      /\ Items(r \o k) = Items(r) \cup Items(k)
  BY <1>1, <1>3, RisingParts, ConcatItems
<1>5. r \o h \in Seq(Packets) /\ Items(r \o h) = Items(r) \cup Items(h) /\ Distinct(r \o h)
  BY <1>1, <1>3, <1>4, ConcatItems, ConcatDistinct
<1>6. all \in Seq(Packets) /\ Items(all) = Items(r) \cup Items(h) \cup Items(k) /\ Distinct(all)
  BY <1>1, <1>3, <1>4, <1>5, ConcatItems, ConcatDistinct
<1>7. DOMAIN all = 1 .. Len(all) /\ DOMAIN (r \o k) = 1 .. Len(r \o k)
  BY <1>1, <1>6, LenProperties
<1> HIDE DEF all
<1>8. \A i \in 1 .. Len(all) : all[i][1] = localAddr[c] /\ all[i] \notin dropped
  BY <1>3, <1>4, <1>6, ItemsArePackets
<1>9. \A i, j \in 1 .. Len(all) : all[i] = all[j] => i = j
  BY <1>6 DEF Distinct
<1>10. \A i, j \in 1 .. Len(r \o k) : i < j => (r \o k)[i][2] < (r \o k)[j][2]
  BY <1>3 DEF Rising
<1> QED BY <1>7, <1>8, <1>9, <1>10 DEF all, r, h, k

-----------------------------------------------------------------------------
\* The two parts of the invariant of udpnat2: the cache, its connections and
\* their goroutines; and where each packet is.
THEOREM Nat2Invariance == Nat2Spec => []Nat2IInv
<1>1. Nat2Init => Nat2IInv
  BY TableInit, PacketsInit DEF Nat2IInv
<1>2. Nat2IInv /\ [Nat2Next]_nat2Vars => Nat2IInv'
  BY TableStep, PacketsStep DEF Nat2IInv
<1> QED BY <1>1, <1>2, PTL DEF Nat2Spec

\* However packets, evictions, timeouts, purges and Close interleave, a
\* connection of Service that is not being closed is the one its source's
\* packets reach, and SetHandler leaves at most one packet in the queue.
THEOREM LiveConnsAreReached == Nat2Spec => []NatInv
<1>1. Nat2IInv => NatInv
  BY DEF Nat2IInv, TableIInv, NatInv, Stranded, AtMostOneStranded
<1> QED BY <1>1, Nat2Invariance, PTL

\* No packet is given out twice, by ReadPacket and by the handler or by either
\* of them; and ReadPacket keeps the order of NewPacket.
THEOREM PacketsGivenOnce == Nat2Spec => []PacketsOnce
<1>1. Nat2IInv => PacketsOnce
  BY GivenOnceMeans DEF Nat2IInv
<1> QED BY <1>1, Nat2Invariance, PTL

-----------------------------------------------------------------------------
(***************************************************************************)
(* observable.Observer for any subscribers and any size of the buffers,    *)
(* and the idle timeout of canceler for any two timeouts.                  *)
(*                                                                         *)
(* An item moves from the buffer of the Subscriber through the goroutine's *)
(* hands into the buffers of those who have subscribed, and each of these  *)
(* three places holds items that are newer than what is further along.     *)
(*                                                                         *)
(* Time stands still while a goroutine is between two of its steps, so     *)
(* whoever sets a deadline or a timer does so within one timeout of the    *)
(* last packet; that is where the factor of two comes from.                *)
(***************************************************************************)
Subscribers == [buffer : Seq(Nat), done : BOOLEAN]
ListenerStates == {"new", "refused", "late", "subscribed"}

ObserverTypeOK ==
  /\ subscriber \in Subscribers
  /\ listener \in [Listeners -> [sub : Subscribers, read : Seq(Nat), state : ListenerStates]]
  /\ listed \subseteq Listeners
  /\ entry \in Nat /\ emitted \in Nat
  /\ process \in {"select", "emit", "closing", "ended"}
  /\ closer \in [Closers -> {"idle", "open", "closed"}]
  /\ panicked \in BOOLEAN

ItemsRise(s) == \A i, j \in 1 .. Len(s) : i < j => s[i] < s[j]
Below(s, n) == \A i \in 1 .. Len(s) : s[i] < n
Above(s, n) == \A i \in 1 .. Len(s) : n < s[i]
Before(s, t) == \A i \in 1 .. Len(s) : Above(t, s[i])

\* What was emitted and waits for the goroutine.
Waiting ==
  /\ ItemsRise(subscriber.buffer) /\ Below(subscriber.buffer, emitted + 1)
  /\ process = "emit" => Above(subscriber.buffer, entry) /\ entry <= emitted

\* What a listener was given is older than what waits.
GivenInOrder ==
  \A l \in Listeners :
    /\ ItemsRise(Given(l)) /\ Below(Given(l), emitted + 1)
    /\ Before(Given(l), subscriber.buffer)
    /\ process = "emit" => Below(Given(l), entry)

\* One goroutine at most is within Observer.Close, and while it is only the
\* owner of the Subscriber can have closed that.
ClosedBySomebody ==
  /\ \A c \in Closers : closer[c] = "open" => (subscriber.done => owner = "closed")
  /\ \A c, d \in Closers : closer[c] = "open" /\ closer[d] = "open" => c = d
  /\ panicked => owner = "closed"

ObserverIInv == ObserverTypeOK /\ Waiting /\ GivenInOrder /\ ClosedBySomebody

-----------------------------------------------------------------------------
\* The items of a sequence with one more at its end.
LEMMA ItemsAppended ==
  ASSUME NEW s \in Seq(Nat), NEW n \in Nat
  PROVE  /\ Append(s, n) \in Seq(Nat)
         /\ \A i \in 1 .. Len(s) : s[i] \in Nat /\ i \in 1 .. Len(Append(s, n)) /\ Append(s, n)[i] = s[i]
         /\ \A i \in 1 .. Len(Append(s, n)) :
              \/ i \in 1 .. Len(s) /\ Append(s, n)[i] = s[i]
              \/ /\ i = Len(s) + 1 /\ Append(s, n)[i] = n
                 /\ \A j \in 1 .. Len(s) : j < i
<1> DEFINE t == Append(s, n)
<1>1. /\ t \in Seq(Nat) /\ Len(t) = Len(s) + 1 /\ Len(s) \in Nat
      /\ \A i \in 1 .. Len(s) : t[i] = s[i] /\ s[i] \in Nat
      /\ t[Len(s) + 1] = n
  BY AppendProperties
<1> HIDE DEF t
<1>2. \A i \in 1 .. Len(t) : i = Len(s) + 1 \/ i \in 1 .. Len(s)
  BY <1>1
<1>3. \A j \in 1 .. Len(s) : j < Len(s) + 1 /\ j \in 1 .. Len(t)
  BY <1>1
<1> QED
  BY <1>1, <1>2, <1>3 DEF t

\* A newer item at the end keeps a sequence rising.
LEMMA ItemAppendedRises ==
  ASSUME NEW s \in Seq(Nat), NEW n \in Nat, ItemsRise(s), Below(s, n)
  PROVE  Append(s, n) \in Seq(Nat) /\ ItemsRise(Append(s, n)) /\ Below(Append(s, n), n + 1)
<1> DEFINE t == Append(s, n)
<1>1. /\ t \in Seq(Nat)
      /\ \A i \in 1 .. Len(s) : s[i] \in Nat
      /\ \A i \in 1 .. Len(t) :
           \/ i \in 1 .. Len(s) /\ t[i] = s[i]
           \/ i = Len(s) + 1 /\ t[i] = n /\ \A j \in 1 .. Len(s) : j < i
  BY ItemsAppended
<1>2. Len(s) \in Nat /\ Len(t) \in Nat
  BY <1>1, LenProperties
<1> HIDE DEF t
<1>3. ASSUME NEW i \in 1 .. Len(t), NEW j \in 1 .. Len(t), i < j
      PROVE  t[i] < t[j]
  <2>1. CASE j \in 1 .. Len(s) /\ t[j] = s[j]
    <3>1. i \in 1 .. Len(s) /\ t[i] = s[i]
      BY <1>1, <1>2, <1>3, <2>1
    <3> QED BY <3>1, <2>1, <1>3 DEF ItemsRise
  <2>2. CASE j = Len(s) + 1 /\ t[j] = n
    <3>1. i \in 1 .. Len(s) /\ t[i] = s[i]
      BY <1>1, <1>2, <1>3, <2>2
    <3> QED BY <3>1, <2>2 DEF Below
  <2> QED BY <1>1, <2>1, <2>2
<1>4. Below(t, n + 1)
  BY <1>1 DEF Below
<1> QED
  BY <1>1, <1>3, <1>4 DEF t, ItemsRise

\* An item that is newer than all of a sequence may join what is behind it.
LEMMA AppendAfter ==
  ASSUME NEW s \in Seq(Nat), NEW t \in Seq(Nat), NEW n \in Nat, Before(s, t), Below(s, n)
  PROVE  Before(s, Append(t, n))
<1> DEFINE u == Append(t, n)
<1>1. \A i \in 1 .. Len(u) : (i \in 1 .. Len(t) /\ u[i] = t[i]) \/ u[i] = n
  BY ItemsAppended
<1> HIDE DEF u
<1> QED
  BY <1>1 DEF Before, Below, Above, u

\* An item that is older than all of a sequence may join what is before it.
LEMMA AppendBefore ==
  ASSUME NEW s \in Seq(Nat), NEW t \in Seq(Nat), NEW n \in Nat, Before(s, t), Above(t, n)
  PROVE  Before(Append(s, n), t)
<1> DEFINE u == Append(s, n)
<1>1. \A i \in 1 .. Len(u) : (i \in 1 .. Len(s) /\ u[i] = s[i]) \/ u[i] = n
  BY ItemsAppended
<1> HIDE DEF u
<1> QED
  BY <1>1 DEF Before, Above, u

\* An item above a bound may join what is above it.
LEMMA AppendAbove ==
  ASSUME NEW s \in Seq(Nat), NEW n \in Nat, NEW k \in Nat, Above(s, k), k < n
  PROVE  Above(Append(s, n), k)
<1> DEFINE u == Append(s, n)
<1>1. \A i \in 1 .. Len(u) : (i \in 1 .. Len(s) /\ u[i] = s[i]) \/ u[i] = n
  BY ItemsAppended
<1> HIDE DEF u
<1> QED
  BY <1>1 DEF Above, u

\* A bound may be raised.
LEMMA BelowMore ==
  ASSUME NEW s \in Seq(Nat), NEW m \in Nat, NEW n \in Nat, Below(s, m), m <= n
  PROVE  Below(s, n)
  <1>1. \A i \in 1 .. Len(s) : s[i] \in Nat
    BY ElementOfSeq
  <1> QED BY <1>1 DEF Below

\* Without its first item a sequence of items keeps rising, above that item.
LEMMA TailRises ==
  ASSUME NEW s \in Seq(Nat), s # << >>, ItemsRise(s)
  PROVE  /\ Head(s) \in Nat /\ Tail(s) \in Seq(Nat)
         /\ ItemsRise(Tail(s)) /\ Above(Tail(s), Head(s))
         /\ Head(s) = s[1] /\ 1 \in 1 .. Len(s)
         /\ \A i \in 1 .. Len(Tail(s)) : \E j \in 1 .. Len(s) : Tail(s)[i] = s[j]
  BY HeadTailProperties DEF ItemsRise, Above

\* Reading takes an item from one side of the border to the other.
LEMMA MoveHead ==
  ASSUME NEW s \in Seq(Nat), NEW t \in Seq(Nat), t # << >>
  PROVE  Append(s, Head(t)) \o Tail(t) = s \o t
<1>1. Head(t) \in Nat /\ Tail(t) \in Seq(Nat) /\ Append(s, Head(t)) \in Seq(Nat)
  BY HeadTailProperties, AppendProperties
<1>2. Append(s, Head(t)) \o Tail(t) \in Seq(Nat) /\ s \o t \in Seq(Nat)
  BY <1>1, ConcatProperties
<1>3. Len(Append(s, Head(t)) \o Tail(t)) = Len(s \o t)
  BY <1>1, ConcatProperties, HeadTailProperties, AppendProperties
<1>4. ASSUME NEW i \in 1 .. Len(s \o t)
      PROVE  (Append(s, Head(t)) \o Tail(t))[i] = (s \o t)[i]
  BY <1>1, ConcatProperties, HeadTailProperties, AppendProperties
<1> QED
  BY <1>2, <1>3, <1>4, SeqEqual

\* What is appended to a buffer is appended to what its owner was given.
LEMMA ItemAppendedBehind ==
  ASSUME NEW s \in Seq(Nat), NEW t \in Seq(Nat), NEW n \in Nat
  PROVE  s \o Append(t, n) = Append(s \o t, n)
<1>1. <<n>> \in Seq(Nat) /\ s \o t \in Seq(Nat)
  BY ConcatProperties
<1>2. Append(t, n) = t \o <<n>> /\ Append(s \o t, n) = (s \o t) \o <<n>>
  BY <1>1, AppendIsConcat
<1> QED
  BY <1>1, <1>2, ConcatAssociative

-----------------------------------------------------------------------------
\* What Emit does to a Subscriber.
LEMMA EmitToType ==
  ASSUME NEW s \in Subscribers, NEW n \in Nat
  PROVE  /\ EmitTo(s, n) \in Subscribers /\ EmitTo(s, n).done = s.done
         /\ EmitTo(s, n).buffer \in {s.buffer, Append(s.buffer, n)}
<1>1. s.buffer \in Seq(Nat) /\ Append(s.buffer, n) \in Seq(Nat)
  BY AppendProperties DEF Subscribers
<1> QED
  BY <1>1 DEF EmitTo, Subscribers

\* The types of what a listener has.
LEMMA GivenType ==
  ASSUME ObserverTypeOK, NEW l \in Listeners
  PROVE  /\ listener[l].read \in Seq(Nat) /\ listener[l].sub \in Subscribers
         /\ listener[l].sub.buffer \in Seq(Nat) /\ Given(l) \in Seq(Nat)
         /\ subscriber.buffer \in Seq(Nat) /\ emitted + 1 \in Nat
<1>1. /\ listener[l].read \in Seq(Nat) /\ listener[l].sub \in Subscribers
      /\ listener[l].sub.buffer \in Seq(Nat)
      /\ subscriber.buffer \in Seq(Nat) /\ emitted + 1 \in Nat
  BY DEF ObserverTypeOK, Subscribers
<1> QED
  BY <1>1, ConcatProperties DEF Given

LEMMA ObserverInitInv == ObserverInit => ObserverIInv
<1> SUFFICES ASSUME ObserverInit PROVE ObserverIInv
  OBVIOUS
<1>1. << >> \in Seq(Nat) /\ Len(<< >>) = 0 /\ 1 .. 0 = {} /\ << >> \o << >> = << >>
  OBVIOUS
<1>2. NewSubscriber \in Subscribers /\ NewSubscriber.buffer = << >> /\ NewSubscriber.done = FALSE
  BY <1>1 DEF NewSubscriber, Subscribers
<1>3. ObserverTypeOK
  BY <1>1, <1>2 DEF ObserverInit, ObserverTypeOK, Nobody, ListenerStates
<1>4. Waiting /\ ClosedBySomebody
  BY <1>1, <1>2 DEF ObserverInit, Waiting, ClosedBySomebody, ItemsRise, Below, Above
<1>5. ASSUME NEW l \in Listeners PROVE Given(l) = << >>
  BY <1>1, <1>2 DEF Given, ObserverInit, Nobody
<1>6. GivenInOrder
  BY <1>1, <1>5 DEF GivenInOrder, ItemsRise, Below, Above, Before, ObserverInit
<1> QED BY <1>3, <1>4, <1>6 DEF ObserverIInv

LEMMA EmitInv == ObserverIInv /\ Emit => ObserverIInv'
<1> SUFFICES ASSUME ObserverIInv, Emit PROVE ObserverIInv'
  OBVIOUS
<1> DEFINE b == subscriber.buffer  n == emitted + 1
<1>1. /\ subscriber \in Subscribers /\ b \in Seq(Nat) /\ n \in Nat /\ emitted' = n /\ n + 1 \in Nat
      /\ emitted \in Nat /\ entry \in Nat /\ n <= n + 1
  BY DEF ObserverIInv, ObserverTypeOK, Emit, Subscribers
<1>2. /\ subscriber' \in Subscribers /\ subscriber'.done = subscriber.done
      /\ subscriber'.buffer = b \/ subscriber'.buffer = Append(b, n)
  BY <1>1, EmitToType DEF Emit
<1>3. /\ ItemsRise(b) /\ Below(b, n) /\ (process = "emit" => Above(b, entry) /\ entry < n)
  BY <1>1 DEF ObserverIInv, Waiting
<1>4. ObserverTypeOK' /\ ClosedBySomebody'
  BY <1>1, <1>2 DEF ObserverIInv, ObserverTypeOK, ClosedBySomebody, Emit
<1>5. Waiting'
  <2>1. CASE subscriber'.buffer = b
    BY <1>1, <1>3, <2>1, BelowMore DEF Waiting, Emit
  <2>2. CASE subscriber'.buffer = Append(b, n)
    <3>1. ItemsRise(Append(b, n)) /\ Below(Append(b, n), n + 1)
      BY <1>1, <1>3, ItemAppendedRises
    <3>2. process = "emit" => Above(Append(b, n), entry)
      BY <1>1, <1>3, AppendAbove
    <3>3. entry' = entry /\ process' = process /\ (process = "emit" => entry <= n)
      BY <1>1, <1>3 DEF Emit
    <3> HIDE DEF n
    <3> QED BY <1>1, <2>2, <3>1, <3>2, <3>3 DEF Waiting
  <2> QED BY <1>2, <2>1, <2>2
<1>6. ASSUME NEW l \in Listeners
      PROVE  /\ ItemsRise(Given(l)') /\ Below(Given(l)', n + 1) /\ Before(Given(l)', subscriber'.buffer)
             /\ process' = "emit" => Below(Given(l)', entry')
  <2> DEFINE g == Given(l)
  <2>1. g \in Seq(Nat) /\ Given(l)' = g /\ entry' = entry /\ process' = process
    BY GivenType DEF ObserverIInv, Emit, Given
  <2>2. ItemsRise(g) /\ Below(g, n) /\ Before(g, b) /\ (process = "emit" => Below(g, entry))
    BY DEF ObserverIInv, GivenInOrder
  <2> HIDE DEF g
  <2>3. Below(g, n + 1)
    BY <2>1, <2>2, <1>1, BelowMore
  <2>4. Before(g, Append(b, n))
    BY <2>1, <2>2, <1>1, AppendAfter
  <2> QED BY <2>1, <2>2, <2>3, <2>4, <1>2
<1>7. GivenInOrder'
  BY <1>1, <1>6 DEF GivenInOrder
<1> QED BY <1>4, <1>5, <1>7 DEF ObserverIInv

LEMMA ProcessTakesInv == ObserverIInv /\ ProcessTakes => ObserverIInv'
<1> SUFFICES ASSUME ObserverIInv, ProcessTakes PROVE ObserverIInv'
  OBVIOUS
<1> DEFINE b == subscriber.buffer  h == Head(b)  t == Tail(b)
<1>1. /\ subscriber \in Subscribers /\ b \in Seq(Nat) /\ b # << >> /\ emitted \in Nat
      /\ ItemsRise(b) /\ Below(b, emitted + 1)
  BY DEF ObserverIInv, ObserverTypeOK, Waiting, ProcessTakes, Subscribers
<1>2. /\ h \in Nat /\ t \in Seq(Nat) /\ ItemsRise(t) /\ Above(t, h)
      /\ h = b[1] /\ 1 \in 1 .. Len(b)
      /\ \A i \in 1 .. Len(t) : \E j \in 1 .. Len(b) : t[i] = b[j]
  BY <1>1, TailRises
<1>3. /\ subscriber' = [subscriber EXCEPT !.buffer = t] /\ entry' = h /\ process' = "emit"
      /\ emitted' = emitted /\ listener' = listener /\ listed' = listed
      /\ owner' = owner /\ closer' = closer /\ panicked' = panicked
  BY DEF ProcessTakes
<1>4. subscriber' \in Subscribers /\ subscriber'.buffer = t /\ subscriber'.done = subscriber.done
  BY <1>1, <1>2, <1>3 DEF Subscribers
<1> HIDE DEF h, t
<1>5. ObserverTypeOK' /\ ClosedBySomebody'
  BY <1>2, <1>3, <1>4 DEF ObserverIInv, ObserverTypeOK, ClosedBySomebody
<1>6. Waiting'
  <2>1. h < emitted + 1 /\ Below(t, emitted + 1)
    BY <1>1, <1>2 DEF Below
  <2>2. h <= emitted
    BY <1>1, <1>2, <2>1
  <2> QED BY <1>2, <1>3, <1>4, <2>1, <2>2 DEF Waiting
<1>7. ASSUME NEW l \in Listeners PROVE Given(l)' = Given(l)
  BY <1>3 DEF Given
<1>8. GivenInOrder'
  BY <1>2, <1>3, <1>4, <1>7 DEF ObserverIInv, GivenInOrder, Before, Above, Below
<1> QED BY <1>5, <1>6, <1>8 DEF ObserverIInv

LEMMA ProcessEmitsInv == ObserverIInv /\ ProcessEmits => ObserverIInv'
<1> SUFFICES ASSUME ObserverIInv, ProcessEmits PROVE ObserverIInv'
  OBVIOUS
<1>1. /\ subscriber' = subscriber /\ entry' = 0 /\ process' = "select" /\ process = "emit"
      /\ emitted' = emitted /\ listed' = listed
      /\ owner' = owner /\ closer' = closer /\ panicked' = panicked
      /\ entry \in Nat /\ emitted \in Nat /\ entry <= emitted
  BY DEF ObserverIInv, ObserverTypeOK, Waiting, ProcessEmits
<1>2. ASSUME NEW l \in Listeners
      PROVE  /\ EmitTo(listener[l].sub, entry) \in Subscribers
             /\ EmitTo(listener[l].sub, entry).buffer \in {listener[l].sub.buffer, Append(listener[l].sub.buffer, entry)}
  BY <1>1, GivenType, EmitToType DEF ObserverIInv
<1>3. listener' \in [Listeners -> [sub : Subscribers, read : Seq(Nat), state : ListenerStates]]
  BY <1>2 DEF ObserverIInv, ObserverTypeOK, ProcessEmits
<1>4. ObserverTypeOK' /\ ClosedBySomebody' /\ Waiting'
  BY <1>1, <1>3 DEF ObserverIInv, ObserverTypeOK, ClosedBySomebody, Waiting
<1>5. ASSUME NEW l \in Listeners
      PROVE  Given(l)' = Given(l) \/ Given(l)' = Append(Given(l), entry)
  <2>1. /\ listener'[l].read = listener[l].read
        /\ listener'[l].sub.buffer \in {listener[l].sub.buffer, Append(listener[l].sub.buffer, entry)}
    BY <1>2 DEF ProcessEmits, ObserverIInv, ObserverTypeOK
  <2>2. listener[l].read \o Append(listener[l].sub.buffer, entry) = Append(Given(l), entry)
    BY <1>1, GivenType, ItemAppendedBehind DEF Given, ObserverIInv
  <2> QED BY <2>1, <2>2 DEF Given
<1>6. ASSUME NEW l \in Listeners
      PROVE  ItemsRise(Given(l)') /\ Below(Given(l)', emitted + 1) /\ Before(Given(l)', subscriber.buffer)
  <2> DEFINE g == Given(l)  b == subscriber.buffer
  <2>1. /\ g \in Seq(Nat) /\ b \in Seq(Nat)
        /\ ItemsRise(g) /\ Below(g, emitted + 1) /\ Before(g, b) /\ Below(g, entry) /\ Above(b, entry)
    BY <1>1, GivenType DEF ObserverIInv, GivenInOrder, Waiting
  <2> HIDE DEF g, b
  <2>2. Append(g, entry) \in Seq(Nat) /\ ItemsRise(Append(g, entry)) /\ Below(Append(g, entry), entry + 1)
    BY <2>1, <1>1, ItemAppendedRises
  <2>3. entry + 1 \in Nat /\ emitted + 1 \in Nat /\ entry + 1 <= emitted + 1
    BY <1>1
  <2>4. Below(Append(g, entry), emitted + 1)
    BY <2>2, <2>3, BelowMore
  <2>5. Before(Append(g, entry), b)
    BY <2>1, <1>1, AppendBefore
  <2> QED BY <1>5, <2>1, <2>2, <2>4, <2>5 DEF g, b
<1>7. GivenInOrder'
  BY <1>1, <1>6 DEF GivenInOrder
<1> QED BY <1>4, <1>7 DEF ObserverIInv

\* A step that neither emits nor takes an item, and gives nobody anything.
LEMMA GivesNothing ==
  ASSUME ObserverIInv, ObserverTypeOK', ClosedBySomebody',
         subscriber'.buffer = subscriber.buffer, emitted' = emitted, entry' = entry,
         process' = "emit" => process = "emit",
         \A l \in Listeners : Given(l)' = Given(l)
  PROVE  ObserverIInv'
<1>1. Waiting'
  BY DEF ObserverIInv, Waiting
<1>2. GivenInOrder'
  BY DEF ObserverIInv, GivenInOrder
<1> QED BY <1>1, <1>2 DEF ObserverIInv

LEMMA ListenerInv ==
  ASSUME ObserverIInv, NEW l \in Listeners, Subscribe(l) \/ UnSubscribe(l) \/ Receive(l)
  PROVE  ObserverIInv'
<1>1. /\ subscriber' = subscriber /\ emitted' = emitted /\ entry' = entry /\ process' = process
      /\ owner' = owner /\ closer' = closer /\ panicked' = panicked
      /\ listed' \subseteq Listeners
  BY DEF ObserverIInv, ObserverTypeOK, Subscribe, UnSubscribe, Receive
<1>2. ClosedBySomebody'
  BY <1>1 DEF ObserverIInv, ClosedBySomebody
<1> DEFINE s == listener[l]
<1>3. \E x \in [sub : Subscribers, read : Seq(Nat), state : ListenerStates] :
        listener' = [listener EXCEPT ![l] = x] /\ x.read \o x.sub.buffer = Given(l)
  <2>0. /\ s \in [sub : Subscribers, read : Seq(Nat), state : ListenerStates]
        /\ s.read \in Seq(Nat) /\ s.sub.buffer \in Seq(Nat)
        /\ listener \in [Listeners -> [sub : Subscribers, read : Seq(Nat), state : ListenerStates]]
    BY DEF ObserverIInv, ObserverTypeOK, Subscribers
  <2>1. CASE Subscribe(l)
    <3>1. PICK st \in ListenerStates : listener' = [listener EXCEPT ![l].state = st]
      BY <2>1 DEF Subscribe, ListenerStates
    <3> DEFINE x == [s EXCEPT !.state = st]
    <3>2. x \in [sub : Subscribers, read : Seq(Nat), state : ListenerStates] /\ listener' = [listener EXCEPT ![l] = x]
      BY <3>1, <2>0
    <3>3. x.read = s.read /\ x.sub = s.sub
      BY <2>0
    <3> QED BY <3>2, <3>3 DEF Given
  <2>2. CASE UnSubscribe(l)
    <3>1. CloseSubscriber(s.sub) \in Subscribers /\ CloseSubscriber(s.sub).buffer = s.sub.buffer
      BY <2>0 DEF CloseSubscriber, Subscribers
    <3> DEFINE x == [s EXCEPT !.sub = CloseSubscriber(s.sub)]
    <3>2. x \in [sub : Subscribers, read : Seq(Nat), state : ListenerStates] /\ listener' = [listener EXCEPT ![l] = x]
      BY <3>1, <2>0, <2>2 DEF UnSubscribe
    <3>3. x.read = s.read /\ x.sub.buffer = s.sub.buffer
      BY <3>1, <2>0
    <3> QED BY <3>2, <3>3 DEF Given
  <2>3. CASE Receive(l)
    <3> DEFINE h == Head(s.sub.buffer)  t == Tail(s.sub.buffer)  r == Append(s.read, h)
    <3>1. h \in Nat /\ t \in Seq(Nat) /\ r \in Seq(Nat) /\ r \o t = Given(l)
      BY <2>0, <2>3, MoveHead, HeadTailProperties, AppendProperties DEF Given, Receive
    <3>2. listener' = [listener EXCEPT ![l] = [s EXCEPT !.read = r, !.sub = [s.sub EXCEPT !.buffer = t]]]
      BY <2>0, <2>3 DEF Receive
    <3> HIDE DEF h, t, r
    <3>3. [s.sub EXCEPT !.buffer = t] \in Subscribers /\ [s.sub EXCEPT !.buffer = t].buffer = t
      BY <3>1, <2>0 DEF Subscribers
    <3> DEFINE x == [s EXCEPT !.read = r, !.sub = [s.sub EXCEPT !.buffer = t]]
    <3>4. x \in [sub : Subscribers, read : Seq(Nat), state : ListenerStates] /\ listener' = [listener EXCEPT ![l] = x]
      BY <3>1, <3>2, <3>3, <2>0
    <3>5. x.read = r /\ x.sub.buffer = t
      BY <3>3, <2>0
    <3> QED BY <3>1, <3>4, <3>5
  <2> QED BY <2>1, <2>2, <2>3
<1>4. PICK x \in [sub : Subscribers, read : Seq(Nat), state : ListenerStates] :
        listener' = [listener EXCEPT ![l] = x] /\ x.read \o x.sub.buffer = Given(l)
  BY <1>3
<1>5. ObserverTypeOK'
  BY <1>1, <1>4 DEF ObserverIInv, ObserverTypeOK
<1>6. \A k \in Listeners : Given(k)' = Given(k)
  BY <1>4 DEF Given, ObserverIInv, ObserverTypeOK
<1> QED BY <1>1, <1>2, <1>5, <1>6, GivesNothing

LEMMA ClosingInv ==
  ASSUME ObserverIInv,
         \/ ProcessStops \/ ProcessCloses \/ OwnerChecks \/ OwnerCloses
         \/ \E c \in Closers : ObserverChecks(c) \/ ObserverCloses(c)
         \/ UNCHANGED observerVars
  PROVE  ObserverIInv'
<1> DEFINE Good == /\ subscriber' \in Subscribers /\ subscriber'.buffer = subscriber.buffer
                   /\ closer' \in [Closers -> {"idle", "open", "closed"}]
                   /\ panicked' \in BOOLEAN /\ ClosedBySomebody'
<1>1. Good
  <2>1. /\ subscriber \in Subscribers /\ subscriber.done \in BOOLEAN /\ panicked \in BOOLEAN
        /\ closer \in [Closers -> {"idle", "open", "closed"}]
    BY DEF ObserverIInv, ObserverTypeOK, Subscribers
  <2>2. ASSUME ClosesDone
        PROVE  /\ subscriber' \in Subscribers /\ subscriber'.buffer = subscriber.buffer
               /\ panicked' = (panicked \/ subscriber.done) /\ panicked' \in BOOLEAN
    BY <2>1, <2>2 DEF ClosesDone, Subscribers
  <2>3. CASE OwnerCloses
    <3>1. ClosesDone /\ owner' = "closed" /\ closer' = closer
      BY <2>3 DEF OwnerCloses
    <3>2. ClosedBySomebody'
      BY <3>1 DEF ObserverIInv, ClosedBySomebody
    <3> QED BY <2>1, <2>2, <3>1, <3>2
  <2>4. ASSUME NEW c \in Closers, ObserverCloses(c) PROVE Good
    <3>1. ClosesDone /\ owner' = owner /\ closer[c] = "open" /\ closer' = [closer EXCEPT ![c] = "closed"]
      BY <2>4 DEF ObserverCloses
    <3>2. \A d \in Closers : closer'[d] # "open"
      BY <2>1, <3>1 DEF ObserverIInv, ClosedBySomebody
    <3>3. panicked' => owner' = "closed"
      BY <2>2, <3>1 DEF ObserverIInv, ClosedBySomebody
    <3> QED BY <2>1, <2>2, <3>1, <3>2, <3>3 DEF ClosedBySomebody
  <2>5. ASSUME NEW c \in Closers, ObserverChecks(c) PROVE Good
    <3>1. /\ subscriber' = subscriber /\ owner' = owner /\ panicked' = panicked
          /\ \A d \in Closers : closer[d] # "open"
          /\ \/ closer' = [closer EXCEPT ![c] = "closed"]
             \/ ~subscriber.done /\ closer' = [closer EXCEPT ![c] = "open"]
      BY <2>5 DEF ObserverChecks, Unlocked
    <3> QED BY <2>1, <3>1 DEF ObserverIInv, ClosedBySomebody
  <2>6. CASE ProcessStops \/ ProcessCloses \/ OwnerChecks \/ UNCHANGED observerVars
    <3>1. /\ subscriber' = subscriber /\ closer' = closer /\ panicked' = panicked
          /\ owner = "closed" => owner' = "closed"
      BY <2>6 DEF ProcessStops, ProcessCloses, OwnerChecks, observerVars
    <3> QED BY <2>1, <3>1 DEF ObserverIInv, ClosedBySomebody
  <2> QED BY <2>3, <2>4, <2>5, <2>6
<1>2. /\ emitted' = emitted /\ entry' = entry /\ listed' = listed
      /\ process' \in {"select", "emit", "closing", "ended"} /\ (process' = "emit" => process = "emit")
  BY DEF ObserverIInv, ObserverTypeOK, observerVars,
         ProcessStops, ProcessCloses, OwnerChecks, OwnerCloses, ObserverChecks, ObserverCloses
<1>3. /\ listener' \in [Listeners -> [sub : Subscribers, read : Seq(Nat), state : ListenerStates]]
      /\ \A l \in Listeners : listener'[l].read = listener[l].read /\ listener'[l].sub.buffer = listener[l].sub.buffer
  <2>1. CASE ProcessCloses
    <3>1. ASSUME NEW l \in Listeners
          PROVE  /\ CloseSubscriber(listener[l].sub) \in Subscribers
                 /\ CloseSubscriber(listener[l].sub).buffer = listener[l].sub.buffer
      BY DEF CloseSubscriber, Subscribers, ObserverIInv, ObserverTypeOK
    <3> QED BY <2>1, <3>1 DEF ProcessCloses, ObserverIInv, ObserverTypeOK
  <2>2. CASE ~ProcessCloses
    BY <2>2 DEF ObserverIInv, ObserverTypeOK, observerVars,
         ProcessStops, OwnerChecks, OwnerCloses, ObserverChecks, ObserverCloses
  <2> QED BY <2>1, <2>2
<1>4. ObserverTypeOK'
  BY <1>1, <1>2, <1>3 DEF ObserverIInv, ObserverTypeOK
<1>5. \A l \in Listeners : Given(l)' = Given(l)
  BY <1>3 DEF Given
<1> QED BY <1>1, <1>2, <1>4, <1>5, GivesNothing

\* The invariant of the observer: what waits is newer than what was given.
THEOREM ObserverInvariance == ObserverSpec => []ObserverIInv
<1>1. ObserverIInv /\ [ObserverNext]_observerVars => ObserverIInv'
  BY EmitInv, ProcessTakesInv, ProcessEmitsInv, ListenerInv, ClosingInv DEF ObserverNext, Process
<1> QED BY <1>1, ObserverInitInv, PTL DEF ObserverSpec

\* Whatever was dropped and whoever closes what: every subscriber of an Observer
\* gets items in the order of Emit and each once, and however many goroutines
\* close the Observer, no channel is closed twice unless the owner of its
\* Subscriber closes that as well.
THEOREM ObserverKeepsOrder == ObserverSpec => []ObserverInv
<1>1. ObserverIInv => ObserverInv
  <2> SUFFICES ASSUME ObserverIInv PROVE ObserverInv
    OBVIOUS
  <2>1. ASSUME NEW l \in Listeners
        PROVE  \A i, j \in DOMAIN Given(l) : i < j => Given(l)[i] < Given(l)[j]
    <3>1. DOMAIN Given(l) = 1 .. Len(Given(l))
      BY GivenType, LenProperties DEF ObserverIInv
    <3> QED BY <3>1 DEF ObserverIInv, GivenInOrder, ItemsRise
  <2> QED BY <2>1 DEF ObserverInv, ObserverIInv, ClosedBySomebody
<1> QED BY <1>1, ObserverInvariance, PTL

-----------------------------------------------------------------------------
IdleTypeOK ==
  /\ hasDeadline \in BOOLEAN /\ idleCancelled \in BOOLEAN
  /\ now \in 0 .. MaxNow /\ timeout \in 1 .. FirstTimeout
  /\ due = Off \/ due \in 0 .. MaxNow + FirstTimeout
  /\ armed = Off \/ armed \in 0 .. MaxNow + FirstTimeout
  /\ active = Off \/ active \in 0 .. now
  /\ reader \in {"call", "arm", "waiting", "update", "reset", "ended"}
  /\ writer \in {"idle", "update", "reset"}
  /\ setter \in {"idle", "set", "reset", "done"}

\* When something was last read or written.
LastUse == IF active = Off THEN 0 ELSE active

\* A TimeoutPacketConn: a read is begun within a timeout of the last packet,
\* and waits for no later than another one.
DeadlineIsSet ==
  /\ reader \notin {"update", "reset"} /\ writer = "idle" /\ setter # "reset"
  /\ reader \in {"call", "arm"} => now <= LastUse + FirstTimeout
  /\ reader = "arm" => armed # Off /\ now <= armed /\ armed <= LastUse + 2 * FirstTimeout
  /\ reader = "waiting" => due # Off /\ now <= due /\ due <= LastUse + 2 * FirstTimeout
  /\ reader # "ended"

\* A TimerPacketConn: whoever has stopped the timer is about to restart it.
TimerRuns ==
  /\ reader # "arm"
  /\ reader \in {"update", "reset"} => active = now
  /\ writer \in {"update", "reset"} => active = now
  /\ setter \in {"set", "reset"} => now <= LastUse + FirstTimeout
  /\ due = Off => reader = "reset" \/ writer = "reset" \/ setter = "reset"
  /\ due # Off => /\ now <= due
                  /\ due <= LastUse + 2 * FirstTimeout
                  /\ setter = "idle" => due <= LastUse + FirstTimeout

IdleIInv ==
  /\ IdleTypeOK
  /\ ~idleCancelled => IF hasDeadline THEN DeadlineIsSet ELSE TimerRuns

\* No time is as late as Off.
LEMMA OffIsLate ==
  /\ Off \in Nat /\ MaxNow + FirstTimeout < Off
  /\ FirstTimeout \in Nat /\ MaxNow \in Nat /\ ShorterTimeout \in 1 .. FirstTimeout
  BY IdleAssumption DEF Off

LEMMA IdleInitInv == IdleInit => IdleIInv
<1> SUFFICES ASSUME IdleInit PROVE IdleIInv
  OBVIOUS
<1>1. IdleTypeOK
  <2>1. due = Off \/ due \in 0 .. MaxNow + FirstTimeout
    BY OffIsLate DEF IdleInit
  <2>2. now \in 0 .. MaxNow /\ timeout \in 1 .. FirstTimeout
    BY OffIsLate DEF IdleInit
  <2>3. hasDeadline \in BOOLEAN /\ idleCancelled \in BOOLEAN
    BY DEF IdleInit
  <2> QED
    BY <2>1, <2>2, <2>3 DEF IdleInit, IdleTypeOK
<1>2. LastUse = 0 /\ now = 0
  BY OffIsLate DEF IdleInit, LastUse
<1>3. hasDeadline => DeadlineIsSet
  BY <1>2, OffIsLate DEF IdleInit, DeadlineIsSet
<1>4. ~hasDeadline => TimerRuns
  BY <1>2, OffIsLate DEF IdleInit, TimerRuns
<1> QED BY <1>1, <1>3, <1>4 DEF IdleIInv

LEMMA IdleTypeInv == IdleTypeOK /\ [IdleNext]_idleVars => IdleTypeOK'
<1> SUFFICES ASSUME IdleTypeOK, [IdleNext]_idleVars PROVE IdleTypeOK'
  OBVIOUS
<1> USE OffIsLate DEF IdleTypeOK
<1>1. CASE ReadBegins \/ ReadArms \/ ReadPacket
  BY <1>1 DEF ReadBegins, ReadArms, ReadPacket
<1>2. CASE ReaderUpdates \/ ReaderResets \/ WriterUpdates \/ WriterResets
  BY <1>2 DEF ReaderUpdates, ReaderResets, WriterUpdates, WriterResets, StopTimer, ResetTimer
<1>3. CASE ReadTimesOut \/ Write \/ TimerFires
  <2>1. hasDeadline' = hasDeadline /\ idleCancelled' \in BOOLEAN
    BY <1>3 DEF ReadTimesOut, Write, TimerFires
  <2>2. /\ now' = now /\ timeout' = timeout /\ armed' = armed /\ setter' = setter
        /\ due' \in {due, Off} /\ active' \in {active, now}
        /\ reader' \in {reader, "ended", "call"} /\ writer' \in {writer, "idle", "update"}
    BY <1>3 DEF ReadTimesOut, Write, TimerFires
  <2> QED BY <2>1, <2>2
<1>6. CASE IdleTick
  BY <1>6 DEF IdleTick
<1>4. CASE SetTimeoutBegins \/ SetTimeoutSets \/ SetTimeoutResets
  BY <1>4 DEF SetTimeoutBegins, SetTimeoutSets, SetTimeoutResets, StopTimer, ResetTimer
<1>5. CASE UNCHANGED idleVars
  BY <1>5 DEF idleVars
<1> QED BY <1>1, <1>2, <1>3, <1>4, <1>5, <1>6 DEF IdleNext

\* LastUse and the bounds on it are numbers.
LEMMA LastUseIsNat ==
  ASSUME IdleTypeOK
  PROVE  /\ LastUse \in 0 .. now /\ LastUse + FirstTimeout \in Nat /\ LastUse + 2 * FirstTimeout \in Nat
         /\ LastUse + FirstTimeout <= LastUse + 2 * FirstTimeout
         /\ \A n \in 0 .. LastUse + FirstTimeout :
              n + timeout \in 0 .. LastUse + 2 * FirstTimeout /\ n + timeout >= n
<1>1. LastUse \in 0 .. now /\ now \in Nat /\ timeout \in 1 .. FirstTimeout /\ FirstTimeout \in Nat
  BY OffIsLate DEF IdleTypeOK, LastUse
<1> QED BY <1>1

\* LastUse is left alone, or it is now.
LEMMA LastUseMoves ==
  ASSUME IdleTypeOK, active' \in {active, now}
  PROVE  LastUse' \in {LastUse, now} /\ (active' = now => LastUse' = now)
  BY OffIsLate DEF IdleTypeOK, LastUse

\* The steps of a connection that has a read deadline.
LEMMA DeadlineStep ==
  ASSUME IdleTypeOK, IdleTypeOK', DeadlineIsSet, hasDeadline, ~idleCancelled, ~idleCancelled',
         [IdleNext]_idleVars
  PROVE  DeadlineIsSet'
<1> USE OffIsLate, LastUseIsNat, LastUseMoves DEF IdleTypeOK, DeadlineIsSet
<1>1. CASE ReadBegins
  BY <1>1 DEF ReadBegins
<1>2. CASE ReadArms
  BY <1>2 DEF ReadArms
<1>3. CASE ReadPacket \/ Write
  <2>1. /\ reader' = "call" \/ reader' = reader
        /\ now' = now /\ active' = now /\ armed' = armed /\ due' = due /\ writer' = "idle" /\ setter' = setter
    BY <1>3 DEF ReadPacket, Write
  <2>2. LastUse' = now /\ LastUse <= now
    BY <2>1
  <2> QED BY <2>1, <2>2
<1>4. CASE ReadTimesOut
  <2>1. ~Idle /\ reader' = "call" /\ now' = now /\ active' = active /\ writer' = writer /\ setter' = setter
    BY <1>4 DEF ReadTimesOut
  <2>2. active # Off /\ active \in 0 .. now /\ now - active <= timeout /\ timeout <= FirstTimeout
    BY <2>1 DEF Idle
  <2>3. LastUse' = active
    BY <2>1, <2>2 DEF LastUse
  <2>4. now <= active + FirstTimeout
    BY <2>2
  <2> QED BY <2>1, <2>3, <2>4
<1>5. CASE SetTimeoutBegins \/ SetTimeoutSets
  <2>1. /\ reader' = reader /\ now' = now /\ active' = active /\ armed' = armed /\ writer' = writer
        /\ setter' # "reset" /\ due' \in {due, now}
    BY <1>5 DEF SetTimeoutBegins, SetTimeoutSets
  <2>2. LastUse' = LastUse
    BY <2>1 DEF LastUse
  <2> QED BY <2>1, <2>2
<1>6. CASE IdleTick
  BY <1>6 DEF IdleTick
<1>7. CASE \/ ReaderUpdates \/ ReaderResets \/ WriterUpdates \/ WriterResets
           \/ SetTimeoutResets \/ TimerFires \/ UNCHANGED idleVars
  <2>1. UNCHANGED idleVars
    BY <1>7 DEF ReaderUpdates, ReaderResets, WriterUpdates, WriterResets, SetTimeoutResets, TimerFires
  <2>2. LastUse' = LastUse
    BY <2>1 DEF idleVars, LastUse
  <2> QED BY <2>1, <2>2 DEF idleVars
<1> QED BY <1>1, <1>2, <1>3, <1>4, <1>5, <1>6, <1>7 DEF IdleNext

\* The steps of a connection that has a timer.
LEMMA TimerStep ==
  ASSUME IdleTypeOK, IdleTypeOK', TimerRuns, ~hasDeadline, ~idleCancelled, ~idleCancelled',
         [IdleNext]_idleVars
  PROVE  TimerRuns'
<1> USE OffIsLate, LastUseIsNat, LastUseMoves DEF IdleTypeOK, TimerRuns
<1>1. CASE ReadBegins
  BY <1>1 DEF ReadBegins
<1>2. CASE ReadPacket \/ Write
  BY <1>2 DEF ReadPacket, Write
<1>3. CASE ReaderUpdates \/ WriterUpdates
  BY <1>3 DEF ReaderUpdates, WriterUpdates, StopTimer
<1>4. CASE ReaderResets \/ WriterResets
  BY <1>4 DEF ReaderResets, WriterResets, ResetTimer
<1>5. CASE SetTimeoutBegins
  BY <1>5 DEF SetTimeoutBegins
<1>6. CASE SetTimeoutSets
  BY <1>6 DEF SetTimeoutSets, StopTimer
<1>7. CASE SetTimeoutResets
  BY <1>7 DEF SetTimeoutResets, ResetTimer
<1>8. CASE IdleTick
  BY <1>8 DEF IdleTick
<1>9. CASE ReadArms \/ ReadTimesOut \/ TimerFires \/ UNCHANGED idleVars
  BY <1>9 DEF ReadArms, ReadTimesOut, TimerFires, idleVars
<1> QED BY <1>1, <1>2, <1>3, <1>4, <1>5, <1>6, <1>7, <1>8, <1>9 DEF IdleNext

\* The invariant of the idle timeout.
THEOREM IdleInvariance == IdleSpec => []IdleIInv
<1>1. IdleIInv /\ [IdleNext]_idleVars => IdleIInv'
  <2> SUFFICES ASSUME IdleIInv, [IdleNext]_idleVars PROVE IdleIInv'
    OBVIOUS
  <2>1. IdleTypeOK /\ IdleTypeOK'
    BY IdleTypeInv DEF IdleIInv
  <2>2. hasDeadline' = hasDeadline /\ (idleCancelled => idleCancelled')
    BY DEF IdleNext, ReadBegins, ReadArms, ReadPacket, ReaderUpdates, ReaderResets, ReadTimesOut,
           Write, WriterUpdates, WriterResets, SetTimeoutBegins, SetTimeoutSets, SetTimeoutResets,
           TimerFires, IdleTick, idleVars
  <2>3. CASE idleCancelled'
    BY <2>1, <2>3 DEF IdleIInv
  <2>4. CASE ~idleCancelled' /\ hasDeadline
    BY <2>1, <2>2, <2>4, DeadlineStep DEF IdleIInv
  <2>5. CASE ~idleCancelled' /\ ~hasDeadline
    BY <2>1, <2>2, <2>5, TimerStep DEF IdleIInv
  <2> QED BY <2>3, <2>4, <2>5
<1> QED BY <1>1, IdleInitInv, PTL DEF IdleSpec

\* For any two timeouts and any order of reads, writes and SetTimeout, a
\* packet connection on which nothing happens is cancelled in time.
THEOREM IdleConnsEnd == IdleSpec => []IdleEnds
<1>1. IdleIInv => IdleEnds
  BY OffIsLate DEF IdleIInv, IdleTypeOK, DeadlineIsSet, TimerRuns, LastUse, IdleEnds, Since
<1> QED BY <1>1, IdleInvariance, PTL
=============================================================================
