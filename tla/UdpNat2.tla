------------------------------- MODULE UdpNat2 --------------------------------
(***************************************************************************)
(* The UDP NAT table of src/common/udpnat2: Service.NewPacket looks the    *)
(* connection of a source address up in an LRU cache, or makes one and     *)
(* starts the handler of the connection; packets go to the connection's    *)
(* own handler, once SetHandler was called, or to a bounded queue that     *)
(* ReadPacket empties.  The cache closes what it evicts.                   *)
(*                                                                         *)
(* Each source is read by one goroutine.  The cache is a map with an       *)
(* expiry (FreeLRU checks the rest of it), its mutex is held while         *)
(* evicted connections are closed.  Each connection has one goroutine of   *)
(* the service's handler, which calls SetHandler, or reads in a loop.      *)
(***************************************************************************)
EXTENDS Naturals, Sequences, FiniteSets

CONSTANTS Sources,
          MaxConns,      \* bound: natConns made
          MaxPackets,    \* bound: packets received
          QueueCap,      \* capacity of packetChan: 64 in the code
          BatchSize      \* readWaitOptions.BatchSize

ASSUME NatAssumption ==
  /\ IsFiniteSet(Sources)
  /\ MaxConns \in Nat /\ MaxPackets \in Nat
  /\ QueueCap \in Nat \ {0} /\ BatchSize \in Nat \ {0}

VARIABLES cache,         \* source -> natConn
          expired,       \* sources whose entry's lifetime is over
          evicting,      \* natConns that the holder of the cache's mutex has to close
          holder,        \* source whose NewPacket holds it then, or "other"
          conns,         \* number of natConns made
          localAddr,     \* natConn -> source
          handler,       \* natConns whose handler is not nil
          packetChan,
          doneChan,      \* natConns whose doneChan is closed
          closing,       \* natConn -> where the function of closeOnce is
          handlerClosed, \* natConns whose handler was closed
          upc,           \* natConn -> what its handler goroutine does
          spc, sconn, shandler, packet, \* NewPacket of a source: place, conn, handler, packet
          sent,          \* number of packets received
          read,          \* natConn -> packets returned by ReadPacket
          handled,       \* natConn -> packets given to its handler
          dropped        \* packets dropped

cacheVars == <<cache, expired, evicting, holder>>
connVars == <<conns, localAddr, handler, packetChan, doneChan, closing, handlerClosed>>
sendVars == <<spc, sconn, shandler, packet, sent>>
outVars == <<read, handled, dropped>>
nat2Vars == <<cacheVars, connVars, upc, sendVars, outVars>>

NoConn == 0
Conns == 1 .. MaxConns
Packets == Sources \X (1 .. MaxPackets)

Nat2TypeOK ==
  /\ cache \in [Sources -> Conns \cup {NoConn}]
  /\ expired \subseteq Sources
  /\ evicting \subseteq Conns
  /\ holder \in Sources \cup {"other"}
  /\ conns \in 0 .. MaxConns
  /\ localAddr \in [1 .. conns -> Sources]
  /\ handler \subseteq Conns /\ doneChan \subseteq Conns /\ handlerClosed \subseteq Conns
  /\ \A c \in Conns : packetChan[c] \in Seq(Packets) /\ Len(packetChan[c]) <= QueueCap
  /\ closing \in [Conns -> {"no", "run", "done"}]
  /\ upc \in [Conns -> {"none", "start", "read", "drain", "end"}]
  /\ spc \in [Sources -> {"idle", "load", "send"}]
  /\ sconn \in [Sources -> Conns \cup {NoConn}]
  /\ shandler \in [Sources -> BOOLEAN]
  /\ packet \in [Sources -> 0 .. MaxPackets]
  /\ sent \in 0 .. MaxPackets

Nat2Init ==
  /\ cache = [s \in Sources |-> NoConn] /\ expired = {} /\ evicting = {} /\ holder = "other"
  /\ conns = 0 /\ localAddr = <<>>
  /\ handler = {} /\ doneChan = {} /\ handlerClosed = {}
  /\ packetChan = [c \in Conns |-> <<>>]
  /\ closing = [c \in Conns |-> "no"]
  /\ upc = [c \in Conns |-> "none"]
  /\ spc = [s \in Sources |-> "idle"] /\ sconn = [s \in Sources |-> NoConn]
  /\ shandler = [s \in Sources |-> FALSE] /\ packet = [s \in Sources |-> 0]
  /\ sent = 0
  /\ read = [c \in Conns |-> <<>>] /\ handled = [c \in Conns |-> <<>>]
  /\ dropped = {}

-----------------------------------------------------------------------------
Packet(s) == <<s, packet[s]>>

\* Close: closeOnce closes doneChan, then the handler it finds, without the
\* lock of handler.
CloseStarts(c) ==
  /\ closing[c] = "no"
  /\ doneChan' = doneChan \cup {c}
  /\ closing' = [closing EXCEPT ![c] = "run"]

\* Mutation: the handler is not closed.
CloseFinishesAlone(c) ==
  /\ closing[c] = "run"
  /\ closing' = [closing EXCEPT ![c] = "done"]
  /\ evicting' = evicting \ {c} /\ holder' = IF evicting' = {} THEN "other" ELSE holder
  /\ UNCHANGED <<cache, expired, conns, localAddr, handler, packetChan, doneChan, handlerClosed,
                 upc, sendVars, outVars>>

\* ... and returns, also to the others that wait in closeOnce.
CloseFinishes(c) ==
  /\ closing[c] = "run"
  /\ closing' = [closing EXCEPT ![c] = "done"]
  /\ handlerClosed' = IF c \in handler THEN handlerClosed \cup {c} ELSE handlerClosed
  /\ evicting' = evicting \ {c} /\ holder' = IF evicting' = {} THEN "other" ELSE holder
  /\ UNCHANGED <<cache, expired, conns, localAddr, handler, packetChan, doneChan, upc, sendVars,
                 outVars>>

\* The connections C left the cache, in a call by a NewPacket or another: the
\* mutex is free again when they are closed.
Evicts(C, by) ==
  /\ evicting' = {c \in C : closing[c] # "done"}
  /\ holder' = IF evicting' = {} THEN "other" ELSE by
CacheUnlocked == evicting = {}

\* Mutation: what leaves the cache is forgotten.
DropsForgets(S, by) ==
  /\ cache' = [s \in Sources |-> IF s \in S THEN NoConn ELSE cache[s]]
  /\ expired' = expired \ S
  /\ Evicts({}, by)

\* The entries of S leave the cache.
Drops(S, by) ==
  /\ cache' = [s \in Sources |-> IF s \in S THEN NoConn ELSE cache[s]]
  /\ expired' = expired \ S
  /\ Evicts({cache[s] : s \in S} \ {NoConn}, by)

\* onEvict closes their connections, here in any order.
OnEvict(c) ==
  /\ c \in evicting
  /\ CloseStarts(c)
  /\ UNCHANGED <<cacheVars, conns, localAddr, handler, packetChan, handlerClosed, upc, sendVars,
                 outVars>>

\* The socket's goroutine for s calls NewPacket.
Receives(s) ==
  /\ spc[s] = "idle" /\ sent < MaxPackets /\ CacheUnlocked
  /\ sent' = sent + 1

\* NewPacket: GetAndRefreshOrAdd finds a connection that passes the health
\* check ...
Found(s) ==
  /\ Receives(s)
  /\ cache[s] # NoConn /\ cache[s] \notin doneChan
  /\ expired' = expired \ {s}
  /\ spc' = [spc EXCEPT ![s] = "load"]
  /\ sconn' = [sconn EXCEPT ![s] = cache[s]]
  /\ packet' = [packet EXCEPT ![s] = sent']
  /\ UNCHANGED <<cache, evicting, holder, connVars, upc, shandler, outVars>>

\* ... or drops a closed one, makes a new one, whose goroutine is started, and
\* purges the expired entries and, at the cache's capacity, another one ...
Made(s) ==
  /\ Receives(s)
  /\ cache[s] = NoConn \/ cache[s] \in doneChan
  /\ conns < MaxConns
  /\ \E oldest \in SUBSET (Sources \ {s}) :
       /\ Cardinality(oldest) <= 1
       /\ LET out == {t \in {s} \cup oldest \cup expired : cache[t] # NoConn}
          IN /\ cache' = [t \in Sources |->
                            IF t = s THEN conns + 1 ELSE IF t \in out THEN NoConn ELSE cache[t]]
             /\ Evicts({cache[t] : t \in out}, s)
             /\ expired' = expired \ (out \cup {s})
  /\ conns' = conns + 1
  /\ localAddr' = Append(localAddr, s)
  /\ upc' = [upc EXCEPT ![conns + 1] = "start"]
  /\ spc' = [spc EXCEPT ![s] = "load"]
  /\ sconn' = [sconn EXCEPT ![s] = conns + 1]
  /\ packet' = [packet EXCEPT ![s] = sent']
  /\ UNCHANGED <<handler, packetChan, doneChan, closing, handlerClosed, shandler, outVars>>

\* ... or prepare refuses the packet.
Refused(s) ==
  /\ Receives(s)
  /\ cache[s] = NoConn \/ cache[s] \in doneChan
  /\ Drops({s}, s)
  /\ dropped' = dropped \cup {<<s, sent'>>}
  /\ UNCHANGED <<connVars, upc, spc, sconn, shandler, packet, read, handled>>

\* conn.handlerAccess.RLock() ... RUnlock(), once GetAndRefreshOrAdd returned.
Load(s) ==
  /\ spc[s] = "load" /\ holder # s
  /\ shandler' = [shandler EXCEPT ![s] = sconn[s] \in handler]
  /\ spc' = [spc EXCEPT ![s] = "send"]
  /\ UNCHANGED <<cacheVars, connVars, upc, sconn, packet, sent, outVars>>

NewPacketReturns(s) ==
  /\ spc' = [spc EXCEPT ![s] = "idle"]
  /\ sconn' = [sconn EXCEPT ![s] = NoConn]
  /\ shandler' = [shandler EXCEPT ![s] = FALSE]
  /\ packet' = [packet EXCEPT ![s] = 0]

\* Mutation: the return after NewPacketEx is missing.
SendTwice(s) ==
  LET c == sconn[s]
  IN /\ spc[s] = "send" /\ NewPacketReturns(s)
     /\ handled' = IF shandler[s] THEN [handled EXCEPT ![c] = Append(@, Packet(s))] ELSE handled
     /\ packetChan' = IF Len(packetChan[c]) < QueueCap
                      THEN [packetChan EXCEPT ![c] = Append(@, Packet(s))] ELSE packetChan
     /\ UNCHANGED <<cacheVars, conns, localAddr, handler, doneChan, closing, handlerClosed,
                    upc, sent, read, dropped>>

\* handler.NewPacketEx, or the queue, or nothing when the queue is full.
Send(s) ==
  LET c == sconn[s]
  IN /\ spc[s] = "send" /\ NewPacketReturns(s)
     /\ \/ /\ shandler[s]
           /\ handled' = [handled EXCEPT ![c] = Append(@, Packet(s))]
           /\ UNCHANGED <<packetChan, dropped>>
        \/ /\ ~shandler[s] /\ Len(packetChan[c]) < QueueCap
           /\ packetChan' = [packetChan EXCEPT ![c] = Append(@, Packet(s))]
           /\ UNCHANGED <<handled, dropped>>
        \/ /\ ~shandler[s] /\ Len(packetChan[c]) = QueueCap
           /\ dropped' = dropped \cup {Packet(s)}
           /\ UNCHANGED <<packetChan, handled>>
     /\ UNCHANGED <<cacheVars, conns, localAddr, handler, doneChan, closing, handlerClosed,
                    upc, sent, read>>

-----------------------------------------------------------------------------
\* The goroutine of a connection reads in a loop ...
StartReading(c) ==
  /\ upc[c] = "start"
  /\ upc' = [upc EXCEPT ![c] = "read"]
  /\ UNCHANGED <<cacheVars, connVars, sendVars, outVars>>

\* ... ReadPacket, WaitReadPacket, WaitReadPackets: as many as there are, up
\* to the size of the batch ...
ReadPackets(c) ==
  /\ upc[c] = "read" /\ packetChan[c] # <<>>
  /\ \E n \in 1 .. BatchSize :
       /\ n <= Len(packetChan[c])
       /\ read' = [read EXCEPT ![c] = @ \o SubSeq(packetChan[c], 1, n)]
       /\ packetChan' = [packetChan EXCEPT ![c] = SubSeq(@, n + 1, Len(@))]
  /\ UNCHANGED <<cacheVars, conns, localAddr, handler, doneChan, closing, handlerClosed, upc,
                 sendVars, handled, dropped>>

\* ... or io.ErrClosedPipe.
ReadAbort(c) ==
  /\ upc[c] = "read" /\ c \in doneChan
  /\ upc' = [upc EXCEPT ![c] = "end"]
  /\ UNCHANGED <<cacheVars, connVars, sendVars, outVars>>

\* ... or it calls SetHandler: handlerAccess.Lock() ... Unlock() ...
SetHandler(c) ==
  /\ upc[c] = "start"
  /\ handler' = handler \cup {c}
  /\ upc' = [upc EXCEPT ![c] = "drain"]
  /\ UNCHANGED <<cacheVars, conns, localAddr, packetChan, doneChan, closing, handlerClosed,
                 sendVars, outVars>>

\* ... and what is in the queue goes to the handler.
Drain(c) ==
  /\ upc[c] = "drain"
  /\ \/ /\ packetChan[c] # <<>>
        /\ handled' = [handled EXCEPT ![c] = Append(@, Head(packetChan[c]))]
        /\ packetChan' = [packetChan EXCEPT ![c] = Tail(@)]
        /\ UNCHANGED upc
     \/ /\ packetChan[c] = <<>>
        /\ upc' = [upc EXCEPT ![c] = "end"]
        /\ UNCHANGED <<handled, packetChan>>
  /\ UNCHANGED <<cacheVars, conns, localAddr, handler, doneChan, closing, handlerClosed,
                 sendVars, read, dropped>>

\* Anybody may call Close, outside the cache.
Close(c) ==
  /\ upc[c] # "none"
  /\ CloseStarts(c)
  /\ UNCHANGED <<cacheVars, conns, localAddr, handler, packetChan, handlerClosed, upc,
                 sendVars, outVars>>

\* Timeout: PeekWithLifetime evicts the entry that it finds expired or closed,
\* which may be the one of a successor of this connection.
Timeout(c) ==
  /\ c <= conns /\ CacheUnlocked
  /\ LET s == localAddr[c]
     IN /\ cache[s] # NoConn /\ (s \in expired \/ cache[s] \in doneChan)
        /\ Drops({s}, "other")
  /\ UNCHANGED <<connVars, upc, sendVars, outVars>>

\* SetTimeout: UpdateLifetime refreshes the entry if it is still this one.
SetTimeout(c) ==
  /\ c <= conns /\ CacheUnlocked
  /\ cache[localAddr[c]] = c
  /\ expired' = expired \ {localAddr[c]}
  /\ UNCHANGED <<cache, evicting, holder, connVars, upc, sendVars, outVars>>

\* Purge, PurgeExpired.
PurgeSome(S) ==
  /\ CacheUnlocked
  /\ Drops({s \in S : cache[s] # NoConn}, "other")
  /\ UNCHANGED <<connVars, upc, sendVars, outVars>>

\* Time passes.
Lapse(s) ==
  /\ cache[s] # NoConn /\ s \notin expired
  /\ expired' = expired \cup {s}
  /\ UNCHANGED <<cache, evicting, holder, connVars, upc, sendVars, outVars>>

Nat2Next ==
  \/ \E s \in Sources :
       Found(s) \/ Made(s) \/ Refused(s) \/ Load(s) \/ Send(s) \/ Lapse(s)
  \/ \E c \in Conns :
       \/ StartReading(c) \/ ReadPackets(c) \/ ReadAbort(c)
       \/ SetHandler(c) \/ Drain(c)
       \/ Close(c) \/ OnEvict(c) \/ CloseFinishes(c) \/ Timeout(c) \/ SetTimeout(c)
  \/ PurgeSome(Sources) \/ PurgeSome(expired)

\* Goroutines run; nobody has to send, close, purge or choose what to do.
Nat2Fairness ==
  /\ \A s \in Sources : WF_nat2Vars(Load(s)) /\ WF_nat2Vars(Send(s))
  /\ \A c \in Conns :
       /\ WF_nat2Vars(ReadPackets(c) \/ ReadAbort(c))
       /\ WF_nat2Vars(Drain(c)) /\ WF_nat2Vars(OnEvict(c)) /\ WF_nat2Vars(CloseFinishes(c))

Nat2Spec == Nat2Init /\ [][Nat2Next]_nat2Vars /\ Nat2Fairness

-----------------------------------------------------------------------------
\* A connection that is not closed, or about to be by the holder of the
\* cache's mutex, is the one its source's packets go to: no live connection is
\* cut off by an eviction, an expiry, a purge or a successor.
LiveIsReachable ==
  \A c \in 1 .. conns : c \notin doneChan \cup evicting => cache[localAddr[c]] = c

\* A packet is never given out twice: not by the handler and by a read, not by
\* a queue and by the NewPacket that saw the handler.
Once ==
  \A c \in Conns :
    LET all == read[c] \o handled[c] \o packetChan[c]
    IN /\ \A i, j \in DOMAIN all : all[i] = all[j] => i = j
       /\ \A i \in DOMAIN all : all[i][1] = localAddr[c] /\ all[i] \notin dropped

\* ReadPacket returns packets in the order in which NewPacket was called.
ReadInOrder ==
  \A c \in Conns :
    LET all == read[c] \o packetChan[c]
    IN \A i, j \in DOMAIN all : i < j => all[i][2] < all[j][2]

\* Once SetHandler has returned, the queue holds at most the one packet whose
\* NewPacket had read a nil handler before: nothing takes that one out again.
AtMostOneStranded ==
  \A c \in handler : upc[c] = "end" => Len(packetChan[c]) <= 1

\* The cache and its connections, and where the packets are.
NatInv == Nat2TypeOK /\ LiveIsReachable /\ AtMostOneStranded

\* No packet is given out twice or read out of order.
PacketsOnce == Once /\ ReadInOrder

\* Once a connection with a handler is closed, by whomever, so is the handler.
HandlerClosedToo ==
  \A c \in Conns :
    [](c \in handler /\ c \notin doneChan =>
         [](c \in doneChan => <>(c \in handlerClosed)))

\* Close ends a ReadPacket.
CloseEndsRead == \A c \in Conns : c \in doneChan ~> upc[c] # "read"

\* What belongs to a connection ends with it.
EndsWithConn == HandlerClosedToo /\ CloseEndsRead
=============================================================================
