--------------------------------- MODULE Uot ---------------------------------
(***************************************************************************)
(* UDP over TCP (src/common/uot): packets in frames on a stream.  A frame   *)
(* has the packet's address, unless the stream is connected to one, a      *)
(* length and the data; in version 2 a request goes first, which says      *)
(* whether the stream is connected.  The request is written by DialConn,   *)
(* or by the first write of a LazyClientConn, together with its packet.    *)
(*                                                                         *)
(* The server is another uot.Conn, behind ReadRequest, or a ServerConn,    *)
(* whose two loops bridge the stream to a UDP socket.                      *)
(***************************************************************************)
EXTENDS Socksaddr

CONSTANTS UotConfigurations,  \* of the stream
          Packets,            \* data of packets
          UdpResolved,        \* the address that a name resolves to
          MaxPackets          \* bound: packets in each direction

ASSUME UotAssumption ==
  /\ UdpResolved \in Seq(Byte) /\ Len(UdpResolved) = 4 /\ MaxPackets \in Nat
  /\ \A data \in Packets : data \in Seq(Byte) /\ Len(data) <= MaxUint16
  /\ \A c \in UotConfigurations :
       /\ c.version \in {1, 2} /\ c.isConnect \in BOOLEAN /\ c.early \in BOOLEAN
       /\ c.server \in {"conn", "bridge"} /\ c.capacity \in Nat
       /\ c.destination \in c.peers /\ c.peers \subseteq Socksaddrs

VARIABLES uconf,
          dialed,           \* "start", "ok", "failed" or "closed"
          requestWritten,
          toServer, toClient, \* bytes under way
          torn,             \* a write failed after a part of it was sent
          accepted,         \* packets whose WritePacket returned nil
          served,           \* "request", "packets", "stopped" or "spinning"
          serverConnect, serverDestination,
          delivered,        \* packets that the server has read
          unresolved,       \* a name of the client's did not resolve
          bridgeClosed,     \* ServerConn.Close was called
          replies,          \* packets that the server has written
          answered,         \* packets that the client has read
          readFailed

uotVars == <<uconf, dialed, requestWritten, toServer, toClient, torn, accepted, served,
             serverConnect, serverDestination, delivered, unresolved, bridgeClosed, replies, answered,
             readFailed>>
uotClientVars == <<dialed, requestWritten, torn, accepted>>
uotServerVars == <<served, serverConnect, serverDestination, delivered, unresolved, bridgeClosed>>
replyVars == <<replies, answered, readFailed>>

UotInit ==
  /\ uconf \in UotConfigurations
  /\ dialed = "start" /\ requestWritten = FALSE /\ toServer = <<>> /\ toClient = <<>>
  /\ torn = FALSE /\ accepted = <<>>
  /\ served = (IF uconf.version = 2 THEN "request" ELSE "packets")
  /\ serverConnect = FALSE /\ serverDestination = Invalid
  /\ delivered = <<>> /\ unresolved = FALSE /\ bridgeClosed = FALSE /\ replies = <<>> /\ answered = <<>>
  /\ readFailed = FALSE

-----------------------------------------------------------------------------
\* EncodeRequest and ReadRequest
CanEncodeRequest(destination) == CanWriteAddress(SocksaddrSerializer, destination)
EncodeRequest(isConnect, destination) ==
  <<IF isConnect THEN 1 ELSE 0>> \o WriteAddrPort(SocksaddrSerializer, destination)
ReadRequest(s) ==
  Then(ReadByte(s), LAMBDA flag, rest :
  Then(ReadAddrPort(SocksaddrSerializer, rest), LAMBDA a, r :
    Got([IsConnect |-> flag # 0, Destination |-> a], r)))

\* Conn.WriteTo and WritePacket: the header, and the data behind it.
Frame(isConnect, destination, data) ==
  (IF isConnect THEN <<>> ELSE WriteAddrPort(AddrParser, destination))
    \o Uint16(Len(data)) \o data

\* Mutation: the length is taken for the one byte it mostly needs.
ReadFrameShort(isConnect, destination, capacity, s) ==
  Then(IF isConnect THEN Got(destination, s) ELSE ReadAddrPort(AddrParser, s), LAMBDA a, s1 :
  Then(ReadByte(s1), LAMBDA length, s2 :
    IF length > capacity THEN Bad
    ELSE Then(ReadFull(s2, length), LAMBDA data, s3 : Got(<<a, data>>, s3))))

\* ReadFrom, ReadPacket, WaitReadPacket and a turn of loopInput.  A buffer
\* too small for the length is an error.
ReadFrame(isConnect, destination, capacity, s) ==
  Then(IF isConnect THEN Got(destination, s) ELSE ReadAddrPort(AddrParser, s), LAMBDA a, s1 :
  Then(ReadUint16(s1), LAMBDA length, s2 :
    IF length > capacity THEN Bad
    ELSE Then(ReadFull(s2, length), LAMBDA data, s3 : Got(<<a, data>>, s3))))

-----------------------------------------------------------------------------
\* The client's half of the stream is connected in version 2 only: the Conn
\* of a legacy stream is made with an empty request.
clientConnect == uconf.version = 2 /\ uconf.isConnect

\* DialConn, which sends the request at once, and DialEarlyConn.
Dial ==
  /\ dialed = "start"
  /\ IF uconf.version = 2 /\ ~uconf.early
     THEN \/ /\ CanEncodeRequest(uconf.destination)
             /\ toServer' = EncodeRequest(uconf.isConnect, uconf.destination)
             /\ requestWritten' = TRUE /\ dialed' = "ok"
          \/ dialed' = "failed" /\ UNCHANGED <<toServer, requestWritten>>
     ELSE /\ dialed' = "ok" /\ requestWritten' = (uconf.version = 1)
          /\ UNCHANGED toServer
  /\ UNCHANGED <<uconf, toClient, torn, accepted, uotServerVars, replyVars>>


\* LazyClientConn.writeVectorised: the flag is set after a write without error.
MarksRequest(ok) == requestWritten \/ ok

\* A packet of the client, under Conn.writeAccess and LazyClientConn.access:
\* sent, not sent, or sent in part.
ClientPacket ==
  /\ dialed = "ok" /\ Len(accepted) < MaxPackets
  /\ \E destination \in uconf.peers, data \in Packets :
       LET to == IF clientConnect THEN uconf.destination ELSE destination
           request == IF requestWritten THEN <<>> ELSE EncodeRequest(uconf.isConnect, uconf.destination)
           bytes == request \o Frame(clientConnect, to, data)
       IN /\ CanWriteAddress(AddrParser, to)
          /\ requestWritten \/ CanEncodeRequest(uconf.destination)
          /\ \/ /\ toServer' = toServer \o bytes /\ accepted' = Append(accepted, <<to, data>>)
                /\ requestWritten' = MarksRequest(TRUE) /\ UNCHANGED torn
             \/ /\ requestWritten' = MarksRequest(FALSE)
                /\ UNCHANGED <<toServer, accepted, torn>>
             \/ /\ ~torn /\ torn' = TRUE
                /\ toServer' = toServer \o SubSeq(bytes, 1, Len(bytes) - 1)
                /\ requestWritten' = MarksRequest(FALSE) /\ UNCHANGED accepted
  /\ UNCHANGED <<uconf, dialed, toClient, uotServerVars, replyVars>>

UotClose ==
  /\ dialed = "ok" /\ dialed' = "closed"
  /\ UNCHANGED <<uconf, requestWritten, toServer, toClient, torn, accepted, uotServerVars, replyVars>>

-----------------------------------------------------------------------------
UotFailed(r) == r.st = "bad" \/ (r.st = "more" /\ dialed \in {"closed", "failed"})

\* ReadRequest, of the server's accept or of loopInput, which returns from an
\* error without Close.
ServerRequest ==
  /\ served = "request"
  /\ \E r \in {ReadRequest(toServer)} :
       \/ /\ r.st = "ok" /\ ~bridgeClosed /\ served' = "packets" /\ toServer' = r.rest
          /\ serverConnect' = r.v.IsConnect /\ serverDestination' = r.v.Destination
       \/ /\ UotFailed(r) \/ bridgeClosed
          /\ served' = "stopped" /\ UNCHANGED <<toServer, serverConnect, serverDestination>>
  /\ UNCHANGED <<uconf, toClient, uotClientVars, delivered, unresolved, bridgeClosed, replyVars>>

\* One frame.  A turn of loopInput writes it to the socket; when that fails,
\* or the read does, it calls Close and reads the stream no more.
ServerFrame ==
  /\ served = "packets"
  /\ \E r \in {ReadFrame(serverConnect, serverDestination, uconf.capacity, toServer)} :
       \/ /\ r.st = "ok" /\ ~bridgeClosed /\ toServer' = r.rest
          /\ delivered' = Append(delivered,
                 IF uconf.server = "bridge" /\ IsDomain(r.v[1])
                 THEN <<IP(UdpResolved, r.v[1].Port), r.v[2]>> ELSE r.v)
          /\ UNCHANGED <<served, bridgeClosed>>
       \/ /\ \/ UotFailed(r) \/ bridgeClosed
             \/ r.st = "ok" /\ uconf.server = "bridge"
          /\ served' = "stopped" /\ bridgeClosed' = (uconf.server = "bridge")
          /\ UNCHANGED <<toServer, delivered>>
  /\ UNCHANGED <<uconf, toClient, uotClientVars, serverConnect, serverDestination, unresolved, replyVars>>

\* loopInput resolves names; one that does not resolve skips the rest of the
\* turn, which leaves length and data in the stream, or turns for ever, even
\* when the bridge is closed, when the stream is connected to that name.
NameFails ==
  /\ served = "packets" /\ uconf.server = "bridge" /\ (serverConnect \/ ~bridgeClosed)
  /\ \E r \in {IF serverConnect THEN Got(serverDestination, toServer)
                ELSE ReadAddrPort(AddrParser, toServer)} :
       /\ r.st = "ok" /\ IsDomain(r.v)
       /\ toServer' = r.rest
  /\ served' = (IF serverConnect THEN "spinning" ELSE served) /\ unresolved' = TRUE
  /\ UNCHANGED <<uconf, toClient, uotClientVars, serverConnect, serverDestination, delivered,
                 bridgeClosed, replyVars>>

\* loopOutput calls Close when it fails to read the socket or to write the
\* pipe (what it wrote of its frame has nothing behind it); so may the caller.
BridgeCloses ==
  /\ uconf.server = "bridge" /\ ~bridgeClosed /\ bridgeClosed' = TRUE
  /\ UNCHANGED <<uconf, toServer, toClient, uotClientVars, served, serverConnect, serverDestination,
                 delivered, unresolved, replyVars>>

\* A peer that was written to answers: a packet of the server's Conn, or a
\* turn of loopOutput.
ServerReplies ==
  /\ served \in {"packets", "spinning"} /\ ~bridgeClosed /\ Len(replies) < MaxPackets
  /\ \E i \in 1 .. Len(delivered), data \in Packets :
       LET source == IF serverConnect THEN serverDestination ELSE delivered[i][1]
       IN /\ toClient' = toClient \o Frame(serverConnect, source, data)
          /\ replies' = Append(replies, <<source, data>>)
  /\ UNCHANGED <<uconf, toServer, uotClientVars, uotServerVars, answered, readFailed>>

ClientFrame ==
  /\ dialed = "ok" /\ ~readFailed
  /\ \E r \in {ReadFrame(clientConnect, uconf.destination, uconf.capacity, toClient)} :
       \/ /\ r.st = "ok" /\ toClient' = r.rest /\ answered' = Append(answered, r.v)
          /\ UNCHANGED readFailed
       \/ /\ r.st = "bad" \/ (r.st = "more" /\ (bridgeClosed \/ (served = "stopped" /\ uconf.server = "conn")))
          /\ readFailed' = TRUE /\ UNCHANGED <<toClient, answered>>
  /\ UNCHANGED <<uconf, toServer, uotClientVars, uotServerVars, replies>>

UotNext == Dial \/ ClientPacket \/ UotClose \/ ServerRequest \/ ServerFrame \/ NameFails
           \/ BridgeCloses \/ ServerReplies \/ ClientFrame
UotSpec == UotInit /\ [][UotNext]_uotVars /\ WF_uotVars(ServerRequest) /\ WF_uotVars(ServerFrame)

-----------------------------------------------------------------------------
\* A packet as the server sees it.
Seen(p) ==
  <<IF uconf.server = "bridge" /\ IsDomain(p[1]) THEN IP(UdpResolved, p[1].Port) ELSE Unwrap(p[1]), p[2]>>
IsPrefixOf(s, t) == Len(s) <= Len(t) /\ s = SubSeq(t, 1, Len(s))

\* The server reads the packets that the client wrote, in that order, each
\* with its address and its data, and the client what the server wrote: the
\* request goes once and first, even when the first write fails and is tried
\* again.  A write that was cut off, or a name that does not resolve, leaves
\* the stream between two frames.
PacketsInOrder ==
  ~torn /\ ~unresolved =>
    /\ IsPrefixOf(delivered, [i \in 1 .. Len(accepted) |-> Seen(accepted[i])])
    /\ IsPrefixOf([i \in 1 .. Len(answered) |-> <<Unwrap(answered[i][1]), answered[i][2]>>],
                  [i \in 1 .. Len(replies) |-> <<Unwrap(replies[i][1]), replies[i][2]>>])

\* A packet that was written is read, unless the buffer is too small for it,
\* a write was cut off, a name did not resolve or a loop of the bridge failed,
\* and then both loops end, but the one that resolves its name for ever.
UotDelivers ==
  /\ \A n \in 1 .. MaxPackets :
       (Len(accepted) >= n)
         ~> (Len(delivered) >= n \/ torn \/ unresolved \/ bridgeClosed
               \/ \E i \in 1 .. Len(accepted) : Len(accepted[i][2]) > uconf.capacity)
  /\ bridgeClosed ~> served \in {"stopped", "spinning"}
=============================================================================
