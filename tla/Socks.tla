-------------------------------- MODULE Socks --------------------------------
(***************************************************************************)
(* The two ends of the SOCKS proxy protocol (src/protocol/socks): the      *)
(* client's DialContext, BindContext and handshakes, the server's          *)
(* HandleConnectionEx, and the LazyConn it gives the handler, which sends  *)
(* the reply when the handler reports or first uses the connection.        *)
(*                                                                         *)
(* up and down are the two directions of the TCP connection between them;  *)
(* a Write is in the stream at once and as a whole.  What is written to a  *)
(* connection that the other end has closed is not read: the next Read     *)
(* returns the error.  The server reads through a bufio.Reader, which takes *)
(* all that is there (rbuf) and not only what it is asked for.             *)
(***************************************************************************)
EXTENDS SocksMessages, FiniteSets

CONSTANTS Configurations, \* what the client is asked for, and the two ends' settings
          Resolved,       \* the address that a name of version 4 resolves to
          Stray           \* datagrams that strangers send to the server's UDP port

\* users is {} where the server has no authenticator; plan is what the
\* handler does; bind the local address of an outgoing connection; udpTimeout
\* whether the server has one.  What
\* ends with a NUL in version 4 has none of its own, and a user's name and
\* password fit their bytes of length in version 5, where common.Must panics.
ASSUME SocksAssumption ==
  /\ Resolved \in Seq(Byte) /\ Len(Resolved) = 4
  /\ \A c \in Configurations :
       /\ c.version \in {"4", "4a", "5"} /\ c.op \in {"tcp", "udp", "bind"}
       /\ c.destination \in Socksaddrs /\ IsValid(c.destination)
       /\ c.bind \in Socksaddrs /\ c.bind.Addr # <<>>
       /\ c.credentials \in Seq(Byte) \X Seq(Byte)
       /\ IF c.version = "5" THEN CanWriteUsernamePassword(c.credentials[1], c.credentials[2])
          ELSE NulAt(c.credentials[1]) = {} /\ NulAt(c.destination.Fqdn) = {}
       /\ c.plan[1] \in {"success", "lazy", "failure"} /\ c.udpTimeout \in BOOLEAN

VARIABLES conf,            \* the client's and the server's configuration
          cpc, cconn,      \* where DialContext is; its end of the connection
          up, down,        \* bytes under way
          spc, sconn, rbuf, \* the same for the server, and its bufio.Reader
          suser,           \* auth.ContextWithUser
          handled,         \* the call of the handler
          tpc,             \* the handler's two directions
          responseWritten,
          cgot, sgot,      \* payload that the two ends read
          remoteAddr,      \* of the client's AssociatePacketConn
          udp, back,       \* the client's datagrams on their way to the server, and back
          peer,            \* whose datagram the server read last (serverPacketConn.remoteAddr)
          wrote, received  \* packets that the ends wrote and read

socksVars == <<conf, cpc, cconn, up, down, spc, sconn, rbuf, suser, handled, tpc,
               responseWritten, cgot, sgot, remoteAddr, udp, back, peer, wrote, received>>
clientVars == <<cpc, cconn, cgot>>
serverVars == <<spc, sconn, rbuf, suser, handled, tpc, responseWritten, sgot>>
packetVars == <<remoteAddr, udp, back, peer, wrote, received>>

Nothing == [kind |-> "none"]
Directions == {"read", "write"}
Payload == <<201>>
Data == <<202>>

SocksInit ==
  /\ conf \in Configurations
  /\ cpc = "start" /\ cconn = "none" /\ up = <<>> /\ down = <<>>
  /\ spc = "version" /\ sconn = "open" /\ rbuf = <<>> /\ suser = <<>>
  /\ handled = Nothing /\ tpc = [t \in Directions |-> "idle"]
  /\ responseWritten = FALSE /\ cgot = <<>> /\ sgot = <<>>
  /\ remoteAddr = Invalid /\ udp = {} /\ back = {} /\ peer = "none" /\ wrote = {} /\ received = {}

Command == CASE conf.op = "tcp" -> CommandConnect [] conf.op = "bind" -> CommandBind
             [] conf.op = "udp" -> CommandUDPAssociate
username == conf.credentials[1]
password == conf.credentials[2]

\* authenticator.Verify; a user without a password is one of version 4.
Verify(u, p) == <<u, p>> \in conf.users

-----------------------------------------------------------------------------
\* The client.
\* The first message: of ClientHandshake4, or of ClientHandshake5.
FirstMessage(destination) ==
  LET request == [Command |-> Command, Destination |-> destination, Username |-> username]
  IN IF conf.version = "5"
     THEN /\ up' = up \o WriteAuthRequest(<<IF username = <<>> THEN AuthTypeNotRequired
                                             ELSE AuthTypeUsernamePassword>>)
          /\ cpc' = "method"
     ELSE /\ CanWriteRequest4(request)
          /\ up' = up \o WriteRequest4(request)
          /\ cpc' = "reply4"

\* DialContext and BindContext up to the first message.  Only version 5 has
\* UDP; DialContext of version 4 resolves names itself, BindContext does not.
DialContext ==
  /\ cpc = "start"
  /\ LET resolves == conf.version = "4" /\ conf.op # "bind" /\ IsDomain(conf.destination)
         address == IF resolves THEN IP(Resolved, conf.destination.Port) ELSE conf.destination
         request == [Command |-> Command, Destination |-> address, Username |-> username]
     IN \/ /\ conf.op = "udp" /\ conf.version # "5"
           /\ cpc' = "failed" /\ UNCHANGED <<cconn, up>>
        \/ /\ conf.op # "udp" \/ conf.version = "5"
           /\ \/ cpc' = "failed" /\ UNCHANGED <<cconn, up>>    \* the dialer's error
              \/ /\ resolves \/ (conf.version # "5" /\ ~CanWriteRequest4(request))
                 /\ cpc' = "failed" /\ cconn' = "closed" /\ UNCHANGED up
              \/ FirstMessage(address) /\ cconn' = "open"
  /\ UNCHANGED <<conf, down, cgot, serverVars, packetVars>>

\* netip's classes of addresses, as far as ClientHandshake5 asks for them.
IsPrivate(a) ==
  \/ IsIPv4(a) /\ \/ a.Addr[1] = 10
                  \/ a.Addr[1] = 172 /\ a.Addr[2] \in 16 .. 31
                  \/ a.Addr[1] = 192 /\ a.Addr[2] = 168
  \/ IsIPv6(a) /\ a.Addr[1] \in {252, 253}
IsGlobalUnicast(a) ==
  /\ a.Addr # <<>> /\ a.Addr # Zeros(Len(a.Addr))
  /\ IsIPv4(a) => /\ a.Addr[1] \notin {127} \cup 224 .. 239
                  /\ SubSeq(a.Addr, 1, 2) # <<169, 254>> /\ a.Addr # <<255, 255, 255, 255>>
  /\ IsIPv6(a) => /\ a.Addr # Zeros(15) \o <<1>> /\ a.Addr[1] # 255
                  /\ ~(a.Addr[1] = 254 /\ a.Addr[2] \in 128 .. 191)

\* The client does not know where its packets will come from: it asks for an
\* association with a loopback or an unspecified address, and port 0.
AssociateAddr(a) ==
  [a EXCEPT !.Port = 0,
            !.Addr = IF IsPrivate(a)
                     THEN IF IsIPv6(a) THEN <<127, 0, 0, 1>> ELSE Zeros(15) \o <<1>>
                     ELSE IF IsGlobalUnicast(a)
                     THEN Zeros(Len(a.Addr))
                     ELSE Zeros(16)]

Request5 ==
  [Command |-> Command,
   Destination |-> IF conf.op = "udp" THEN AssociateAddr(conf.destination) ELSE conf.destination]

\* One read of the client: the message r at the head of down, or an error
\* when it is malformed or the server closed the connection before its end.
ClientReads(pc, read, OnMessage(_)) ==
  /\ cpc = pc
  /\ \E r \in {read} :
       /\ \/ r.st = "ok" /\ OnMessage(r.v)
          \/ /\ r.st = "bad" \/ (r.st = "more" /\ sconn = "closed")
             /\ cpc' = "failed" /\ cconn' = "closed" /\ UNCHANGED up
       /\ down' = r.rest
  /\ UNCHANGED <<conf, cgot, serverVars, packetVars>>

\* The handshake goes on, or fails and closes the connection.
Proceed(bytes, pc) == up' = up \o bytes /\ cpc' = pc /\ UNCHANGED cconn
GiveUp == cpc' = "failed" /\ cconn' = "closed" /\ UNCHANGED up

AskFor5 ==
  IF CanWriteRequest5(Request5) THEN Proceed(WriteRequest5(Request5), "reply5") ELSE GiveUp

\* The answer to the methods.  common.Must in the writer of the user's name
\* panics for what does not fit; the client's configuration has no such name.
ClientMethod ==
  ClientReads("method", ReadAuthResponse(down), LAMBDA method :
    IF method = AuthTypeUsernamePassword
    THEN Proceed(WriteUsernamePasswordAuthRequest(username, password), "status")
    ELSE IF method = AuthTypeNotRequired THEN AskFor5 ELSE GiveUp)

ClientStatus ==
  ClientReads("status", ReadUsernamePasswordAuthResponse(down), LAMBDA status :
    IF status = UsernamePasswordStatusSuccess THEN AskFor5 ELSE GiveUp)

\* The reply ends the handshake; for UDP the client then dials Bind.
ClientReply5 ==
  ClientReads("reply5", ReadResponse5(down), LAMBDA response :
    IF response.ReplyCode # ReplyCodeSuccess THEN GiveUp
    ELSE IF conf.op = "udp" THEN Proceed(<<>>, "dialudp") ELSE Proceed(<<>>, "ok"))

ClientReply4 ==
  ClientReads("reply4", ReadResponse4(down), LAMBDA response :
    IF response.ReplyCode # ReplyCodeGranted THEN GiveUp ELSE Proceed(<<>>, "ok"))

DialUDP ==
  /\ cpc = "dialudp"
  /\ \/ cpc' = "ok" /\ remoteAddr' = conf.destination /\ UNCHANGED cconn
     \/ cpc' = "failed" /\ cconn' = "closed" /\ UNCHANGED remoteAddr
  /\ UNCHANGED <<conf, up, down, cgot, serverVars, udp, back, peer, wrote, received>>

\* The application behind the client, with the connection it got.
ClientSendsPayload ==
  /\ cpc = "ok" /\ conf.op = "tcp"
  /\ up' = up \o Payload /\ cpc' = "sent"
  /\ UNCHANGED <<conf, cconn, down, cgot, serverVars, packetVars>>

ClientGetsPayload ==
  /\ cpc \in {"ok", "sent"} /\ conf.op = "tcp" /\ down # <<>>
  /\ cgot' = cgot \o down /\ down' = <<>>
  /\ UNCHANGED <<conf, cpc, cconn, up, serverVars, packetVars>>

-----------------------------------------------------------------------------
\* The server.  rbuf holds what its bufio.Reader has taken.
ServerParse ==
  CASE spc = "version" ->
         Then(ReadByte(rbuf), LAMBDA version, rest :
           CASE version = Version4 ->
                  Then(ReadRequest4(rest), LAMBDA r, s : Got([version |-> 4, request |-> r], s))
             [] version = Version5 ->
                  Then(ReadAuthRequest(rest), LAMBDA m, s : Got([version |-> 5, methods |-> m], s))
             [] OTHER -> Bad)
    [] spc = "auth" -> ReadUsernamePasswordAuthRequest(rbuf)
    [] spc = "request" -> ReadRequest5(rbuf)
    [] OTHER -> Bad

Parsing == spc \in {"version", "auth", "request"}

\* bufio.Reader.fill
Fill ==
  /\ Parsing /\ ServerParse.st = "more" /\ up # <<>>
  /\ rbuf' = rbuf \o up /\ up' = <<>>
  /\ UNCHANGED <<conf, clientVars, down, spc, sconn, suser, handled, tpc, responseWritten, sgot, packetVars>>

\* A malformed message or the end of the stream is an error.
ServerReadFails ==
  /\ Parsing
  /\ \/ ServerParse.st = "bad"
     \/ ServerParse.st = "more" /\ up = <<>> /\ cconn = "closed"
  /\ spc' = "error"
  /\ UNCHANGED <<conf, clientVars, up, down, sconn, rbuf, suser, handled, tpc, responseWritten, sgot, packetVars>>

\* What follows a message that was read.
ServerGoesOn(pc, user, bytes) ==
  /\ spc' = pc /\ suser' = user /\ down' = down \o bytes /\ rbuf' = ServerParse.rest
  /\ UNCHANGED <<conf, clientVars, up, sconn, tpc, responseWritten, sgot, packetVars>>

Handler(version, user, destination) ==
  handled' = [kind |-> "stream", version |-> version, user |-> user, destination |-> destination]

HandleSocks4 ==
  /\ spc = "version" /\ ServerParse.st = "ok" /\ ServerParse.v.version = 4
  /\ LET request == ServerParse.v.request
         verified == conf.users # {} => Verify(request.Username, <<>>)
     IN IF request.Command = CommandConnect /\ verified
        THEN /\ Handler(4, request.Username, request.Destination)
             /\ ServerGoesOn("handler", request.Username, <<>>)
        ELSE /\ ServerGoesOn("error", suser, WriteResponse4(ReplyCodeRejectedOrFailed, Invalid))
             /\ UNCHANGED handled

\* With an authenticator the method is the password, whatever the client
\* offered; a client that did not offer it is told so before that.
HandleMethods ==
  /\ spc = "version" /\ ServerParse.st = "ok" /\ ServerParse.v.version = 5
  /\ LET offered == {ServerParse.v.methods[i] : i \in 1 .. Len(ServerParse.v.methods)}
     IN IF conf.users # {}
        THEN ServerGoesOn("auth", suser,
               (IF AuthTypeUsernamePassword \in offered THEN <<>>
                ELSE WriteAuthResponse(AuthTypeNoAcceptedMethods))
                 \o WriteAuthResponse(AuthTypeUsernamePassword))
        ELSE ServerGoesOn("request", suser, WriteAuthResponse(AuthTypeNotRequired))
  /\ UNCHANGED handled

\* Mutation: the answer says failure and the request is served anyway.
HandlePasswordLoosely ==
  /\ spc = "auth" /\ ServerParse.st = "ok"
  /\ ServerGoesOn("request", ServerParse.v.Username,
                  WriteUsernamePasswordAuthResponse(UsernamePasswordStatusSuccess))
  /\ UNCHANGED handled

HandlePassword ==
  /\ spc = "auth" /\ ServerParse.st = "ok"
  /\ LET r == ServerParse.v
     IN IF Verify(r.Username, r.Password)
        THEN ServerGoesOn("request", r.Username,
                          WriteUsernamePasswordAuthResponse(UsernamePasswordStatusSuccess))
        ELSE ServerGoesOn("error", r.Username,
                          WriteUsernamePasswordAuthResponse(UsernamePasswordStatusFailure))
  /\ UNCHANGED handled

HandleRequest5 ==
  /\ spc = "request" /\ ServerParse.st = "ok"
  /\ LET r == ServerParse.v
     IN CASE r.Command = CommandConnect ->
               /\ Handler(5, suser, r.Destination)
               /\ ServerGoesOn("handler", suser, <<>>)
          [] r.Command = CommandUDPAssociate ->
               /\ \/ ServerGoesOn("error", suser, <<>>)      \* listen udp failed
                  \/ ServerGoesOn("packet", suser, WriteResponse5(ReplyCodeSuccess, Unwrap(conf.bind)))
               /\ UNCHANGED handled
          [] OTHER ->
               /\ ServerGoesOn("error", suser, WriteResponse5(ReplyCodeUnsupported, Invalid))
               /\ UNCHANGED handled

\* The caller of HandleConnectionEx closes the connection after an error.
CallerCloses ==
  /\ spc = "error"
  /\ spc' = "closed" /\ sconn' = "closed"
  /\ UNCHANGED <<conf, clientVars, up, down, rbuf, suser, handled, tpc, responseWritten, sgot, packetVars>>

-----------------------------------------------------------------------------
\* LazyConn.  The reply of ConnHandshakeSuccess and of HandshakeFailure.
SuccessReply(bind) ==
  IF handled.version = 4 THEN WriteResponse4(ReplyCodeGranted, Unwrap(bind))
  ELSE WriteResponse5(ReplyCodeSuccess, Unwrap(bind))
FailureReply(err) ==
  IF handled.version = 4 THEN WriteResponse4(ReplyCodeRejectedOrFailed, Invalid)
  ELSE WriteResponse5(ReplyCodeForError(err), Invalid)

lazyUnchanged == <<conf, clientVars, up, rbuf, suser, handled, sgot, packetVars>>

\* The handler reports that its outgoing connection is there ...
ConnHandshakeSuccess ==
  /\ spc = "handler" /\ conf.plan[1] = "success"
  /\ down' = down \o SuccessReply(conf.bind) /\ responseWritten' = TRUE
  /\ spc' = "serving" /\ tpc' = [t \in Directions |-> "check"]
  /\ UNCHANGED <<lazyUnchanged, sconn>>

\* ... or that it failed, with N.CloseOnHandshakeFailure ...
HandshakeFailure ==
  /\ spc = "handler" /\ conf.plan[1] = "failure"
  /\ down' = down \o FailureReply(conf.plan[2]) /\ responseWritten' = TRUE
  /\ spc' = "closed" /\ sconn' = "closed"
  /\ UNCHANGED <<lazyUnchanged, tpc>>

\* ... or just uses it.
HandlerStarts ==
  /\ spc = "handler" /\ conf.plan[1] = "lazy"
  /\ spc' = "serving" /\ tpc' = [t \in Directions |-> "check"]
  /\ UNCHANGED <<lazyUnchanged, sconn, down, responseWritten>>

\* Read and Write look at the flag, which nothing protects, ...
LazyCheck(t) ==
  /\ tpc[t] = "check"
  /\ tpc' = [tpc EXCEPT ![t] = IF responseWritten THEN "io" ELSE "respond"]
  /\ UNCHANGED <<lazyUnchanged, spc, sconn, down, responseWritten>>

\* ... and reply for the handler when nobody has.
LazyRespond(t) ==
  /\ tpc[t] = "respond"
  /\ tpc' = [tpc EXCEPT ![t] = "io"]
  /\ down' = down \o SuccessReply(conf.bind) /\ responseWritten' = TRUE
  /\ UNCHANGED <<lazyUnchanged, spc, sconn>>

\* The handler reads the connection, not the bufio.Reader in front of it.
LazyRead ==
  /\ tpc["read"] = "io" /\ up # <<>>
  /\ sgot' = sgot \o up /\ up' = <<>>
  /\ UNCHANGED <<conf, clientVars, down, spc, sconn, rbuf, suser, handled, tpc, responseWritten, packetVars>>

LazyWrite ==
  /\ tpc["write"] = "io"
  /\ down' = down \o Data /\ tpc' = [tpc EXCEPT !["write"] = "end"]
  /\ UNCHANGED <<lazyUnchanged, spc, sconn, responseWritten>>

-----------------------------------------------------------------------------
\* A UDP association.  Datagrams are lost, reordered and duplicated: what is
\* in udp may be read never, later, or twice.  The server's port takes them
\* from anybody, and answers whoever sent the one it read last.
DatagramSenders == {"client", "stranger"}
SentBy(sender) == IF sender = "client" THEN udp ELSE Stray

\* WriteTo for a destination, and Write for the last one that was read.
ClientSendsPacket ==
  /\ cpc = "ok" /\ conf.op = "udp" /\ Cardinality(udp) < 2
  /\ \E destination \in {conf.destination, remoteAddr} :
       /\ CanWriteAddress(SocksaddrSerializer, destination)
       /\ udp' = udp \cup {WritePacket(destination, Payload)}
       /\ wrote' = wrote \cup {<<destination, Payload>>}
  /\ UNCHANGED <<conf, clientVars, up, down, serverVars, remoteAddr, back, peer, received>>

\* The first packet is read before the handler is called, ...
FirstPacket ==
  /\ spc = "packet"
  /\ \E sender \in DatagramSenders : \E p \in SentBy(sender) :
       LET r == ReadPacket(p)
       IN /\ peer' = sender
          /\ IF r.st = "ok"
             THEN /\ received' = {<<sender, r.v, r.rest>>} /\ spc' = "associated"
                  /\ handled' = [kind |-> "packet", version |-> 5, user |-> suser,
                                 destination |-> r.v]
             ELSE spc' = "error" /\ UNCHANGED <<handled, received>>
  /\ UNCHANGED <<conf, clientVars, up, down, sconn, rbuf, suser, tpc, responseWritten,
                 sgot, remoteAddr, udp, back, wrote>>

\* ... for which a server without a timeout waits for ever; ...
FirstPacketTimesOut ==
  /\ spc = "packet" /\ conf.udpTimeout /\ spc' = "error"
  /\ UNCHANGED <<conf, clientVars, up, down, sconn, rbuf, suser, handled, tpc, responseWritten,
                 sgot, packetVars>>

\* ... the others by the handler, for which a malformed one is an error.
HandlerReadsPacket ==
  /\ spc = "associated"
  /\ \E sender \in DatagramSenders : \E p \in SentBy(sender) :
       LET r == ReadPacket(p)
       IN /\ peer' = sender
          /\ received' = IF r.st = "ok" THEN received \cup {<<sender, r.v, r.rest>>} ELSE received
  /\ UNCHANGED <<conf, clientVars, up, down, serverVars, remoteAddr, udp, back, wrote>>

\* Packets come back from any address, not only from one that was written to;
\* those that go to a stranger are left out.
HandlerWritesPacket ==
  /\ spc = "associated" /\ peer = "client" /\ back = {}
  /\ \E source \in {conf.destination, conf.bind} : back' = {WritePacket(source, Data)}
  /\ UNCHANGED <<conf, clientVars, up, down, serverVars, remoteAddr, udp, peer, wrote, received>>

ClientReadsPacket ==
  /\ cpc = "ok" /\ conf.op = "udp"
  /\ \E p \in back : LET r == ReadPacket(p) IN r.st = "ok" /\ remoteAddr' = r.v
  /\ UNCHANGED <<conf, clientVars, up, down, serverVars, udp, back, peer, wrote, received>>

-----------------------------------------------------------------------------
ClientStep == DialContext \/ ClientMethod \/ ClientStatus \/ ClientReply5 \/ ClientReply4 \/ DialUDP
ServerStep == Fill \/ ServerReadFails \/ HandleSocks4 \/ HandleMethods \/ HandlePassword
              \/ HandleRequest5 \/ CallerCloses \/ FirstPacketTimesOut
HandlerStep == ConnHandshakeSuccess \/ HandshakeFailure \/ HandlerStarts
LazyStep(t) == LazyCheck(t) \/ LazyRespond(t)

SocksNext ==
  \/ ClientStep \/ ServerStep \/ HandlerStep
  \/ \E t \in Directions : LazyStep(t)
  \/ LazyRead \/ LazyWrite
  \/ ClientSendsPayload \/ ClientGetsPayload
  \/ ClientSendsPacket \/ FirstPacket \/ HandlerReadsPacket \/ HandlerWritesPacket \/ ClientReadsPacket

\* The client, the server, the handler and its goroutines keep running; no
\* datagram need arrive.
SocksFairness ==
  /\ WF_socksVars(ClientStep) /\ WF_socksVars(ServerStep) /\ WF_socksVars(HandlerStep)
  /\ \A t \in Directions : WF_socksVars(LazyStep(t))

SocksSpec == SocksInit /\ [][SocksNext]_socksVars /\ SocksFairness

-----------------------------------------------------------------------------
\* What the server should be asked for.
Wanted ==
  IF conf.version = "4" /\ conf.op = "tcp" /\ IsDomain(conf.destination)
  THEN IP(Resolved, conf.destination.Port) ELSE Unwrap(conf.destination)

\* The handler is called for the destination that the client was asked for,
\* in its canonical form, and for its user, who is one of the authenticator's;
\* DialContext returns a connection only when the handler has it, and none
\* when the handler failed or the command is one the server does not know.
SocksAgree ==
  /\ handled.kind = "stream" =>
       /\ handled.destination = Wanted
       /\ conf.users # {} =>
            /\ handled.user = username
            /\ Verify(username, IF conf.version = "5" THEN password ELSE <<>>)
  /\ cpc \in {"ok", "sent"} /\ conf.op # "udp" =>
       /\ conf.op = "tcp" /\ handled.kind = "stream"
       /\ conf.plan[1] \in {"success", "lazy"}
  /\ cpc = "failed" => cconn \in {"none", "closed"}

\* The two applications read each other's bytes and nothing of the handshake:
\* no reply is sent twice, none is cut, and the server's reader has not taken
\* bytes that belong to the handler.  A handler that uses a LazyConn from two
\* goroutines has reported before it starts the second one.
SocksInSync ==
  /\ handled.kind = "stream" => rbuf = <<>>
  /\ sgot \in {<<>>, Payload}
  /\ conf.plan[1] = "success" => cgot \in {<<>>, Data}

\* A packet that the handler reads is one that the client wrote, with its
\* destination in canonical form, however datagrams are lost and repeated, or
\* one that a stranger sent, as it was sent: nothing checks whose it is.
PacketsAsWritten ==
  \A p \in received :
    \/ p[1] = "client" /\ \E w \in wrote : p[2] = Unwrap(w[1]) /\ p[3] = w[2]
    \/ p[1] = "stranger" /\ \E q \in Stray : LET r == ReadPacket(q)
                                              IN r.st = "ok" /\ p[2] = r.v /\ p[3] = r.rest

\* What the two ends hold of each other is what was said: see above.
SocksInv == SocksAgree /\ SocksInSync /\ PacketsAsWritten

\* The client's handshake ends, whatever the server answers, and so does
\* HandleConnectionEx: no two messages leave the ends waiting for each other.
\* Only a server without a timeout may wait for ever for the first datagram.
SocksEnds ==
  /\ <>(cpc \in {"ok", "sent", "failed"})
  /\ <>(/\ spc \notin {"auth", "request", "error"} /\ (spc = "version" => cconn = "none")
       /\ spc = "packet" => ~conf.udpTimeout)
=============================================================================
