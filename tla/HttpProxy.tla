------------------------------ MODULE HttpProxy ------------------------------
(***************************************************************************)
(* The HTTP proxy (src/protocol/http): the client's DialContext, which     *)
(* asks with CONNECT, and the server's HandleConnectionEx, a loop over the *)
(* requests of one connection: tunnels (CONNECT), upgrades, which become a *)
(* tunnel after the request was passed on, and plain requests, which it    *)
(* makes itself with an http.Client.                                       *)
(*                                                                         *)
(* net/http reads and writes the messages: a message is one unit of the    *)
(* stream, its body another one behind it, and payload are units too.  Both *)
(* ends read through a bufio.Reader, which takes all that is there.        *)
(***************************************************************************)
EXTENDS Naturals, Sequences

CONSTANTS Scripts,   \* requests that a client writes on one connection, one
                     \* after the other, whether they are answered or not
          Accounts,  \* <<username, password>> of the server's authenticator;
                     \* {} stands for no authenticator
          MaxPayload \* bound: units of payload in each direction

\* A request has an id (its place in the script), a method, its credentials
\* (<<>> for none), and says whether it asks to keep the connection, has a
\* body, names a scheme and a host, and has X-Forwarded-For.
ASSUME HttpAssumption ==
  /\ MaxPayload \in Nat
  /\ \A s \in Scripts : Len(s) \in Nat /\ \A i \in 1 .. Len(s) :
       /\ s[i].id = i /\ s[i].method \in {"CONNECT", "UPGRADE", "GET"}
       /\ s[i].keepAlive \in BOOLEAN /\ s[i].body \in BOOLEAN
       /\ s[i].absolute \in BOOLEAN /\ s[i].forwarded \in BOOLEAN

VARIABLES script, next,   \* the client's requests and the next one to write
          hup, hdown,     \* units under way
          hclient,        \* the client: "asks", "waits", "tunnel", "failed"
          hopen,          \* the server's end is open
          hbuf,           \* the server's bufio.Reader
          hpc,            \* the server: "read", "auth", "serve", "do", "tunnel", "error", "closed"
          request,        \* the one it serves
          bodyLeft,       \* http.Transport has not taken its body
          httpUser, httpSource,  \* ctx and source, which live as long as the loop;
                          \* 0 is the peer, i what request i said of itself
          cachedUp,       \* of the handler's CachedConn
          calls,          \* calls of the handler: <<request, user, source>>
          tunnelled,      \* what the handler of a tunnel has read
          sentUp, sentDown, \* payload that the ends have written
          answers         \* what the client has read

httpVars == <<script, next, hup, hdown, hclient, hopen, hbuf, hpc, request, bodyLeft, httpUser, httpSource,
              cachedUp, calls, tunnelled, sentUp, sentDown, answers>>
httpClientVars == <<script, next, hclient, sentUp, answers>>
httpServerVars == <<hopen, hbuf, hpc, request, bodyLeft, httpUser, httpSource, cachedUp, calls, tunnelled, sentDown>>

NoRequest == [id |-> 0]
Answer(status, id) == <<"answer", id, status>>
Piece(n) == <<"piece", n>>

HttpInit ==
  /\ script \in Scripts /\ next = 1 /\ hup = <<>> /\ hdown = <<>>
  /\ hclient = "asks" /\ hopen = TRUE /\ hbuf = <<>> /\ hpc = "read"
  /\ request = NoRequest /\ bodyLeft = FALSE /\ httpUser = <<>> /\ httpSource = 0
  /\ cachedUp = <<>> /\ calls = <<>> /\ tunnelled = <<>>
  /\ sentUp = 0 /\ sentDown = 0 /\ answers = <<>>

-----------------------------------------------------------------------------
\* The client writes a request.  The one of DialContext is the CONNECT that
\* keeps the connection; it waits for the answer.
ClientAsks ==
  /\ hclient = "asks" /\ next <= Len(script)
  /\ hup' = hup \o <<<<"request", script[next]>>>>
                \o (IF script[next].body THEN <<<<"body", next>>>> ELSE <<>>)
  /\ next' = next + 1
  /\ hclient' = IF script[next].method = "CONNECT" THEN "waits" ELSE "asks"
  /\ UNCHANGED <<script, sentUp, answers, hdown, httpServerVars>>

\* http.ReadResponse of DialContext: 200 makes the tunnel, and what the
\* reader has taken with the answer goes into a CachedConn in front of the
\* connection; everything else closes it.
ClientAnswer ==
  /\ hclient = "waits"
  /\ \/ /\ hdown # <<>>
        /\ answers' = Append(answers, Head(hdown)) /\ hdown' = Tail(hdown)
        /\ hclient' = IF Head(hdown)[1] = "answer" /\ Head(hdown)[3] = 200 THEN "tunnel" ELSE "failed"
     \/ /\ hdown = <<>> /\ ~hopen
        /\ hclient' = "failed" /\ UNCHANGED <<answers, hdown>>
  /\ UNCHANGED <<script, next, sentUp, hup, httpServerVars>>

\* Payload: through the tunnel, or right behind an upgrade.  A client that
\* does not wait for its answers reads them here.
ClientPayload ==
  /\ hclient = "tunnel" \/ (hclient = "asks" /\ next > 1 /\ script[next - 1].method = "UPGRADE")
  /\ sentUp < MaxPayload
  /\ sentUp' = sentUp + 1 /\ hup' = Append(hup, Piece(sentUp + 1))
  /\ UNCHANGED <<script, next, hclient, answers, hdown, httpServerVars>>

ClientReceives ==
  /\ hclient \in {"asks", "tunnel"} /\ hdown # <<>>
  /\ answers' = answers \o hdown /\ hdown' = <<>>
  /\ UNCHANGED <<script, next, hclient, sentUp, hup, httpServerVars>>

-----------------------------------------------------------------------------
HttpFill ==
  /\ hpc = "read" /\ hopen /\ hbuf = <<>> /\ hup # <<>>
  /\ hbuf' = hup /\ hup' = <<>>
  /\ UNCHANGED <<httpClientVars, hdown, hopen, hpc, request, bodyLeft, httpUser, httpSource, cachedUp,
                 calls, tunnelled, sentDown>>

\* ReadRequest: what is no request, the end of the stream, and an empty
\* buffer before a connection that a plain request has closed, end the loop
\* with an error.  A request in the buffer is read all the same.
ReadHttpRequest ==
  /\ hpc = "read"
  /\ \/ /\ hbuf # <<>> /\ Head(hbuf)[1] = "request"
        /\ request' = Head(hbuf)[2] /\ hbuf' = Tail(hbuf) /\ hpc' = "auth"
     \/ /\ \/ hbuf # <<>> /\ Head(hbuf)[1] # "request"
           \/ hbuf = <<>> /\ (~hopen \/ (hup = <<>> /\ hclient = "failed"))
        /\ hpc' = "error" /\ UNCHANGED <<request, hbuf>>
  /\ UNCHANGED <<httpClientVars, hup, hdown, hopen, bodyLeft, httpUser, httpSource, cachedUp, calls,
                 tunnelled, sentDown>>

\* A Write to the client: what follows it, unless the connection is closed.
Answers(status, pc) ==
  IF hopen THEN hdown' = Append(hdown, Answer(status, request.id)) /\ hpc' = pc
  ELSE hpc' = "error" /\ UNCHANGED hdown

\* The check of Proxy-Authorization; 407 keeps a connection that asks for it,
\* when no body is left in the stream.
Authorised == Accounts # {} => request.credentials \in Accounts

Keeps407 == request.keepAlive /\ ~request.body

\* The address in X-Forwarded-For, when there is one; RemoteAddr, which the
\* reader of a request leaves empty, is none.
SourceAddress == IF request.forwarded THEN request.id ELSE 0

CheckAuthorization ==
  /\ hpc = "auth"
  /\ IF Authorised
     THEN /\ httpUser' = IF Accounts # {} THEN request.credentials[1] ELSE httpUser
          /\ httpSource' = IF SourceAddress # 0 THEN SourceAddress ELSE httpSource
          /\ hpc' = "serve" /\ UNCHANGED hdown
     ELSE /\ Answers(407, IF Keeps407 THEN "read" ELSE "error")
          /\ UNCHANGED <<httpUser, httpSource>>
  /\ UNCHANGED <<httpClientVars, hup, hopen, hbuf, request, bodyLeft, cachedUp, calls, tunnelled, sentDown>>

Call == calls' = Append(calls, <<request, httpUser, httpSource>>)

\* Mutation: the handler gets the connection without what was read ahead.
ConnectUncached ==
  /\ hpc = "serve" /\ request.method = "CONNECT" /\ Answers(200, "tunnel")
  /\ cachedUp' = <<>>
  /\ IF hopen THEN hbuf' = <<>> /\ Call ELSE UNCHANGED <<hbuf, calls>>
  /\ UNCHANGED <<httpClientVars, hup, hopen, request, bodyLeft, httpUser, httpSource, tunnelled, sentDown>>

\* CONNECT: the answer goes before the handler is called, and what the reader
\* has taken ahead goes into a CachedConn.
Connect ==
  /\ hpc = "serve" /\ request.method = "CONNECT" /\ Answers(200, "tunnel")
  /\ IF hopen THEN cachedUp' = hbuf /\ hbuf' = <<>> /\ Call ELSE UNCHANGED <<cachedUp, hbuf, calls>>
  /\ UNCHANGED <<httpClientVars, hup, hopen, request, bodyLeft, httpUser, httpSource, tunnelled, sentDown>>

\* An upgrade: request.Write to the pipe that the handler reads, the bytes
\* that were taken ahead, and then bufio.CopyConn; the write may fail when
\* the handler closes the pipe, and CopyConn does when the connection is closed.
Upgrade ==
  /\ hpc = "serve" /\ request.method = "UPGRADE"
  /\ Call
  /\ \/ /\ hopen /\ tunnelled' = <<<<"request", request>>>> /\ cachedUp' = hbuf /\ hbuf' = <<>>
        /\ hpc' = "tunnel"
     \/ hpc' = "error" /\ UNCHANGED <<tunnelled, cachedUp, hbuf>>
  /\ UNCHANGED <<httpClientVars, hup, hdown, hopen, request, bodyLeft, httpUser, httpSource, sentDown>>

\* handleHTTPConnection.  A request without scheme or host is answered 400,
\* and its body stays in the stream.
BadRequest ==
  /\ hpc = "serve" /\ request.method = "GET" /\ ~request.absolute /\ Answers(400, "read")
  /\ UNCHANGED <<httpClientVars, hup, hopen, hbuf, request, bodyLeft, httpUser, httpSource, cachedUp,
                 calls, tunnelled, sentDown>>

\* Otherwise http.Client.Do calls the handler, and the transport writes the
\* request to it in a goroutine of its own.
Do ==
  /\ hpc = "serve" /\ request.method = "GET" /\ request.absolute
  /\ Call /\ bodyLeft' = request.body /\ hpc' = "do"
  /\ UNCHANGED <<httpClientVars, hup, hdown, hopen, hbuf, request, httpUser, httpSource, cachedUp,
                 tunnelled, sentDown>>

\* That goroutine reads the body from the loop's reader: before the response,
\* or after it, when the loop may already be reading there.
TakesBody ==
  /\ hpc \in {"do", "read"} /\ bodyLeft /\ bodyLeft' = FALSE
  /\ IF hbuf # <<>> THEN hbuf' = Tail(hbuf) /\ UNCHANGED hup
     ELSE hopen /\ hup # <<>> /\ hup' = Tail(hup) /\ UNCHANGED hbuf
  /\ UNCHANGED <<httpClientVars, hdown, hopen, hpc, request, httpUser, httpSource, cachedUp, calls,
                 tunnelled, sentDown>>

\* response.Close = !keepAlive, and the Close after the response.
StaysOpen == request.keepAlive

\* The response: the Close behind it returns nil, and the loop goes on.
DoAnswers ==
  /\ hpc = "do" /\ Answers(200, "read") /\ hopen' = (hopen /\ StaysOpen)
  /\ UNCHANGED <<httpClientVars, hup, hbuf, request, bodyLeft, httpUser, httpSource, cachedUp, calls,
                 tunnelled, sentDown>>

\* An error of Do is answered 502 and ends the loop.
DoFails ==
  /\ hpc = "do" /\ Answers(502, "error")
  /\ UNCHANGED <<httpClientVars, hup, hopen, hbuf, request, bodyLeft, httpUser, httpSource, cachedUp,
                 calls, tunnelled, sentDown>>

\* The caller of HandleConnectionEx closes the connection after an error.
HttpCallerCloses ==
  /\ hpc = "error" /\ hpc' = "closed" /\ hopen' = FALSE
  /\ UNCHANGED <<httpClientVars, hup, hdown, hbuf, request, bodyLeft, httpUser, httpSource, cachedUp, calls,
                 tunnelled, sentDown>>

\* The handler of a tunnel reads the cached bytes first, and writes.
TunnelReads ==
  /\ hpc = "tunnel"
  /\ IF cachedUp # <<>>
     THEN tunnelled' = tunnelled \o cachedUp /\ cachedUp' = <<>> /\ UNCHANGED hup
     ELSE hup # <<>> /\ tunnelled' = tunnelled \o hup /\ hup' = <<>> /\ UNCHANGED cachedUp
  /\ UNCHANGED <<httpClientVars, hdown, hopen, hbuf, hpc, request, bodyLeft, httpUser, httpSource, calls,
                 sentDown>>

TunnelWrites ==
  /\ hpc = "tunnel" /\ sentDown < MaxPayload
  /\ sentDown' = sentDown + 1 /\ hdown' = Append(hdown, Piece(sentDown + 1))
  /\ UNCHANGED <<httpClientVars, hup, hopen, hbuf, hpc, request, bodyLeft, httpUser, httpSource,
                 cachedUp, calls, tunnelled>>

\* What the server does by itself, and what waits for the handler.
HttpServer == HttpFill \/ ReadHttpRequest \/ CheckAuthorization \/ Connect \/ BadRequest \/ Do
              \/ HttpCallerCloses
HttpTarget == Upgrade \/ TakesBody \/ DoAnswers \/ DoFails \/ TunnelReads \/ TunnelWrites
HttpNext == ClientAsks \/ ClientAnswer \/ ClientPayload \/ ClientReceives \/ HttpServer \/ HttpTarget
HttpSpec == HttpInit /\ [][HttpNext]_httpVars
            /\ WF_httpVars(HttpServer) /\ WF_httpVars(ClientAsks) /\ WF_httpVars(ClientAnswer)

-----------------------------------------------------------------------------
\* The units of a kind in s are numbered 1, 2, ..., n, in this order.
Numbered(s, kind, n) ==
  /\ \A i \in 1 .. Len(s) : s[i][1] = kind => s[i][2] \in 1 .. n
  /\ \A k \in 1 .. n : \E i \in 1 .. Len(s) : s[i][1] = kind /\ s[i][2] = k
  /\ \A i, j \in 1 .. Len(s) :
       i < j /\ s[i][1] = kind /\ s[j][1] = kind => s[i][2] < s[j][2]

\* A request that is answered 400 leaves its body in the stream.
BodyStays == \E i \in 1 .. Len(script) :
  script[i].body /\ script[i].method = "GET" /\ ~script[i].absolute

\* Nothing of the stream is lost, repeated or taken for something else: a
\* tunnel carries the client's payload, all of it and in order, wherever the
\* readers' buffers end, and the client reads one answer to each of its
\* requests, in their order, and behind it the payload of the tunnel; no
\* body is read as a request, but one that the handler answered unread and
\* that http.Transport and the loop both read.
HttpInSync ==
  ~BodyStays =>
    /\ hpc = "tunnel" => Numbered(tunnelled \o cachedUp \o hup, "piece", sentUp)
    /\ hclient = "tunnel" => Numbered(answers \o hdown, "piece", sentDown)
    /\ \E n \in 0 .. Len(script) : Numbered(answers \o hdown, "answer", n)
    /\ hpc = "read" /\ hbuf # <<>> /\ ~bodyLeft => Head(hbuf)[1] # "body"

\* The handler is called for authorised requests only, and in the name of the
\* user who made the request; a refusal says so before anything is served.
HttpAuthorised ==
  \A i \in 1 .. Len(calls) :
    Accounts # {} =>
      /\ calls[i][1].credentials \in Accounts
      /\ calls[i][2] = calls[i][1].credentials[1]

\* After a plain request that asked not to keep the connection, the handler
\* is called for at most one more, which was in the reader's buffer: the loop
\* goes on after conn.Close, until it writes.
ClosedIsLast ==
  \A i \in 1 .. Len(calls) - 2 : calls[i][1].method = "GET" => calls[i][1].keepAlive

\* One stream of requests: in step, authorised, and over when it should be.
HttpInv == HttpInSync /\ HttpAuthorised /\ ClosedIsLast

\* DialContext returns: its CONNECT is answered, or the connection is closed;
\* unless a request before it waits for ever for its handler.
DialEnds == (hclient = "waits" ~> hclient \in {"tunnel", "failed"}) \/ <>[](hpc = "do")
=============================================================================
