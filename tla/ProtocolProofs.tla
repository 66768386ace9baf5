---------------------------- MODULE ProtocolProofs ----------------------------
(***************************************************************************)
(* The HTTP proxy for any scripts of a client, accounts and payload, UDP   *)
(* over TCP for any configurations, addresses and packets, and SOCKS for   *)
(* any destination, user, method and command.                              *)
(*                                                                         *)
(* HTTP: what the client has written and the server has not read, in its   *)
(* buffer and under way, is one stream: the requests behind the one in     *)
(* service, each with its body right behind it.  So the head of the stream *)
(* tells where the server is in it, and every way back to reading leaves a *)
(* request there, or payload, and exactly the requests before it answered. *)
(*                                                                         *)
(* UDP over TCP: the bytes under way say what is left to read only if they *)
(* are whole frames.  So the invariant says that they are the frames of    *)
(* the packets that were accepted and not yet delivered, behind the        *)
(* request as long as that is unread; and the lemmas before it, that a     *)
(* reader takes exactly one frame, or the request, off such a stream.      *)
(*                                                                         *)
(* SOCKS: a message is read as it was written only if it is whole and      *)
(* alone, for the server's bufio.Reader takes all that is there.  So the   *)
(* invariant names, for each thing the server may wait for, what the       *)
(* client waits for, the one message that may be on its way, in the        *)
(* connection or in the buffer, and the one reply on its way back; the     *)
(* lemmas before it say that each message is read as what was written.     *)
(***************************************************************************)
EXTENDS HttpProxy, Uot, Socks, SequenceTheorems, TLAPS

Requests == {script[i] : i \in 1 .. Len(script)}
UpUnit == ({"request"} \X Requests) \cup ({"body", "piece"} \X Nat)
DownUnit == ({"answer"} \X Nat \X Nat) \cup ({"piece"} \X Nat)
HttpUsers == {<< >>} \cup {a[1] : a \in Accounts}

HttpState ==
  /\ script \in Scripts /\ next \in 1 .. Len(script) + 1
  /\ hup \in Seq(UpUnit) /\ hbuf \in Seq(UpUnit)
  /\ cachedUp \in Seq(UpUnit) /\ tunnelled \in Seq(UpUnit)
  /\ hdown \in Seq(DownUnit) /\ answers \in Seq(DownUnit)
  /\ hclient \in {"asks", "waits", "tunnel", "failed"} /\ hopen \in BOOLEAN
  /\ hpc \in {"read", "auth", "serve", "do", "tunnel", "error", "closed"} /\ bodyLeft \in BOOLEAN
  /\ request \in Requests \cup {NoRequest}
  /\ hpc \in {"auth", "serve", "do"} => request \in Requests
  /\ httpUser \in HttpUsers /\ httpSource \in Nat
  /\ calls \in Seq(Requests \X HttpUsers \X Nat)
  /\ sentUp \in Nat /\ sentDown \in Nat

\* The stream behind the server: requests a + 1, ..., b in this order, and a
\* body right behind each request that has one, and nowhere else, but for
\* one at the head.
RequestsFollow(s, a, b) ==
  /\ \A i \in 1 .. Len(s) : s[i][1] = "request" => s[i][2].id \in a + 1 .. b
  /\ \A k \in a + 1 .. b : \E i \in 1 .. Len(s) : s[i][1] = "request" /\ s[i][2].id = k
  /\ \A i, j \in 1 .. Len(s) :
       i < j /\ s[i][1] = "request" /\ s[j][1] = "request" => s[i][2].id < s[j][2].id
BodiesFollow(s) ==
  /\ \A i \in 2 .. Len(s) : s[i][1] = "body" => s[i - 1][1] = "request" /\ s[i - 1][2].body
  /\ \A i \in 1 .. Len(s) :
       s[i][1] = "request" /\ s[i][2].body => i + 1 \in 1 .. Len(s) /\ s[i + 1][1] = "body"
StreamOK(s, a, b) == RequestsFollow(s, a, b) /\ BodiesFollow(s)
HeadIsBody(s) == s # << >> /\ s[1][1] = "body"

\* The next thing to be read of the stream is a body: nobody has looked for it
\* yet, or http.Transport has not taken it.
Looking == hpc \in {"auth", "serve"}
BodyNext == IF Looking THEN request.body ELSE bodyLeft
InStep ==
  hpc \in {"read", "auth", "serve", "do"} =>
    /\ request.id <= next - 1
    /\ StreamOK(hbuf \o hup, request.id, next - 1)
    /\ HeadIsBody(hbuf \o hup) <=> BodyNext
    /\ Looking => ~bodyLeft

\* The payload, wherever it is.
PayloadUp ==
  /\ hpc # "tunnel" =>
       /\ tunnelled = << >> /\ cachedUp = << >>
       /\ Numbered(hbuf \o hup, "piece", sentUp)
  /\ hpc = "tunnel" =>
       /\ hbuf = << >>
       /\ Numbered(tunnelled \o cachedUp \o hup, "piece", sentUp)
PayloadDown == Numbered(answers \o hdown, "piece", sentDown)

\* All requests but the one in service are answered.
Answered ==
  /\ hpc = "read" => Numbered(answers \o hdown, "answer", request.id)
  /\ hpc \in {"auth", "serve", "do"} => Numbered(answers \o hdown, "answer", request.id - 1)
  /\ \E n \in 0 .. Len(script) : Numbered(answers \o hdown, "answer", n)

\* The request that is served has passed the check, and httpUser is its user.
ServesAuthorised ==
  hpc = "serve" /\ Accounts # {} =>
    request.credentials \in Accounts /\ httpUser = request.credentials[1]

\* But for the last n calls, all were for requests that keep the connection.
KeepBut(n) ==
  \A i \in 1 .. Len(calls) - n : calls[i][1].method = "GET" => calls[i][1].keepAlive

\* On an open connection a server that may read another request was asked to
\* keep it; on a closed one by all requests but the last.
KeepsWhileOpen ==
  /\ hpc \in {"read", "auth", "serve"} => KeepBut(IF hopen THEN 0 ELSE 1)
  /\ hpc = "do" => /\ KeepBut(IF hopen THEN 1 ELSE 2)
                   /\ Len(calls) > 0 /\ calls[Len(calls)][1] = request

HttpIInv ==
  /\ HttpState /\ (~BodyStays => InStep /\ PayloadUp /\ Answered) /\ PayloadDown
  /\ ServesAuthorised /\ HttpAuthorised /\ KeepsWhileOpen /\ ClosedIsLast

-----------------------------------------------------------------------------
LEMMA WiderUnits ==
  ASSUME NEW U, NEW V, U \subseteq V, NEW s \in Seq(U)
  PROVE  s \in Seq(V)
OBVIOUS

\* The units of a sequence with one more at its end, one less at its head, and
\* one more at its head.
LEMMA AppendUnits ==
  ASSUME NEW U, NEW s \in Seq(U), NEW x
  PROVE  /\ Len(s) \in Nat /\ Len(Append(s, x)) = Len(s) + 1
         /\ \A i \in 1 .. Len(s) : Append(s, x)[i] = s[i]
         /\ Append(s, x)[Len(s) + 1] = x
<1>1. s \in Seq(U \cup {x}) /\ x \in U \cup {x}
  BY WiderUnits, Zenon
<1> QED
  BY ONLY <1>1

LEMMA TailUnits ==
  ASSUME NEW U, NEW s \in Seq(U), s # << >>
  PROVE  /\ Tail(s) \in Seq(U) /\ Head(s) = s[1] /\ 1 \in 1 .. Len(s)
         /\ Len(s) \in Nat /\ Len(Tail(s)) = Len(s) - 1 /\ Len(s) >= 1
         /\ \A i \in 1 .. Len(s) - 1 : Tail(s)[i] = s[i + 1]
OBVIOUS

LEMMA ConsUnits ==
  ASSUME NEW U, NEW s \in Seq(U), NEW x \in U
  PROVE  /\ <<x>> \o s \in Seq(U) /\ Len(s) \in Nat /\ Len(<<x>> \o s) = Len(s) + 1
         /\ (<<x>> \o s)[1] = x
         /\ \A i \in 1 .. Len(s) : (<<x>> \o s)[i + 1] = s[i]
OBVIOUS

\* The numbers of a kind rise; only units of the kind count for them.
LEMMA NumbersRise ==
  ASSUME NEW s, NEW kind, NEW n, Numbered(s, kind, n),
         NEW i \in 1 .. Len(s), NEW j \in 1 .. Len(s), i < j, s[i][1] = kind, s[j][1] = kind
  PROVE  s[i][2] < s[j][2]
BY DEF Numbered

LEMMA AppendOther ==
  ASSUME NEW U, NEW s \in Seq(U), NEW x, NEW kind, NEW n \in Nat,
         Numbered(s, kind, n), x[1] # kind
  PROVE  Numbered(Append(s, x), kind, n)
<1> DEFINE t == Append(s, x)
<1>1. /\ Len(s) \in Nat /\ Len(t) = Len(s) + 1
      /\ \A i \in 1 .. Len(s) : t[i] = s[i]
      /\ t[Len(s) + 1] = x
  BY AppendUnits, Zenon
<1> HIDE DEF t
<1>2. \A i \in 1 .. Len(s) : i \in 1 .. Len(t) /\ t[i] = s[i]
  BY <1>1
<1>3. \A i \in 1 .. Len(t) : t[i][1] = kind => i \in 1 .. Len(s) /\ t[i] = s[i]
  BY <1>1
<1>4. \A i \in 1 .. Len(t) : t[i][1] = kind => t[i][2] \in 1 .. n
  BY <1>3, Zenon DEF Numbered
<1>5. ASSUME NEW k \in 1 .. n
      PROVE  \E i \in 1 .. Len(t) : t[i][1] = kind /\ t[i][2] = k
  <2>1. PICK i \in 1 .. Len(s) : s[i][1] = kind /\ s[i][2] = k
    BY Zenon DEF Numbered
  <2> QED
    BY <1>2, <2>1, Zenon
<1>6. ASSUME NEW i \in 1 .. Len(t), NEW j \in 1 .. Len(t), i < j, t[i][1] = kind, t[j][1] = kind
      PROVE  t[i][2] < t[j][2]
  <2>1. i \in 1 .. Len(s) /\ t[i] = s[i] /\ j \in 1 .. Len(s) /\ t[j] = s[j]
    BY <1>3, <1>6, Zenon
  <2>2. s[i][1] = kind /\ s[j][1] = kind
    BY <1>6, <2>1, Zenon
  <2>3. s[i][2] < s[j][2]
    BY <1>6, <2>1, <2>2, NumbersRise, Zenon
  <2> QED
    BY <2>1, <2>3, Zenon
<1> QED
  BY <1>4, <1>5, <1>6, Zenon DEF Numbered, t

LEMMA AppendNumber ==
  ASSUME NEW U, NEW s \in Seq(U), NEW x, NEW kind, NEW n \in Nat,
         Numbered(s, kind, n), x[1] = kind, x[2] = n + 1
  PROVE  Numbered(Append(s, x), kind, n + 1)
<1> DEFINE t == Append(s, x)
<1>1. /\ Len(s) \in Nat /\ Len(t) = Len(s) + 1
      /\ \A i \in 1 .. Len(s) : t[i] = s[i]
      /\ t[Len(s) + 1] = x
  BY AppendUnits, Zenon
<1> HIDE DEF t
<1>2. \A i \in 1 .. Len(t) : i \in 1 .. Len(s) \/ i = Len(s) + 1
  BY <1>1
<1>3. \A i \in 1 .. Len(t) : t[i][1] = kind => t[i][2] \in 1 .. n + 1
  BY <1>1, <1>2 DEF Numbered
<1>4. ASSUME NEW k \in 1 .. n + 1
      PROVE  \E i \in 1 .. Len(t) : t[i][1] = kind /\ t[i][2] = k
  <2>1. CASE k = n + 1
    BY <1>1, <2>1
  <2>2. CASE k # n + 1
    <3>1. PICK i \in 1 .. Len(s) : s[i][1] = kind /\ s[i][2] = k
      BY <2>2 DEF Numbered
    <3> QED
      BY <1>1, <3>1
  <2> QED
    BY <2>1, <2>2
<1>5. \A i, j \in 1 .. Len(t) :
        i < j /\ t[i][1] = kind /\ t[j][1] = kind => t[i][2] < t[j][2]
  <2> SUFFICES ASSUME NEW i \in 1 .. Len(t), NEW j \in 1 .. Len(t),
                      i < j, t[i][1] = kind, t[j][1] = kind
               PROVE  t[i][2] < t[j][2]
    OBVIOUS
  <2>1. i \in 1 .. Len(s) /\ t[i] = s[i]
    BY ONLY <1>1, i \in 1 .. Len(t), j \in 1 .. Len(t), i < j
  <2>2. CASE j \in 1 .. Len(s)
    BY <1>1, <2>1, <2>2 DEF Numbered
  <2>3. CASE j = Len(s) + 1
    <3>1. t[i][2] \in 1 .. n /\ t[j][2] = n + 1
      BY <1>1, <2>1, <2>3 DEF Numbered
    <3> QED
      BY ONLY <3>1, n \in Nat
  <2> QED
    BY <1>2, <2>2, <2>3
<1> QED
  BY <1>3, <1>4, <1>5, Zenon DEF Numbered, t

LEMMA TailOther ==
  ASSUME NEW U, NEW s \in Seq(U), s # << >>, NEW kind, NEW n \in Nat,
         Numbered(s, kind, n), s[1][1] # kind
  PROVE  Numbered(Tail(s), kind, n)
<1> DEFINE t == Tail(s)
<1>1. /\ Len(s) \in Nat /\ Len(s) >= 1 /\ Len(t) = Len(s) - 1
      /\ \A i \in 1 .. Len(s) - 1 : t[i] = s[i + 1]
  BY TailUnits, Zenon
<1> HIDE DEF t
<1>2. \A i \in 1 .. Len(t) : i + 1 \in 1 .. Len(s) /\ t[i] = s[i + 1]
  BY <1>1
<1>3. \A k \in 1 .. n : \E i \in 1 .. Len(t) : t[i][1] = kind /\ t[i][2] = k
  <2> SUFFICES ASSUME NEW k \in 1 .. n
               PROVE  \E i \in 1 .. Len(t) : t[i][1] = kind /\ t[i][2] = k
    OBVIOUS
  <2>1. PICK i \in 1 .. Len(s) : s[i][1] = kind /\ s[i][2] = k
    BY DEF Numbered
  <2>2. i # 1
    BY <2>1
  <2>3. i - 1 \in 1 .. Len(t) /\ t[i - 1] = s[i]
    BY <1>1, <2>2
  <2> QED
    BY <2>1, <2>3
<1>4. \A i, j \in 1 .. Len(t) :
        i < j /\ t[i][1] = kind /\ t[j][1] = kind => t[i][2] < t[j][2]
  <2> SUFFICES ASSUME NEW i \in 1 .. Len(t), NEW j \in 1 .. Len(t),
                      i < j, t[i][1] = kind, t[j][1] = kind
               PROVE  t[i][2] < t[j][2]
    OBVIOUS
  <2>1. /\ i + 1 \in 1 .. Len(s) /\ t[i] = s[i + 1]
        /\ j + 1 \in 1 .. Len(s) /\ t[j] = s[j + 1] /\ i + 1 < j + 1
    BY <1>2
  <2>2. s[i + 1][2] < s[j + 1][2]
    BY <2>1, NumbersRise, Zenon
  <2> QED
    BY <2>1, <2>2, Zenon
<1>5. \A i \in 1 .. Len(t) : t[i][1] = kind => t[i][2] \in 1 .. n
  BY <1>2 DEF Numbered
<1> QED
  BY <1>3, <1>4, <1>5, Zenon DEF Numbered, t

LEMMA ConsOther ==
  ASSUME NEW U, NEW s \in Seq(U), NEW x \in U, NEW kind, NEW n \in Nat,
         Numbered(s, kind, n), x[1] # kind
  PROVE  Numbered(<<x>> \o s, kind, n)
<1> DEFINE t == <<x>> \o s
<1>1. /\ Len(s) \in Nat /\ Len(t) = Len(s) + 1 /\ t[1] = x
      /\ \A i \in 1 .. Len(s) : t[i + 1] = s[i]
  BY ConsUnits
<1> HIDE DEF t
<1>2. \A i \in 1 .. Len(t) : i # 1 => i - 1 \in 1 .. Len(s) /\ t[i] = s[i - 1]
  BY <1>1
<1>3. \A i \in 1 .. Len(t) : t[i][1] = kind => i # 1
  BY <1>1
<1>4. \A k \in 1 .. n : \E i \in 1 .. Len(t) : t[i][1] = kind /\ t[i][2] = k
  <2> SUFFICES ASSUME NEW k \in 1 .. n
               PROVE  \E i \in 1 .. Len(t) : t[i][1] = kind /\ t[i][2] = k
    OBVIOUS
  <2>1. PICK i \in 1 .. Len(s) : s[i][1] = kind /\ s[i][2] = k
    BY DEF Numbered
  <2>2. i + 1 \in 1 .. Len(t) /\ t[i + 1] = s[i]
    BY <1>1
  <2> QED
    BY <2>1, <2>2
<1>5. \A i, j \in 1 .. Len(t) :
        i < j /\ t[i][1] = kind /\ t[j][1] = kind => t[i][2] < t[j][2]
  <2> SUFFICES ASSUME NEW i \in 1 .. Len(t), NEW j \in 1 .. Len(t),
                      i < j, t[i][1] = kind, t[j][1] = kind
               PROVE  t[i][2] < t[j][2]
    OBVIOUS
  <2>1. /\ i - 1 \in 1 .. Len(s) /\ t[i] = s[i - 1]
        /\ j - 1 \in 1 .. Len(s) /\ t[j] = s[j - 1] /\ i - 1 < j - 1
    BY <1>2, <1>3
  <2>2. s[i - 1][2] < s[j - 1][2]
    BY <2>1, NumbersRise, Zenon
  <2> QED
    BY <2>1, <2>2, Zenon
<1>6. \A i \in 1 .. Len(t) : t[i][1] = kind => t[i][2] \in 1 .. n
  BY <1>2, <1>3 DEF Numbered
<1> QED
  BY <1>4, <1>5, <1>6, Zenon DEF Numbered, t

LEMMA EmptyNumbered ==
  ASSUME NEW kind
  PROVE  Numbered(<< >>, kind, 0)
BY DEF Numbered
-----------------------------------------------------------------------------
\* The requests of the stream, when the client writes one, or something else.
LEMMA RequestsRise ==
  ASSUME NEW s, NEW a, NEW b, RequestsFollow(s, a, b),
         NEW i \in 1 .. Len(s), NEW j \in 1 .. Len(s), i < j,
         s[i][1] = "request", s[j][1] = "request"
  PROVE  s[i][2].id < s[j][2].id
BY DEF RequestsFollow

LEMMA RequestAppended ==
  ASSUME NEW U, NEW s \in Seq(U), NEW r, NEW a \in Nat, NEW b \in Nat, a <= b,
         RequestsFollow(s, a, b), r.id = b + 1
  PROVE  RequestsFollow(Append(s, <<"request", r>>), a, b + 1)
<1> DEFINE t == Append(s, <<"request", r>>)
<1>1. /\ Len(s) \in Nat /\ Len(t) = Len(s) + 1
      /\ \A i \in 1 .. Len(s) : t[i] = s[i]
      /\ t[Len(s) + 1] = <<"request", r>>
  BY AppendUnits, Zenon
<1> HIDE DEF t
<1>2. \A i \in 1 .. Len(t) : i \in 1 .. Len(s) \/ i = Len(s) + 1
  BY <1>1
<1>3. \A i \in 1 .. Len(t) : t[i][1] = "request" => t[i][2].id \in a + 1 .. b + 1
  BY <1>1, <1>2 DEF RequestsFollow
<1>4. ASSUME NEW k \in a + 1 .. b + 1
      PROVE  \E i \in 1 .. Len(t) : t[i][1] = "request" /\ t[i][2].id = k
  <2>1. CASE k = b + 1
    BY <1>1, <2>1
  <2>2. CASE k # b + 1
    <3>1. k \in a + 1 .. b
      BY <2>2
    <3>2. PICK i \in 1 .. Len(s) : s[i][1] = "request" /\ s[i][2].id = k
      BY <3>1, Zenon DEF RequestsFollow
    <3> QED
      BY <1>1, <3>2
  <2> QED
    BY <2>1, <2>2
<1>5. \A i, j \in 1 .. Len(t) :
        i < j /\ t[i][1] = "request" /\ t[j][1] = "request" => t[i][2].id < t[j][2].id
  <2> SUFFICES ASSUME NEW i \in 1 .. Len(t), NEW j \in 1 .. Len(t),
                      i < j, t[i][1] = "request", t[j][1] = "request"
               PROVE  t[i][2].id < t[j][2].id
    OBVIOUS
  <2>1. i \in 1 .. Len(s) /\ t[i] = s[i]
    BY ONLY <1>1, i \in 1 .. Len(t), j \in 1 .. Len(t), i < j
  <2>2. CASE j \in 1 .. Len(s)
    BY <1>1, <2>1, <2>2 DEF RequestsFollow
  <2>3. CASE j = Len(s) + 1
    <3>1. t[i][2].id \in a + 1 .. b /\ t[j][2].id = b + 1
      <4>1. t[i][2].id \in a + 1 .. b
        BY <2>1 DEF RequestsFollow
      <4>2. t[j] = <<"request", r>>
        BY <1>1, <2>3, Zenon
      <4>3. t[j][2] = r
        BY ONLY <4>2
      <4> QED
        BY <4>1, <4>3, Zenon
    <3> QED
      BY ONLY <3>1, a \in Nat, b \in Nat
  <2> QED
    BY <1>2, <2>2, <2>3
<1> QED
  BY <1>3, <1>4, <1>5, Zenon DEF RequestsFollow, t

LEMMA OtherAppended ==
  ASSUME NEW U, NEW s \in Seq(U), NEW x, NEW a \in Nat, NEW b \in Nat,
         RequestsFollow(s, a, b), x[1] # "request"
  PROVE  RequestsFollow(Append(s, x), a, b)
<1> DEFINE t == Append(s, x)
<1>1. /\ Len(s) \in Nat /\ Len(t) = Len(s) + 1
      /\ \A i \in 1 .. Len(s) : t[i] = s[i]
      /\ t[Len(s) + 1] = x
  BY AppendUnits, Zenon
<1> HIDE DEF t
<1>2. \A i \in 1 .. Len(s) : i \in 1 .. Len(t) /\ t[i] = s[i]
  BY <1>1
<1>3. \A i \in 1 .. Len(t) : t[i][1] = "request" => i \in 1 .. Len(s)
  BY <1>1
<1> QED
  BY <1>2, <1>3, Zenon DEF RequestsFollow, t

\* The bodies, and the head of the stream.
LEMMA HeadStays ==
  ASSUME NEW U, NEW s \in Seq(U), NEW x, x[1] # "body"
  PROVE  HeadIsBody(Append(s, x)) <=> HeadIsBody(s)
<1>1. /\ Len(s) \in Nat /\ Len(Append(s, x)) = Len(s) + 1
      /\ \A i \in 1 .. Len(s) : Append(s, x)[i] = s[i]
      /\ Append(s, x)[Len(s) + 1] = x
  BY AppendUnits, Zenon
<1>2. CASE s = << >>
  BY <1>1, <1>2 DEF HeadIsBody
<1>3. CASE s # << >>
  <2>1. 1 \in 1 .. Len(s) /\ Append(s, x) # << >>
    BY <1>1, <1>3, EmptySeq
  <2> QED
    BY <1>1, <1>3, <2>1 DEF HeadIsBody
<1> QED
  BY <1>2, <1>3

LEMMA BodilessAppended ==
  ASSUME NEW U, NEW s \in Seq(U), NEW x, BodiesFollow(s),
         x[1] # "body", ~(x[1] = "request" /\ x[2].body)
  PROVE  BodiesFollow(Append(s, x))
<1> DEFINE t == Append(s, x)
<1>1. /\ Len(s) \in Nat /\ Len(t) = Len(s) + 1
      /\ \A i \in 1 .. Len(s) : t[i] = s[i]
      /\ t[Len(s) + 1] = x
  BY AppendUnits, Zenon
<1> HIDE DEF t
<1>2. \A i \in 1 .. Len(t) : i \in 1 .. Len(s) \/ i = Len(s) + 1
  BY <1>1
<1>3. ASSUME NEW i \in 2 .. Len(t), t[i][1] = "body"
      PROVE  t[i - 1][1] = "request" /\ t[i - 1][2].body
  <2>1. i \in 2 .. Len(s) /\ i - 1 \in 1 .. Len(s) /\ i \in 1 .. Len(s)
    BY <1>1, <1>3
  <2> QED
    BY <1>1, <1>3, <2>1 DEF BodiesFollow
<1>4. ASSUME NEW i \in 1 .. Len(t), t[i][1] = "request", t[i][2].body
      PROVE  i + 1 \in 1 .. Len(t) /\ t[i + 1][1] = "body"
  <2>1. i \in 1 .. Len(s)
    BY <1>1, <1>2, <1>4
  <2>2. i + 1 \in 1 .. Len(s) /\ s[i + 1][1] = "body"
    BY <1>1, <1>4, <2>1 DEF BodiesFollow
  <2> QED
    BY <1>1, <2>2
<1> QED
  BY <1>3, <1>4, Zenon DEF BodiesFollow, t

LEMMA BodyAppended ==
  ASSUME NEW U, NEW s \in Seq(U), NEW x, NEW y, BodiesFollow(s),
         x[1] = "request", x[2].body, y[1] = "body"
  PROVE  /\ BodiesFollow(Append(Append(s, x), y))
         /\ HeadIsBody(Append(Append(s, x), y)) <=> HeadIsBody(Append(s, x))
<1> DEFINE t == Append(Append(s, x), y)
<1>1. s \in Seq(U \cup {x}) /\ Append(s, x) \in Seq(U \cup {x})
  <2>1. s \in Seq(U \cup {x})
    BY WiderUnits, Zenon
  <2> QED
    BY ONLY <2>1
<1>2. /\ Len(s) \in Nat /\ Len(Append(s, x)) = Len(s) + 1
      /\ \A i \in 1 .. Len(s) : Append(s, x)[i] = s[i]
      /\ Append(s, x)[Len(s) + 1] = x
  BY AppendUnits, Zenon
<1>3. /\ Len(t) = Len(Append(s, x)) + 1
      /\ \A i \in 1 .. Len(Append(s, x)) : t[i] = Append(s, x)[i]
      /\ t[Len(Append(s, x)) + 1] = y
  <2> DEFINE p == Append(s, x)
  <2> HIDE DEF p
  <2>1. p \in Seq(U \cup {x})
    BY <1>1, Zenon DEF p
  <2>2. /\ Len(Append(p, y)) = Len(p) + 1
        /\ \A i \in 1 .. Len(p) : Append(p, y)[i] = p[i]
        /\ Append(p, y)[Len(p) + 1] = y
    BY ONLY <2>1
  <2> QED
    BY <2>2, Zenon DEF p
<1>4. t # << >> /\ Append(s, x) # << >>
  BY <1>2, <1>3, EmptySeq
<1> HIDE DEF t
<1>5. /\ Len(t) = Len(s) + 2 /\ t[Len(s) + 1] = x /\ t[Len(s) + 2] = y
      /\ \A i \in 1 .. Len(s) : t[i] = s[i]
      /\ t[1] = Append(s, x)[1]
  BY <1>2, <1>3
<1>6. \A i \in 1 .. Len(t) : i \in 1 .. Len(s) \/ i = Len(s) + 1 \/ i = Len(s) + 2
  BY <1>2, <1>5
<1>7. ASSUME NEW i \in 2 .. Len(t), t[i][1] = "body"
      PROVE  t[i - 1][1] = "request" /\ t[i - 1][2].body
  <2>1. CASE i \in 2 .. Len(s)
    <3>1. i - 1 \in 1 .. Len(s) /\ i \in 1 .. Len(s)
      BY <1>2, <2>1
    <3> QED
      BY <1>5, <1>7, <2>1, <3>1 DEF BodiesFollow
  <2>2. CASE i = Len(s) + 2
    BY <1>2, <1>5, <2>2
  <2>3. i # Len(s) + 1
    BY <1>5, <1>7
  <2> QED
    BY <1>2, <1>5, <2>1, <2>2, <2>3
<1>8. ASSUME NEW i \in 1 .. Len(t), t[i][1] = "request", t[i][2].body
      PROVE  i + 1 \in 1 .. Len(t) /\ t[i + 1][1] = "body"
  <2>1. CASE i \in 1 .. Len(s)
    <3>1. i + 1 \in 1 .. Len(s) /\ s[i + 1][1] = "body"
      BY <1>5, <1>8, <2>1 DEF BodiesFollow
    <3> QED
      BY <1>2, <1>5, <3>1
  <2>2. CASE i = Len(s) + 1
    BY <1>2, <1>5, <2>2
  <2>3. i # Len(s) + 2
    BY <1>5, <1>8
  <2> QED
    BY <1>6, <2>1, <2>2, <2>3
<1>9. HeadIsBody(t) <=> HeadIsBody(Append(s, x))
  BY <1>4, <1>5, Zenon DEF HeadIsBody, t
<1> QED
  BY <1>7, <1>8, <1>9, Zenon DEF BodiesFollow, t
\* The bodies of the stream without its head.
LEMMA BodiesTail ==
  ASSUME NEW U, NEW s \in Seq(U), s # << >>, BodiesFollow(s)
  PROVE  BodiesFollow(Tail(s))
<1> DEFINE t == Tail(s)
<1>1. /\ Len(s) \in Nat /\ Len(s) >= 1 /\ Len(t) = Len(s) - 1
      /\ \A i \in 1 .. Len(s) - 1 : t[i] = s[i + 1]
  BY TailUnits, Zenon
<1> HIDE DEF t
<1>2. \A i \in 1 .. Len(t) : i + 1 \in 1 .. Len(s) /\ t[i] = s[i + 1]
  BY <1>1
<1>3. ASSUME NEW i \in 2 .. Len(t), t[i][1] = "body"
      PROVE  t[i - 1][1] = "request" /\ t[i - 1][2].body
  <2>1. i + 1 \in 2 .. Len(s) /\ t[i] = s[i + 1] /\ t[i - 1] = s[(i + 1) - 1]
    BY <1>1
  <2> QED
    BY <1>3, <2>1, Zenon DEF BodiesFollow
<1>4. ASSUME NEW i \in 1 .. Len(t), t[i][1] = "request", t[i][2].body
      PROVE  i + 1 \in 1 .. Len(t) /\ t[i + 1][1] = "body"
  <2>1. (i + 1) + 1 \in 1 .. Len(s) /\ s[(i + 1) + 1][1] = "body"
    BY <1>2, <1>4, Zenon DEF BodiesFollow
  <2> QED
    BY <1>1, <2>1
<1> QED
  BY <1>3, <1>4, Zenon DEF BodiesFollow, t

\* The server takes the request at the head, or the body: the request is the
\* next one, and its body is next.
LEMMA RequestTaken ==
  ASSUME NEW U, NEW s \in Seq(U), s # << >>, NEW a \in Nat, NEW b \in Nat,
         StreamOK(s, a, b), s[1][1] = "request"
  PROVE  /\ s[1][2].id = a + 1 /\ a + 1 <= b
         /\ StreamOK(Tail(s), a + 1, b)
         /\ HeadIsBody(Tail(s)) <=> s[1][2].body
<1> DEFINE t == Tail(s)
<1>1. /\ Len(s) \in Nat /\ Len(s) >= 1 /\ Len(t) = Len(s) - 1
      /\ \A i \in 1 .. Len(s) - 1 : t[i] = s[i + 1]
      /\ t \in Seq(U) /\ 1 \in 1 .. Len(s)
  BY TailUnits, Zenon
<1> HIDE DEF t
<1>2. t # << >> <=> 2 \in 1 .. Len(s)
  <2>1. t # << >> <=> Len(t) # 0
    BY ONLY <1>1, EmptySeq
  <2> QED BY ONLY <1>1, <2>1
<1>3. \A i \in 1 .. Len(t) : i + 1 \in 1 .. Len(s) /\ t[i] = s[i + 1]
  BY <1>1
<1>4. s[1][2].id \in a + 1 .. b
  BY <1>1, Zenon DEF StreamOK, RequestsFollow
<1>5. \A i \in 1 .. Len(s) : i # 1 /\ s[i][1] = "request" => s[1][2].id < s[i][2].id
  <2> SUFFICES ASSUME NEW i \in 1 .. Len(s), i # 1, s[i][1] = "request"
               PROVE  s[1][2].id < s[i][2].id
    OBVIOUS
  <2>1. 1 < i
    BY <1>1
  <2> QED
    BY <1>1, <2>1, Zenon DEF StreamOK, RequestsFollow
<1>6. s[1][2].id = a + 1
  <2>1. a + 1 \in a + 1 .. b
    BY <1>4
  <2>2. PICK i \in 1 .. Len(s) : s[i][1] = "request" /\ s[i][2].id = a + 1
    BY <2>1, Zenon DEF StreamOK, RequestsFollow
  <2>3. CASE i = 1
    BY <2>2, <2>3
  <2>4. CASE i # 1
    <3>1. s[1][2].id < a + 1
      BY <1>5, <2>2, <2>4
    <3> QED
      BY ONLY <1>4, <3>1, a \in Nat, b \in Nat
  <2> QED
    BY <2>3, <2>4
<1>7. RequestsFollow(t, a + 1, b)
  <2>1. ASSUME NEW i \in 1 .. Len(t), t[i][1] = "request"
        PROVE  t[i][2].id \in a + 1 + 1 .. b
    <3>1. i + 1 \in 1 .. Len(s) /\ t[i] = s[i + 1] /\ i + 1 # 1
      BY <1>3
    <3>2. s[i + 1][2].id \in a + 1 .. b
      BY <2>1, <3>1, Zenon DEF StreamOK, RequestsFollow
    <3>3. s[1][2].id < s[i + 1][2].id
      BY <1>5, <2>1, <3>1, Zenon
    <3>4. t[i][2].id \in a + 1 .. b /\ a + 1 < t[i][2].id
      BY <1>6, <3>1, <3>2, <3>3, Zenon
    <3> QED
      BY ONLY <3>4, a \in Nat, b \in Nat
  <2>2. ASSUME NEW k \in a + 1 + 1 .. b
        PROVE  \E i \in 1 .. Len(t) : t[i][1] = "request" /\ t[i][2].id = k
    <3>1. k \in a + 1 .. b /\ k # a + 1
      OBVIOUS
    <3>2. PICK i \in 1 .. Len(s) : s[i][1] = "request" /\ s[i][2].id = k
      BY <3>1, Zenon DEF StreamOK, RequestsFollow
    <3>3. i # 1
      BY <1>6, <3>1, <3>2
    <3>4. i - 1 \in 1 .. Len(t) /\ t[i - 1] = s[i]
      BY <1>1, <3>3
    <3> QED
      BY <3>2, <3>4
  <2>3. ASSUME NEW i \in 1 .. Len(t), NEW j \in 1 .. Len(t),
               i < j, t[i][1] = "request", t[j][1] = "request"
        PROVE  t[i][2].id < t[j][2].id
    <3>1. /\ i + 1 \in 1 .. Len(s) /\ t[i] = s[i + 1]
          /\ j + 1 \in 1 .. Len(s) /\ t[j] = s[j + 1] /\ i + 1 < j + 1
      BY <1>3, <2>3
    <3>2. RequestsFollow(s, a, b) /\ s[i + 1][1] = "request" /\ s[j + 1][1] = "request"
      BY <2>3, <3>1, Zenon DEF StreamOK
    <3>3. s[i + 1][2].id < s[j + 1][2].id
      BY <3>1, <3>2, RequestsRise, Zenon
    <3> QED
      BY <3>1, <3>3, Zenon
  <2> QED
    BY <2>1, <2>2, <2>3, Zenon DEF RequestsFollow
<1>8. BodiesFollow(t)
  BY <1>1, BodiesTail, Zenon DEF StreamOK, t
<1>9. HeadIsBody(t) <=> s[1][2].body
  <2>1. ASSUME HeadIsBody(t)
        PROVE  s[1][2].body
    <3>1. 2 \in 2 .. Len(s) /\ s[2][1] = "body"
      BY <1>1, <1>2, <2>1 DEF HeadIsBody
    <3>2. s[2 - 1][2].body
      BY <3>1, Zenon DEF StreamOK, BodiesFollow
    <3> QED
      BY <3>2
  <2>2. ASSUME s[1][2].body
        PROVE  HeadIsBody(t)
    <3>1. 1 + 1 \in 1 .. Len(s) /\ s[1 + 1][1] = "body"
      BY <1>1, <2>2, Zenon DEF StreamOK, BodiesFollow
    <3>2. t # << >> /\ t[1] = s[1 + 1]
      BY <1>1, <1>2, <3>1
    <3> QED
      BY <3>1, <3>2 DEF HeadIsBody
  <2> QED
    BY <2>1, <2>2
<1> QED
  BY <1>4, <1>6, <1>7, <1>8, <1>9 DEF StreamOK, t
LEMMA BodyTaken ==
  ASSUME NEW U, NEW s \in Seq(U), s # << >>, NEW a \in Nat, NEW b \in Nat,
         StreamOK(s, a, b), s[1][1] = "body"
  PROVE  StreamOK(Tail(s), a, b) /\ ~HeadIsBody(Tail(s))
<1> DEFINE t == Tail(s)
<1>1. /\ Len(s) \in Nat /\ Len(s) >= 1 /\ Len(t) = Len(s) - 1
      /\ \A i \in 1 .. Len(s) - 1 : t[i] = s[i + 1]
      /\ t \in Seq(U) /\ 1 \in 1 .. Len(s)
  BY TailUnits, Zenon
<1> HIDE DEF t
<1>2. t # << >> => 2 \in 2 .. Len(s) /\ t[1] = s[2]
  <2>1. t # << >> <=> Len(t) # 0
    BY ONLY <1>1, EmptySeq
  <2> QED BY ONLY <1>1, <2>1
<1>3. \A i \in 1 .. Len(t) : i + 1 \in 1 .. Len(s) /\ t[i] = s[i + 1]
  BY <1>1
<1>4. RequestsFollow(t, a, b)
  <2>1. ASSUME NEW i \in 1 .. Len(t), t[i][1] = "request"
        PROVE  t[i][2].id \in a + 1 .. b
    <3>1. i + 1 \in 1 .. Len(s) /\ t[i] = s[i + 1]
      BY <1>3, Zenon
    <3>2. s[i + 1][2].id \in a + 1 .. b
      BY <2>1, <3>1, Zenon DEF StreamOK, RequestsFollow
    <3> QED
      BY <3>1, <3>2, Zenon
  <2>2. ASSUME NEW k \in a + 1 .. b
        PROVE  \E i \in 1 .. Len(t) : t[i][1] = "request" /\ t[i][2].id = k
    <3>1. PICK i \in 1 .. Len(s) : s[i][1] = "request" /\ s[i][2].id = k
      BY Zenon DEF StreamOK, RequestsFollow
    <3>2. i # 1
      BY <3>1
    <3>3. i - 1 \in 1 .. Len(t) /\ t[i - 1] = s[i]
      BY <1>1, <3>2
    <3> QED
      BY <3>1, <3>3
  <2>3. ASSUME NEW i \in 1 .. Len(t), NEW j \in 1 .. Len(t),
               i < j, t[i][1] = "request", t[j][1] = "request"
        PROVE  t[i][2].id < t[j][2].id
    <3>1. /\ i + 1 \in 1 .. Len(s) /\ t[i] = s[i + 1]
          /\ j + 1 \in 1 .. Len(s) /\ t[j] = s[j + 1] /\ i + 1 < j + 1
      BY <1>3, <2>3
    <3>2. RequestsFollow(s, a, b) /\ s[i + 1][1] = "request" /\ s[j + 1][1] = "request"
      BY <2>3, <3>1, Zenon DEF StreamOK
    <3>3. s[i + 1][2].id < s[j + 1][2].id
      BY <3>1, <3>2, RequestsRise, Zenon
    <3> QED
      BY <3>1, <3>3, Zenon
  <2> QED
    BY <2>1, <2>2, <2>3, Zenon DEF RequestsFollow
<1>5. BodiesFollow(t)
  BY BodiesTail, Zenon DEF StreamOK, t
<1>6. ~HeadIsBody(t)
  <2> SUFFICES ASSUME HeadIsBody(t)
               PROVE  FALSE
    OBVIOUS
  <2>1. 2 \in 2 .. Len(s) /\ s[2][1] = "body"
    BY <1>2, Zenon DEF HeadIsBody
  <2>2. s[2 - 1][1] = "request"
    BY <2>1, Zenon DEF StreamOK, BodiesFollow
  <2> QED
    BY <2>2
<1> QED
  BY <1>4, <1>5, <1>6 DEF StreamOK, t
-----------------------------------------------------------------------------
\* Sequences that are moved between two places.
LEMMA ConcatAppend ==
  ASSUME NEW U, NEW p \in Seq(U), NEW q \in Seq(U), NEW x \in U
  PROVE  /\ Append(q, x) \in Seq(U) /\ p \o q \in Seq(U)
         /\ p \o Append(q, x) = Append(p \o q, x)
<1>1. <<x>> \in Seq(U) /\ p \o q \in Seq(U) /\ Append(q, x) \in Seq(U)
  OBVIOUS
<1>2. Append(q, x) = q \o <<x>> /\ Append(p \o q, x) = (p \o q) \o <<x>>
  BY <1>1, AppendIsConcat, Zenon
<1>3. (p \o q) \o <<x>> = p \o (q \o <<x>>)
  BY <1>1, ConcatAssociative
<1> QED
  BY <1>1, <1>2, <1>3, Zenon

LEMMA SameSequence ==
  ASSUME NEW U, NEW p \in Seq(U), NEW q \in Seq(U), Len(p) = Len(q),
         \A i \in 1 .. Len(q) : p[i] = q[i]
  PROVE  p = q
OBVIOUS

LEMMA ConsTail ==
  ASSUME NEW U, NEW s \in Seq(U), NEW x \in U
  PROVE  /\ <<x>> \o s \in Seq(U) /\ <<x>> \o s # << >>
         /\ Tail(<<x>> \o s) = s /\ (<<x>> \o s)[1] = x
<1> DEFINE t == <<x>> \o s
<1>1. /\ t \in Seq(U) /\ Len(s) \in Nat /\ Len(t) = Len(s) + 1 /\ t[1] = x
      /\ \A i \in 1 .. Len(s) : t[i + 1] = s[i]
  BY ConsUnits
<1> HIDE DEF t
<1>2. t # << >>
  BY <1>1
<1>3. /\ Tail(t) \in Seq(U) /\ Len(Tail(t)) = Len(t) - 1
      /\ \A i \in 1 .. Len(t) - 1 : Tail(t)[i] = t[i + 1]
  BY <1>1, <1>2, TailUnits, Zenon
<1>4. Len(Tail(t)) = Len(s) /\ \A i \in 1 .. Len(s) : Tail(t)[i] = s[i]
  BY <1>1, <1>3
<1>5. Tail(t) = s
  BY <1>3, <1>4, SameSequence, Zenon
<1> QED
  BY <1>1, <1>2, <1>5, Zenon DEF t

LEMMA HeadTailConcat ==
  ASSUME NEW U, NEW p \in Seq(U), p # << >>
  PROVE  /\ p[1] \in U /\ p = <<p[1]>> \o Tail(p) /\ Head(p) = p[1]
         /\ Tail(p) \in Seq(U) /\ <<p[1]>> \in Seq(U)
<1>1. /\ Tail(p) \in Seq(U) /\ Head(p) = p[1] /\ 1 \in 1 .. Len(p)
      /\ Len(p) \in Nat /\ Len(Tail(p)) = Len(p) - 1 /\ Len(p) >= 1
      /\ \A i \in 1 .. Len(p) - 1 : Tail(p)[i] = p[i + 1]
  BY TailUnits, Zenon
<1>2. p[1] \in U
  BY <1>1
<1>3. /\ <<p[1]>> \o Tail(p) \in Seq(U) /\ Len(<<p[1]>> \o Tail(p)) = Len(p)
      /\ (<<p[1]>> \o Tail(p))[1] = p[1]
      /\ \A i \in 1 .. Len(p) - 1 : (<<p[1]>> \o Tail(p))[i + 1] = p[i + 1]
  BY <1>1, <1>2, ConsUnits
<1>4. \A i \in 1 .. Len(p) : (<<p[1]>> \o Tail(p))[i] = p[i]
  <2> SUFFICES ASSUME NEW i \in 1 .. Len(p), i # 1
               PROVE  (<<p[1]>> \o Tail(p))[i] = p[i]
    BY <1>3
  <2>1. i - 1 \in 1 .. Len(p) - 1 /\ (i - 1) + 1 = i
    BY <1>1
  <2> QED
    BY <1>3, <2>1
<1>5. p = <<p[1]>> \o Tail(p)
  BY <1>3, <1>4, SameSequence
<1> QED
  BY <1>1, <1>2, <1>5

LEMMA ConcatTail ==
  ASSUME NEW U, NEW p \in Seq(U), NEW q \in Seq(U), p # << >>
  PROVE  /\ p \o q \in Seq(U) /\ p \o q # << >>
         /\ Tail(p) \o q = Tail(p \o q)
         /\ (p \o q)[1] = p[1] /\ Head(p) = p[1]
<1>1. /\ Tail(p) \in Seq(U) /\ Head(p) = p[1] /\ 1 \in 1 .. Len(p)
      /\ Len(p) \in Nat /\ Len(Tail(p)) = Len(p) - 1 /\ Len(p) >= 1
      /\ \A i \in 1 .. Len(p) - 1 : Tail(p)[i] = p[i + 1]
  BY TailUnits, Zenon
<1>2. p[1] \in U /\ p = <<p[1]>> \o Tail(p)
  BY HeadTailConcat, Zenon
<1>3. <<p[1]>> \in Seq(U)
  BY <1>2
<1>4. p \o q = <<p[1]>> \o (Tail(p) \o q)
  <2>1. (<<p[1]>> \o Tail(p)) \o q = <<p[1]>> \o (Tail(p) \o q)
    BY <1>1, <1>3, ConcatAssociative
  <2> QED
    BY <1>2, <2>1, Zenon
<1>5. Tail(p) \o q \in Seq(U)
  BY <1>1
<1> DEFINE r == Tail(p) \o q
<1>6. Tail(<<p[1]>> \o r) = r /\ (<<p[1]>> \o r)[1] = p[1] /\ <<p[1]>> \o r # << >>
      /\ <<p[1]>> \o r \in Seq(U)
  <2> HIDE DEF r
  <2>1. r \in Seq(U)
    BY <1>5 DEF r
  <2> QED
    BY <1>2, <2>1, ConsTail
<1> QED
  BY <1>1, <1>4, <1>6, Zenon
-----------------------------------------------------------------------------
\* The script is the client's from the start.
LEMMA ScriptStays ==
  HttpNext => UNCHANGED script
BY DEF HttpNext, HttpServer, httpClientVars, ClientAsks, ClientAnswer, ClientPayload, ClientReceives,
       HttpFill, ReadHttpRequest, CheckAuthorization, Connect, Upgrade, BadRequest, Do, TakesBody,
       DoAnswers, DoFails, HttpCallerCloses, HttpTarget, TunnelReads, TunnelWrites

LEMMA SameUnits ==
  ASSUME UNCHANGED script
  PROVE  /\ Requests' = Requests /\ UpUnit' = UpUnit /\ DownUnit' = DownUnit
         /\ HttpUsers' = HttpUsers /\ (BodyStays' <=> BodyStays)
BY DEF Requests, UpUnit, DownUnit, HttpUsers, BodyStays

\* The requests of the script.
LEMMA RequestIs ==
  ASSUME HttpState, NEW r \in Requests
  PROVE  /\ r.id \in 1 .. Len(script) /\ r = script[r.id] /\ r # NoRequest
         /\ r.keepAlive \in BOOLEAN /\ r.body \in BOOLEAN /\ r.absolute \in BOOLEAN
         /\ r.forwarded \in BOOLEAN /\ r.method \in {"CONNECT", "UPGRADE", "GET"}
         /\ r.id \in Nat
<1>1. PICK i \in 1 .. Len(script) : r = script[i]
  BY Zenon DEF Requests
<1>2. script \in Scripts
  BY Zenon DEF HttpState
<1>3. /\ Len(script) \in Nat /\ script[i].id = i
      /\ script[i].method \in {"CONNECT", "UPGRADE", "GET"}
      /\ script[i].keepAlive \in BOOLEAN /\ script[i].body \in BOOLEAN
      /\ script[i].absolute \in BOOLEAN /\ script[i].forwarded \in BOOLEAN
  BY <1>2, HttpAssumption, Zenon
<1>4. i \in Nat /\ i # 0
  BY <1>3
<1>5. r.id = i /\ NoRequest.id = 0
  BY <1>1, <1>3 DEF NoRequest
<1> QED
  BY <1>1, <1>3, <1>4, <1>5, Zenon

LEMMA IdsAreNumbers ==
  ASSUME HttpState
  PROVE  request.id \in Nat /\ next \in Nat /\ next - 1 \in Nat /\ Len(script) \in Nat
<1>1. Len(script) \in Nat /\ next \in 1 .. Len(script) + 1
  BY HttpAssumption DEF HttpState
<1>2. NoRequest.id \in Nat
  BY DEF NoRequest
<1>3. request.id \in Nat
  BY <1>2, RequestIs DEF HttpState
<1> QED
  BY <1>1, <1>3

\* What the client writes next.
LEMMA AskedUnits ==
  ASSUME HttpState, next <= Len(script)
  PROVE  /\ script[next] \in Requests /\ script[next].id = next /\ next \in Nat
         /\ next + 1 \in 1 .. Len(script) + 1 /\ script[next].body \in BOOLEAN
         /\ <<"request", script[next]>> \in UpUnit /\ <<"body", next>> \in UpUnit
<1>1. script \in Scripts /\ next \in 1 .. Len(script) + 1
  BY DEF HttpState
<1>2. Len(script) \in Nat
  BY <1>1, HttpAssumption
<1>3. next \in 1 .. Len(script)
  BY <1>1, <1>2
<1>4. script[next] \in Requests /\ script[next].id = next /\ script[next].body \in BOOLEAN
  BY <1>1, <1>3, HttpAssumption, Zenon DEF Requests
<1>5. <<"request", script[next]>> \in UpUnit
  BY <1>4 DEF UpUnit
<1>6. next \in Nat /\ next + 1 \in 1 .. Len(script) + 1
  BY <1>2, <1>3
<1>7. <<"body", next>> \in UpUnit
  BY <1>6 DEF UpUnit
<1> QED
  BY <1>4, <1>5, <1>6, <1>7

\* The types hold at the start and after every step.
LEMMA HttpStateInit == HttpInit => HttpState
<1> SUFFICES ASSUME HttpInit
             PROVE  HttpState
  OBVIOUS
<1>1. script \in Scripts /\ Len(script) \in Nat
  BY HttpAssumption DEF HttpInit
<1>2. NoRequest.id = 0 /\ << >> \in HttpUsers
  BY DEF NoRequest, HttpUsers
<1>3. next \in 1 .. Len(script) + 1
  BY <1>1 DEF HttpInit
<1>4. << >> \in Seq(UpUnit) /\ << >> \in Seq(DownUnit) /\ << >> \in Seq(Requests \X HttpUsers \X Nat)
  BY EmptySeq
<1> QED
  BY <1>1, <1>2, <1>3, <1>4 DEF HttpInit, HttpState

LEMMA HttpStateClient ==
  ASSUME HttpState, UNCHANGED httpServerVars, UNCHANGED script,
         next' \in 1 .. Len(script) + 1,
         hup' \in Seq(UpUnit), hdown' \in Seq(DownUnit), answers' \in Seq(DownUnit),
         hclient' \in {"asks", "waits", "tunnel", "failed"}, sentUp' \in Nat
  PROVE  HttpState'
<1>1. Requests' = Requests /\ UpUnit' = UpUnit /\ DownUnit' = DownUnit /\ HttpUsers' = HttpUsers
  BY SameUnits, Zenon
<1> QED
  BY <1>1 DEF HttpState, httpServerVars
LEMMA HttpStateServer ==
  ASSUME HttpState, UNCHANGED httpClientVars,
         hup' \in Seq(UpUnit), hbuf' \in Seq(UpUnit), cachedUp' \in Seq(UpUnit),
         tunnelled' \in Seq(UpUnit), hdown' \in Seq(DownUnit), hopen' \in BOOLEAN,
         hpc' \in {"read", "auth", "serve", "do", "tunnel", "error", "closed"}, bodyLeft' \in BOOLEAN,
         request' \in Requests \cup {NoRequest},
         hpc' \in {"auth", "serve", "do"} => request' \in Requests,
         httpUser' \in HttpUsers, httpSource' \in Nat,
         calls' \in Seq(Requests \X HttpUsers \X Nat), sentDown' \in Nat
  PROVE  HttpState'
<1>1. Requests' = Requests /\ UpUnit' = UpUnit /\ DownUnit' = DownUnit /\ HttpUsers' = HttpUsers
  BY SameUnits DEF httpClientVars
<1> QED
  BY <1>1 DEF HttpState, httpClientVars

\* Answers and payload are units of the way down.
LEMMA DownUnits ==
  ASSUME NEW i \in Nat, NEW status \in Nat
  PROVE  Answer(status, i) \in DownUnit /\ Piece(i) \in DownUnit /\ Piece(i) \in UpUnit
BY DEF Answer, Piece, DownUnit, UpUnit

LEMMA HttpStateClientStep ==
  ASSUME HttpState, ClientAsks \/ ClientAnswer \/ ClientPayload \/ ClientReceives
  PROVE  HttpState'
<1> USE DEF HttpState
<1>1. Len(script) \in Nat /\ next \in Nat
  BY HttpAssumption
<1>2. CASE ClientAsks
  <2>1. hup \o <<<<"request", script[next]>>>> \in Seq(UpUnit)
    BY <1>2, AskedUnits DEF ClientAsks
  <2>2. (IF script[next].body THEN <<<<"body", next>>>> ELSE <<>>) \in Seq(UpUnit)
    BY <1>2, AskedUnits DEF ClientAsks
  <2>3. hup' \in Seq(UpUnit)
    <3>1. hup' = hup \o <<<<"request", script[next]>>>>
                   \o (IF script[next].body THEN <<<<"body", next>>>> ELSE <<>>)
      BY <1>2, Zenon DEF ClientAsks
    <3> QED
      BY ONLY <2>1, <2>2, <3>1
  <2>4. next' \in 1 .. Len(script) + 1
    <3>1. next <= Len(script) /\ next' = next + 1
      BY <1>2, Zenon DEF ClientAsks
    <3>2. 1 <= next
      BY ONLY <1>1, next \in 1 .. Len(script) + 1
    <3> QED
      BY ONLY <1>1, <3>1, <3>2
  <2>5. /\ UNCHANGED httpServerVars /\ UNCHANGED <<script, hdown, answers, sentUp>>
        /\ hclient' \in {"asks", "waits", "tunnel", "failed"}
    BY <1>2 DEF ClientAsks
  <2> QED
    BY <2>3, <2>4, <2>5, HttpStateClient
<1>3. CASE ClientAnswer
  <2>1. hdown' \in Seq(DownUnit) /\ answers' \in Seq(DownUnit)
    <3>1. hdown # << >> =>
            Tail(hdown) \in Seq(DownUnit) /\ Append(answers, Head(hdown)) \in Seq(DownUnit)
      BY ONLY hdown \in Seq(DownUnit), answers \in Seq(DownUnit)
    <3> QED
      BY <1>3, <3>1, Zenon DEF ClientAnswer
  <2>2. /\ UNCHANGED httpServerVars /\ UNCHANGED <<script, next, hup, sentUp>>
        /\ hclient' \in {"asks", "waits", "tunnel", "failed"}
    BY <1>3 DEF ClientAnswer
  <2> QED
    BY <1>1, <2>1, <2>2, HttpStateClient
<1>4. CASE ClientPayload
  <2>1. sentUp' \in Nat /\ Piece(sentUp + 1) \in UpUnit
    BY <1>4, DownUnits DEF ClientPayload
  <2>2. hup' \in Seq(UpUnit)
    BY <1>4, <2>1 DEF ClientPayload
  <2>3. UNCHANGED httpServerVars /\ UNCHANGED <<script, next, hclient, answers, hdown>>
    BY <1>4 DEF ClientPayload
  <2> QED
    BY <1>1, <2>1, <2>2, <2>3, HttpStateClient
<1>5. CASE ClientReceives
  <2>1. hdown' \in Seq(DownUnit) /\ answers' \in Seq(DownUnit)
    BY <1>5 DEF ClientReceives
  <2>2. UNCHANGED httpServerVars /\ UNCHANGED <<script, next, hclient, sentUp, hup>>
    BY <1>5 DEF ClientReceives
  <2> QED
    BY <1>1, <2>1, <2>2, HttpStateClient
<1> QED
  BY <1>2, <1>3, <1>4, <1>5

\* The handler's calls, with the user of the loop.
LEMMA CallTyped ==
  ASSUME HttpState, hpc = "serve"
  PROVE  Append(calls, <<request, httpUser, httpSource>>) \in Seq(Requests \X HttpUsers \X Nat)
<1>1. <<request, httpUser, httpSource>> \in Requests \X HttpUsers \X Nat
  BY DEF HttpState
<1> QED
  BY <1>1 DEF HttpState

\* An answer is one more unit on its way down.
LEMMA AnswersTyped ==
  ASSUME HttpState, request \in Requests, NEW status \in Nat, NEW pc, Answers(status, pc)
  PROVE  hdown' \in Seq(DownUnit)
<1> DEFINE x == Answer(status, request.id)
<1>1. x \in DownUnit
  BY RequestIs, DownUnits
<1>2. (hdown' = Append(hdown, x) \/ hdown' = hdown) /\ hdown \in Seq(DownUnit)
  BY DEF Answers, HttpState
<1> HIDE DEF x
<1> QED BY ONLY <1>1, <1>2

LEMMA HttpStateServerStep ==
  ASSUME HttpState, HttpServer \/ HttpTarget
  PROVE  HttpState'
<1> USE DEF HttpState
<1>1. CASE HttpFill
  BY <1>1, HttpStateServer, EmptySeq DEF HttpFill
<1>2. CASE ReadHttpRequest
  <2>1. CASE /\ hbuf # << >> /\ Head(hbuf)[1] = "request" /\ request' = Head(hbuf)[2]
             /\ hbuf' = Tail(hbuf) /\ hpc' = "auth"
    <3>1. Head(hbuf) \in UpUnit /\ hbuf' \in Seq(UpUnit)
      BY <2>1
    <3>2. request' \in Requests
      BY <2>1, <3>1 DEF UpUnit
    <3> QED
      BY <1>2, <2>1, <3>1, <3>2, HttpStateServer DEF ReadHttpRequest
  <2>2. CASE hpc' = "error" /\ UNCHANGED <<request, hbuf>>
    BY <1>2, <2>2, HttpStateServer DEF ReadHttpRequest
  <2> QED
    BY <1>2, <2>1, <2>2 DEF ReadHttpRequest
<1>3. CASE CheckAuthorization
  <2>1. request \in Requests
    BY <1>3 DEF CheckAuthorization
  <2>2. request.id \in Nat
    BY <2>1, RequestIs
  <2>3. hdown' \in Seq(DownUnit)
    <3>0. 407 \in Nat
      OBVIOUS
    <3>1. ASSUME NEW pc, Answers(407, pc) PROVE hdown' \in Seq(DownUnit)
      BY ONLY HttpState, <2>1, <3>0, <3>1, AnswersTyped
    <3> QED
      BY <1>3, <3>1, Zenon DEF CheckAuthorization
  <2>4. httpUser' \in HttpUsers
    BY <1>3 DEF CheckAuthorization, Authorised, HttpUsers
  <2>5. httpSource' \in Nat
    BY <1>3, <2>2 DEF CheckAuthorization, SourceAddress
  <2>6. hpc' \in {"serve", "read", "error"}
    BY <1>3 DEF CheckAuthorization, Answers
  <2> QED
    BY <1>3, <2>1, <2>3, <2>4, <2>5, <2>6, HttpStateServer DEF CheckAuthorization
<1>4. CASE hpc \in {"serve", "do"} /\ (Connect \/ Upgrade \/ BadRequest \/ Do \/ DoAnswers \/ DoFails)
  <2>1. request \in Requests
    BY <1>4
  <2>2. request.keepAlive \in BOOLEAN /\ request.body \in BOOLEAN
    BY <2>1, RequestIs, Zenon
  <2>3. CASE Connect
    <3>0. 200 \in Nat /\ Answers(200, "tunnel")
      BY <2>3 DEF Connect
    <3>a. hdown' \in Seq(DownUnit)
      BY ONLY HttpState, <2>1, <3>0, AnswersTyped
    <3>1. hdown' \in Seq(DownUnit) /\ hpc' \in {"tunnel", "error"}
      BY <3>0, <3>a DEF Answers
    <3>2. cachedUp' \in Seq(UpUnit) /\ hbuf' \in Seq(UpUnit)
      BY <2>3, EmptySeq DEF Connect
    <3>3. calls' \in Seq(Requests \X HttpUsers \X Nat)
      BY <2>3, CallTyped DEF Connect, Call
    <3> QED
      BY <2>1, <2>3, <3>1, <3>2, <3>3, HttpStateServer DEF Connect
  <2>4. CASE Upgrade
    <3>1. <<<<"request", request>>>> \in Seq(UpUnit)
      BY <2>1 DEF UpUnit
    <3> QED
      BY <1>4, <2>1, <2>4, <3>1, CallTyped, HttpStateServer, EmptySeq DEF Upgrade, Call
  <2>5. CASE BadRequest
    <3>0. 400 \in Nat /\ Answers(400, "read")
      BY <2>5 DEF BadRequest
    <3>a. hdown' \in Seq(DownUnit)
      BY ONLY HttpState, <2>1, <3>0, AnswersTyped
    <3>1. hdown' \in Seq(DownUnit) /\ hpc' \in {"read", "error"}
      BY <3>0, <3>a DEF Answers
    <3> QED
      BY <2>1, <2>5, <3>1, HttpStateServer DEF BadRequest
  <2>6. CASE Do
    BY <1>4, <2>1, <2>2, <2>6, CallTyped, HttpStateServer DEF Do, Call
  <2>7. CASE DoAnswers
    <3>0. 200 \in Nat /\ Answers(200, "read") /\ hopen' \in BOOLEAN
      BY <2>7 DEF DoAnswers
    <3>a. hdown' \in Seq(DownUnit)
      BY ONLY HttpState, <2>1, <3>0, AnswersTyped
    <3>1. hdown' \in Seq(DownUnit) /\ hpc' \in {"read", "error"} /\ hopen' \in BOOLEAN
      BY <3>0, <3>a DEF Answers
    <3> QED
      BY <2>1, <2>7, <3>1, HttpStateServer DEF DoAnswers
  <2>8. CASE DoFails
    <3>0. 502 \in Nat /\ Answers(502, "error")
      BY <2>8 DEF DoFails
    <3>a. hdown' \in Seq(DownUnit)
      BY ONLY HttpState, <2>1, <3>0, AnswersTyped
    <3>1. hdown' \in Seq(DownUnit) /\ hpc' = "error"
      BY <3>0, <3>a DEF Answers
    <3> QED
      BY <2>1, <2>8, <3>1, HttpStateServer DEF DoFails
  <2> QED
    BY <1>4, <2>3, <2>4, <2>5, <2>6, <2>7, <2>8
<1>9. CASE TakesBody
  <2>1. hup' \in Seq(UpUnit) /\ hbuf' \in Seq(UpUnit)
    <3>1. /\ hup # << >> => Tail(hup) \in Seq(UpUnit)
          /\ hbuf # << >> => Tail(hbuf) \in Seq(UpUnit)
      BY ONLY hup \in Seq(UpUnit), hbuf \in Seq(UpUnit)
    <3> QED
      BY <1>9, <3>1, Zenon DEF TakesBody
  <2> QED
    BY <1>9, <2>1, HttpStateServer DEF TakesBody
<1>5. CASE HttpCallerCloses
  BY <1>5, HttpStateServer DEF HttpCallerCloses
<1>6. CASE TunnelReads
  <2>1. hup' \in Seq(UpUnit) /\ cachedUp' \in Seq(UpUnit) /\ tunnelled' \in Seq(UpUnit)
    <3>1. /\ tunnelled \o cachedUp \in Seq(UpUnit) /\ tunnelled \o hup \in Seq(UpUnit)
          /\ << >> \in Seq(UpUnit)
      BY ONLY hup \in Seq(UpUnit), cachedUp \in Seq(UpUnit), tunnelled \in Seq(UpUnit)
    <3> QED
      BY <1>6, <3>1, Zenon DEF TunnelReads
  <2> QED
    BY <1>6, <2>1, HttpStateServer DEF TunnelReads
<1>7. CASE TunnelWrites
  <2>1. sentDown' \in Nat /\ Piece(sentDown + 1) \in DownUnit
    BY <1>7, DownUnits DEF TunnelWrites
  <2>2. hdown' \in Seq(DownUnit)
    BY <1>7, <2>1 DEF TunnelWrites
  <2> QED
    BY <1>7, <2>1, <2>2, HttpStateServer DEF TunnelWrites
<1>8. Connect \/ Upgrade \/ BadRequest \/ Do \/ DoAnswers \/ DoFails => hpc \in {"serve", "do"}
  BY DEF Connect, Upgrade, BadRequest, Do, DoAnswers, DoFails
<1> QED
  BY <1>1, <1>2, <1>3, <1>4, <1>5, <1>6, <1>7, <1>8, <1>9 DEF HttpServer, HttpTarget
-----------------------------------------------------------------------------
\* What the handler was called for.
CallsInv == ServesAuthorised /\ HttpAuthorised /\ KeepsWhileOpen /\ ClosedIsLast

LEMMA CallsKept ==
  ASSUME CallsInv, UNCHANGED <<calls, hpc, hopen, request, httpUser>>
  PROVE  CallsInv'
BY DEF CallsInv, ServesAuthorised, HttpAuthorised, KeepsWhileOpen, KeepBut, ClosedIsLast

\* The handler is called, by a server that reads no other request before that
\* one is over.
LEMMA CallsCalled ==
  ASSUME HttpState, CallsInv, hpc = "serve", Call, UNCHANGED <<hopen, request>>,
         hpc' \in {"do", "tunnel", "error"}
  PROVE  CallsInv'
<1> DEFINE x == <<request, httpUser, httpSource>>
<1>1. /\ Len(calls) \in Nat /\ Len(calls') = Len(calls) + 1
      /\ \A i \in 1 .. Len(calls) : calls'[i] = calls[i]
      /\ calls'[Len(calls) + 1] = x
  BY AppendUnits DEF HttpState, Call
<1>2. x[1] = request /\ x[2] = httpUser
  OBVIOUS
<1> HIDE DEF x
<1>3. \A i \in 1 .. Len(calls') : i \in 1 .. Len(calls) \/ i = Len(calls) + 1
  BY <1>1
<1>4. ServesAuthorised'
  BY DEF ServesAuthorised
<1>5. HttpAuthorised'
  <2> SUFFICES ASSUME NEW i \in 1 .. Len(calls'), Accounts # {}
               PROVE  /\ calls'[i][1].credentials \in Accounts
                      /\ calls'[i][2] = calls'[i][1].credentials[1]
    BY Zenon DEF HttpAuthorised
  <2>1. CASE i \in 1 .. Len(calls)
    BY <1>1, <2>1, Zenon DEF CallsInv, HttpAuthorised
  <2>2. CASE i = Len(calls) + 1
    BY <1>1, <1>2, <2>2, Zenon DEF CallsInv, ServesAuthorised
  <2> QED
    BY <1>3, <2>1, <2>2
<1> DEFINE n == IF hopen THEN 0 ELSE 1
<1>6. n \in 0 .. 1 /\ KeepBut(n)
  BY DEF CallsInv, KeepsWhileOpen
<1>7. \A i \in 1 .. Len(calls') - (n + 1) : calls'[i][1].method = "GET" => calls'[i][1].keepAlive
  <2> HIDE DEF n
  <2>1. \A i \in 1 .. Len(calls') - (n + 1) : i \in 1 .. Len(calls) - n /\ i \in 1 .. Len(calls)
    BY <1>1, <1>6
  <2> QED
    BY <1>1, <1>6, <2>1 DEF KeepBut
<1>8. \A i \in 1 .. Len(calls') - 2 : calls'[i][1].method = "GET" => calls'[i][1].keepAlive
  <2> HIDE DEF n
  <2>1. \A i \in 1 .. Len(calls') - 2 : i \in 1 .. Len(calls') - (n + 1)
    BY <1>1, <1>6
  <2> QED
    BY <1>7, <2>1
<1>9. KeepsWhileOpen'
  <2>1. KeepBut(IF hopen THEN 1 ELSE 2)'
    BY <1>7 DEF n, KeepBut
  <2>2. Len(calls') > 0 /\ calls'[Len(calls')][1] = request
    BY <1>1, <1>2
  <2> QED
    BY <2>1, <2>2 DEF KeepsWhileOpen
<1> QED
  BY <1>4, <1>5, <1>8, <1>9 DEF CallsInv, ClosedIsLast

\* The handler is not called.
LEMMA CallsNotCalled ==
  ASSUME CallsInv, UNCHANGED <<calls, hopen, request>>, hpc \in {"read", "auth", "serve"} \/ hpc' = "error",
         hpc' \in {"read", "auth", "serve", "error"}, ServesAuthorised'
  PROVE  CallsInv'
BY DEF CallsInv, HttpAuthorised, KeepsWhileOpen, KeepBut, ClosedIsLast

LEMMA CallsStep ==
  ASSUME HttpState, CallsInv, HttpNext
  PROVE  CallsInv'
<1>1. CASE ClientAsks \/ ClientAnswer \/ ClientPayload \/ ClientReceives
           \/ HttpFill \/ TakesBody \/ TunnelReads \/ TunnelWrites
  <2>1. UNCHANGED <<calls, hpc, hopen, request, httpUser>>
    BY <1>1 DEF ClientAsks, ClientAnswer, ClientPayload, ClientReceives, HttpFill, TakesBody, TunnelReads,
                TunnelWrites, httpServerVars
  <2> QED
    BY <2>1, CallsKept
<1>2. CASE ReadHttpRequest
  <2>1. UNCHANGED <<calls, hopen>> /\ hpc = "read" /\ hpc' \in {"auth", "error"}
    BY <1>2 DEF ReadHttpRequest
  <2> QED
    BY <2>1 DEF CallsInv, ServesAuthorised, HttpAuthorised, KeepsWhileOpen, KeepBut, ClosedIsLast
<1>3. CASE CheckAuthorization
  <2>1. hpc = "auth" /\ UNCHANGED <<calls, hopen, request>> /\ hpc' \in {"serve", "read", "error"}
    BY <1>3 DEF CheckAuthorization, Answers
  <2>2. ServesAuthorised'
    BY <1>3 DEF CheckAuthorization, Authorised, ServesAuthorised, Answers
  <2> QED
    BY <2>1, <2>2, CallsNotCalled
<1>4. CASE Connect
  <2>1. hpc = "serve" /\ UNCHANGED <<hopen, request>>
    BY <1>4 DEF Connect
  <2>2. CASE hopen
    <3>1. Call /\ hpc' = "tunnel"
      BY <1>4, <2>2 DEF Connect, Answers
    <3> QED
      BY <2>1, <3>1, CallsCalled
  <2>3. CASE ~hopen
    <3>1. UNCHANGED calls /\ hpc' = "error"
      BY <1>4, <2>3 DEF Connect, Answers
    <3> QED
      BY <2>1, <3>1, CallsNotCalled DEF ServesAuthorised
  <2> QED
    BY <2>2, <2>3
<1>5. CASE Upgrade
  BY <1>5, CallsCalled DEF Upgrade
<1>6. CASE Do
  BY <1>6, CallsCalled DEF Do
<1>7. CASE BadRequest \/ DoFails
  <2>1. /\ UNCHANGED <<calls, hopen, request>> /\ hpc' \in {"read", "error"}
        /\ hpc = "serve" \/ hpc' = "error"
    BY <1>7 DEF BadRequest, DoFails, Answers
  <2> QED
    BY <2>1, CallsNotCalled DEF ServesAuthorised
<1>8. CASE HttpCallerCloses
  BY <1>8 DEF HttpCallerCloses, CallsInv, ServesAuthorised, HttpAuthorised, KeepsWhileOpen,
              ClosedIsLast
<1>9. CASE DoAnswers
  <2>1. hpc = "do" /\ UNCHANGED <<calls, request>> /\ hopen' = (hopen /\ request.keepAlive) /\ Answers(200, "read")
    BY <1>9 DEF DoAnswers, StaysOpen
  <2>2. CASE ~hopen
    <3>1. hpc' = "error"
      BY <2>1, <2>2 DEF Answers
    <3> QED
      BY <2>1, <3>1 DEF CallsInv, ServesAuthorised, HttpAuthorised, KeepsWhileOpen, KeepBut, ClosedIsLast
  <2>3. CASE hopen
    <3>1. hpc' = "read" /\ KeepBut(1) /\ Len(calls) > 0 /\ calls[Len(calls)][1] = request /\ Len(calls) \in Nat
      BY <2>1, <2>3 DEF Answers, CallsInv, KeepsWhileOpen, HttpState
    <3>2. request.keepAlive => KeepBut(0)
      <4>1. \A i \in 1 .. Len(calls) - 0 : i \in 1 .. Len(calls) - 1 \/ i = Len(calls)
        BY <3>1
      <4> QED
        BY <3>1, <4>1 DEF KeepBut
    <3>3. request \in Requests /\ request.keepAlive \in BOOLEAN
      BY <2>1, RequestIs DEF HttpState
    <3>4. KeepBut(IF hopen' THEN 0 ELSE 1)
      BY <2>1, <2>3, <3>1, <3>2, <3>3
    <3>5. KeepsWhileOpen'
      BY <2>1, <3>1, <3>4 DEF KeepsWhileOpen, KeepBut
    <3> QED
      BY <2>1, <3>1, <3>5 DEF CallsInv, ServesAuthorised, HttpAuthorised, ClosedIsLast
  <2> QED
    BY <2>2, <2>3
<1> QED
  BY <1>1, <1>2, <1>3, <1>4, <1>5, <1>6, <1>7, <1>8, <1>9 DEF HttpNext, HttpServer, HttpTarget

-----------------------------------------------------------------------------
\* The way down: nothing is lost between the server's writes and the client's
\* reads.
LEMMA DownRead ==
  ASSUME HttpState, ClientAnswer \/ ClientReceives
  PROVE  answers' \o hdown' = answers \o hdown
<1> USE DEF HttpState
<1>1. CASE ClientReceives
  <2>1. answers \o hdown \in Seq(DownUnit)
    OBVIOUS
  <2> QED
    BY <1>1, <2>1, ConcatEmptySeq DEF ClientReceives
<1>2. CASE hdown # << >> /\ answers' = Append(answers, Head(hdown)) /\ hdown' = Tail(hdown)
  <2>1. /\ Head(hdown) \in DownUnit /\ Tail(hdown) \in Seq(DownUnit)
        /\ <<Head(hdown)>> \in Seq(DownUnit) /\ hdown = <<Head(hdown)>> \o Tail(hdown)
    <3>1. hdown # << >> /\ hdown \in Seq(DownUnit)
      BY <1>2
    <3> QED
      BY ONLY <3>1, HeadTailConcat
  <2>2. Append(answers, Head(hdown)) = answers \o <<Head(hdown)>>
    <3>1. answers \in Seq(DownUnit)
      OBVIOUS
    <3> QED
      BY ONLY <2>1, <3>1, AppendIsConcat
  <2>3. (answers \o <<Head(hdown)>>) \o Tail(hdown) = answers \o (<<Head(hdown)>> \o Tail(hdown))
    <3>1. answers \in Seq(DownUnit)
      OBVIOUS
    <3> QED
      BY ONLY <2>1, <3>1, ConcatAssociative
  <2> QED
    BY <1>2, <2>1, <2>2, <2>3, Zenon
<1> QED
  BY <1>1, <1>2 DEF ClientAnswer

LEMMA DownWritten ==
  ASSUME HttpState, NEW x \in DownUnit, answers' = answers, hdown' = Append(hdown, x)
  PROVE  answers' \o hdown' = Append(answers \o hdown, x) /\ answers \o hdown \in Seq(DownUnit)
<1>1. hdown \in Seq(DownUnit) /\ answers \in Seq(DownUnit)
  BY DEF HttpState
<1>2. answers \o Append(hdown, x) = Append(answers \o hdown, x) /\ answers \o hdown \in Seq(DownUnit)
  BY ONLY <1>1, x \in DownUnit, ConcatAppend
<1> QED
  BY <1>2, Zenon
\* An answer and a piece of payload are told apart.
LEMMA AnswerPiece ==
  ASSUME NEW status, NEW i
  PROVE  /\ Answer(status, i)[1] = "answer" /\ Answer(status, i)[2] = i
         /\ Piece(i)[1] = "piece" /\ Piece(i)[2] = i
BY DEF Answer, Piece

\* What a step does to the way down.
LEMMA DownSteps ==
  ASSUME HttpNext
  PROVE  \/ UNCHANGED <<answers, hdown, sentDown>>
         \/ ClientAnswer \/ ClientReceives \/ TunnelWrites
         \/ \E status \in Nat : /\ hpc \in {"auth", "serve", "do"} /\ UNCHANGED <<answers, sentDown>>
                                /\ hdown' = Append(hdown, Answer(status, request.id))
<1>1. 407 \in Nat /\ 400 \in Nat /\ 200 \in Nat /\ 502 \in Nat
  OBVIOUS
<1>2. CASE ClientAsks \/ ClientPayload \/ HttpFill \/ ReadHttpRequest \/ Upgrade \/ HttpCallerCloses
           \/ TunnelReads \/ Do \/ TakesBody
  BY <1>2 DEF ClientAsks, ClientPayload, HttpFill, ReadHttpRequest, Upgrade, HttpCallerCloses,
              TunnelReads, Do, TakesBody, httpServerVars, httpClientVars
<1>3. CASE CheckAuthorization
  BY <1>1, <1>3 DEF CheckAuthorization, Answers, httpClientVars
<1>4. CASE Connect \/ BadRequest
  BY <1>1, <1>4 DEF Connect, BadRequest, Answers, httpClientVars
<1>5. CASE DoAnswers \/ DoFails
  BY <1>1, <1>5 DEF DoAnswers, DoFails, Answers, httpClientVars
<1> QED
  BY <1>2, <1>3, <1>4, <1>5 DEF HttpNext, HttpServer, HttpTarget

\* The payload on its way down stays in order.
LEMMA PayloadDownStep ==
  ASSUME HttpState, PayloadDown, HttpNext
  PROVE  PayloadDown'
<1>1. CASE UNCHANGED <<answers, hdown, sentDown>>
  BY <1>1 DEF PayloadDown
<1>2. CASE ClientAnswer \/ ClientReceives
  <2>1. UNCHANGED sentDown
    BY <1>2 DEF ClientAnswer, ClientReceives, httpServerVars
  <2> QED
    BY <1>2, <2>1, DownRead DEF PayloadDown
<1>3. CASE \E status \in Nat : /\ hpc \in {"auth", "serve", "do"} /\ UNCHANGED <<answers, sentDown>>
                               /\ hdown' = Append(hdown, Answer(status, request.id))
  <2>1. PICK status \in Nat : hdown' = Append(hdown, Answer(status, request.id))
    BY <1>3
  <2>2. request.id \in Nat /\ UNCHANGED <<answers, sentDown>>
    BY <1>3, RequestIs DEF HttpState
  <2>3. Answer(status, request.id) \in DownUnit
    BY <2>2, DownUnits
  <2>4. /\ answers' \o hdown' = Append(answers \o hdown, Answer(status, request.id))
        /\ answers \o hdown \in Seq(DownUnit)
    BY <2>1, <2>2, <2>3, DownWritten
  <2>5. Numbered(Append(answers \o hdown, Answer(status, request.id)), "piece", sentDown)
    BY <2>4, AppendOther, AnswerPiece DEF PayloadDown, HttpState
  <2> QED
    BY <2>2, <2>4, <2>5, Zenon DEF PayloadDown
<1>4. CASE TunnelWrites
  <2>1. /\ hdown' = Append(hdown, Piece(sentDown + 1)) /\ answers' = answers
        /\ sentDown' = sentDown + 1 /\ sentDown \in Nat /\ sentDown + 1 \in Nat
    BY <1>4 DEF TunnelWrites, httpClientVars, HttpState
  <2>2. Piece(sentDown + 1) \in DownUnit
    BY <2>1, DownUnits
  <2>3. /\ answers' \o hdown' = Append(answers \o hdown, Piece(sentDown + 1))
        /\ answers \o hdown \in Seq(DownUnit)
    BY <2>1, <2>2, DownWritten
  <2>4. Numbered(Append(answers \o hdown, Piece(sentDown + 1)), "piece", sentDown + 1)
    BY <2>1, <2>3, AppendNumber, AnswerPiece DEF PayloadDown
  <2> QED
    BY <2>1, <2>3, <2>4, Zenon DEF PayloadDown
<1> QED
  BY <1>1, <1>2, <1>3, <1>4, DownSteps

-----------------------------------------------------------------------------
\* Every request but the one in service is answered, in turn.
LEMMA AnsweredKept ==
  ASSUME Answered, answers' \o hdown' = answers \o hdown, UNCHANGED <<script, request>>,
         \/ hpc' = hpc \/ hpc' \in {"tunnel", "error", "closed"}
         \/ hpc \in {"auth", "serve", "do"} /\ hpc' \in {"auth", "serve", "do"}
  PROVE  Answered'
<1>1. \E n \in 0 .. Len(script') : Numbered(answers' \o hdown', "answer", n)
  BY Zenon DEF Answered
<1>2. hpc' = "read" => Numbered(answers' \o hdown', "answer", request'.id)
  BY DEF Answered
<1>3. hpc' \in {"auth", "serve", "do"} => Numbered(answers' \o hdown', "answer", request'.id - 1)
  BY DEF Answered
<1> QED
  BY <1>1, <1>2, <1>3 DEF Answered

LEMMA AnswerWritten ==
  ASSUME HttpState, Answered, hpc \in {"auth", "serve", "do"}, NEW status \in Nat,
         UNCHANGED <<script, request, answers>>,
         hdown' = Append(hdown, Answer(status, request.id)), hpc' \notin {"auth", "serve", "do"}
  PROVE  Answered'
<1>1. request.id \in 1 .. Len(script) /\ request.id \in Nat /\ Len(script) \in Nat
  BY RequestIs, HttpAssumption DEF HttpState
<1>2. request.id - 1 \in Nat /\ (request.id - 1) + 1 = request.id /\ request.id \in 0 .. Len(script)
  BY <1>1
<1>3. Answer(status, request.id) \in DownUnit
  BY <1>1, DownUnits
<1>4. /\ answers' \o hdown' = Append(answers \o hdown, Answer(status, request.id))
      /\ answers \o hdown \in Seq(DownUnit)
  BY <1>3, DownWritten
<1>5. Numbered(answers \o hdown, "answer", request.id - 1)
  BY DEF Answered
<1> DEFINE x == Answer(status, request.id)
<1>6. x[1] = "answer" /\ x[2] = (request.id - 1) + 1
  BY <1>2, AnswerPiece
<1> HIDE DEF x
<1>7. Numbered(Append(answers \o hdown, x), "answer", (request.id - 1) + 1)
  BY <1>2, <1>4, <1>5, <1>6, AppendNumber, Zenon
<1>8. Numbered(answers' \o hdown', "answer", request.id)
  BY <1>2, <1>4, <1>7, Zenon DEF x
<1>9. \E n \in 0 .. Len(script') : Numbered(answers' \o hdown', "answer", n)
  BY <1>2, <1>8, Zenon
<1> QED
  BY <1>8, <1>9 DEF Answered

\* Answers either writes one, or finds the connection closed.
LEMMA AnswersWritten ==
  ASSUME HttpState, Answered, hpc \in {"auth", "serve", "do"}, NEW status \in Nat, NEW pc,
         UNCHANGED <<script, request, answers>>, Answers(status, pc), pc \notin {"auth", "serve", "do"}
  PROVE  Answered'
<1>1. CASE hopen
  BY <1>1, AnswerWritten DEF Answers
<1>2. CASE ~hopen
  BY <1>2, AnsweredKept DEF Answers
<1> QED BY <1>1, <1>2

\* A request at the head of the reader's buffer is the next one.
LEMMA HeadIsNext ==
  ASSUME HttpState, InStep, hpc = "read", hbuf # << >>, Head(hbuf)[1] = "request"
  PROVE  /\ Head(hbuf)[2].id = request.id + 1 /\ request.id \in Nat /\ next - 1 \in Nat
         /\ request.id + 1 <= next - 1
         /\ StreamOK(Tail(hbuf) \o hup, request.id + 1, next - 1)
         /\ HeadIsBody(Tail(hbuf) \o hup) <=> Head(hbuf)[2].body
         /\ Tail(hbuf) \o hup = Tail(hbuf \o hup) /\ (hbuf \o hup)[1] = Head(hbuf)
         /\ hbuf \o hup \in Seq(UpUnit) /\ hbuf \o hup # << >>
<1> DEFINE s == hbuf \o hup
<1>1. /\ s \in Seq(UpUnit) /\ s # << >> /\ Tail(hbuf) \o hup = Tail(s)
      /\ s[1] = Head(hbuf)
  <2>1. hbuf \in Seq(UpUnit) /\ hup \in Seq(UpUnit)
    BY DEF HttpState
  <2> QED
    BY ONLY <2>1, hbuf # << >>, ConcatTail
<1>2. StreamOK(s, request.id, next - 1)
  BY DEF InStep
<1> HIDE DEF s
<1>3. request.id \in Nat /\ next - 1 \in Nat
  BY IdsAreNumbers
<1>4. /\ s[1][2].id = request.id + 1 /\ request.id + 1 <= next - 1
      /\ StreamOK(Tail(s), request.id + 1, next - 1)
      /\ HeadIsBody(Tail(s)) <=> s[1][2].body
  BY <1>1, <1>2, <1>3, RequestTaken, Zenon
<1> QED
  BY <1>1, <1>3, <1>4, Zenon DEF s

LEMMA AnsweredStep ==
  ASSUME HttpState, InStep, Answered, HttpNext
  PROVE  Answered'
<1>1. UNCHANGED script
  BY ScriptStays
<1>2. CASE UNCHANGED <<request, hpc, answers, hdown>>
  BY <1>1, <1>2, AnsweredKept
<1>3. CASE ClientAnswer \/ ClientReceives
  <2>1. UNCHANGED <<request, hpc>>
    BY <1>3 DEF ClientAnswer, ClientReceives, httpServerVars
  <2> QED
    BY <1>1, <1>3, <2>1, DownRead, AnsweredKept
<1>4. CASE ReadHttpRequest
  <2>1. UNCHANGED <<answers, hdown>>
    BY <1>4 DEF ReadHttpRequest, httpClientVars
  <2>2. CASE UNCHANGED request /\ hpc' = "error"
    BY <1>1, <2>1, <2>2, AnsweredKept
  <2>3. CASE /\ hpc = "read" /\ hbuf # << >> /\ Head(hbuf)[1] = "request"
             /\ request' = Head(hbuf)[2] /\ hpc' = "auth"
    <3>1. request'.id = request.id + 1 /\ request.id \in Nat
      BY <2>3, HeadIsNext
    <3>2. request'.id - 1 = request.id
      BY <3>1
    <3> QED
      BY <1>1, <2>1, <2>3, <3>2 DEF Answered
  <2> QED
    BY <1>4, <2>2, <2>3 DEF ReadHttpRequest
<1>5. CASE CheckAuthorization
  <2>1. hpc = "auth" /\ UNCHANGED <<request, answers>>
    BY <1>5 DEF CheckAuthorization, httpClientVars
  <2>2. CASE hpc' = "serve" /\ UNCHANGED hdown
    BY <1>1, <2>1, <2>2, AnsweredKept
  <2>3. ASSUME NEW pc \in {"read", "error"}, Answers(407, pc) PROVE Answered'
    <3>1. 407 \in Nat /\ pc \notin {"auth", "serve", "do"}
      OBVIOUS
    <3> QED BY <1>1, <2>1, <2>3, <3>1, AnswersWritten
  <2> QED
    BY <1>5, <2>2, <2>3 DEF CheckAuthorization
<1>6. CASE Connect
  <2>1. 200 \in Nat /\ hpc = "serve" /\ UNCHANGED <<request, answers>> /\ Answers(200, "tunnel")
    BY <1>6 DEF Connect, httpClientVars
  <2> QED BY <1>1, <2>1, AnswersWritten
<1>7. CASE Upgrade \/ Do
  BY <1>1, <1>7, AnsweredKept DEF Upgrade, Do, httpClientVars
<1>8. CASE BadRequest
  <2>1. 400 \in Nat /\ hpc = "serve" /\ UNCHANGED <<request, answers>> /\ Answers(400, "read")
    BY <1>8 DEF BadRequest, httpClientVars
  <2> QED BY <1>1, <2>1, AnswersWritten
<1>9. CASE DoAnswers \/ DoFails
  <2>1. /\ 200 \in Nat /\ 502 \in Nat /\ hpc = "do" /\ UNCHANGED <<request, answers>>
        /\ Answers(200, "read") \/ Answers(502, "error")
    BY <1>9 DEF DoAnswers, DoFails, httpClientVars
  <2> QED BY <1>1, <2>1, AnswersWritten
<1>10. CASE HttpCallerCloses
  BY <1>1, <1>10, AnsweredKept DEF HttpCallerCloses, httpClientVars
<1>11. CASE TunnelWrites
  <2>1. /\ hdown' = Append(hdown, Piece(sentDown + 1)) /\ answers' = answers
        /\ sentDown + 1 \in Nat /\ hpc = "tunnel" /\ hpc' = "tunnel"
    BY <1>11 DEF TunnelWrites, httpClientVars, HttpState
  <2>2. Piece(sentDown + 1) \in DownUnit
    BY <2>1, DownUnits
  <2>3. /\ answers' \o hdown' = Append(answers \o hdown, Piece(sentDown + 1))
        /\ answers \o hdown \in Seq(DownUnit)
    BY <2>1, <2>2, DownWritten
  <2>4. PICK n \in 0 .. Len(script) : Numbered(answers \o hdown, "answer", n)
    BY Zenon DEF Answered
  <2>5. n \in Nat /\ Piece(sentDown + 1)[1] # "answer"
    BY AnswerPiece
  <2>6. Numbered(Append(answers \o hdown, Piece(sentDown + 1)), "answer", n)
    BY <2>3, <2>4, <2>5, AppendOther, Zenon
  <2>7. \E m \in 0 .. Len(script') : Numbered(answers' \o hdown', "answer", m)
    BY <1>1, <2>3, <2>6, Zenon
  <2> QED
    BY <2>1, <2>7 DEF Answered
<1>12. CASE ClientAsks \/ ClientPayload \/ HttpFill \/ TunnelReads \/ TakesBody
  <2>1. UNCHANGED <<request, hpc, answers, hdown>>
    BY <1>12 DEF ClientAsks, ClientPayload, HttpFill, TunnelReads, TakesBody, httpServerVars, httpClientVars
  <2> QED
    BY <1>2, <2>1
<1> QED
  BY <1>3, <1>4, <1>5, <1>6, <1>7, <1>8, <1>9, <1>10, <1>11, <1>12 DEF HttpNext, HttpServer, HttpTarget
-----------------------------------------------------------------------------
\* The way up.
UpInv == InStep /\ PayloadUp

LEMMA UpKept ==
  ASSUME UpInv, UNCHANGED <<hbuf, hup, tunnelled, cachedUp, sentUp, next, request>>,
         hpc' = "tunnel" <=> hpc = "tunnel",
         hpc' \in {"read", "auth", "serve", "do"} =>
           /\ hpc \in {"read", "auth", "serve", "do"}
           /\ (BodyNext' <=> BodyNext) /\ (Looking' => ~bodyLeft')
  PROVE  UpInv'
<1>1. InStep'
  BY DEF UpInv, InStep
<1>2. PayloadUp'
  BY DEF UpInv, PayloadUp
<1> QED
  BY <1>1, <1>2 DEF UpInv

\* What the client writes comes last, whatever is in front of it.
LEMMA AskedBehind ==
  ASSUME HttpState, ClientAsks, NEW p \in Seq(UpUnit)
  PROVE  LET x == <<"request", script[next]>>
         IN  /\ p \o hup \in Seq(UpUnit) /\ Append(p \o hup, x) \in Seq(UpUnit)
             /\ ~script[next].body => p \o hup' = Append(p \o hup, x)
             /\ script[next].body => p \o hup' = Append(Append(p \o hup, x), <<"body", next>>)
<1> DEFINE x == <<"request", script[next]>>
           y == <<"body", next>>
<1>1. next <= Len(script) /\ hup \in Seq(UpUnit)
  BY DEF ClientAsks, HttpState
<1>2. x \in UpUnit /\ y \in UpUnit
  BY <1>1, AskedUnits, Zenon
<1>3. hup' = hup \o <<x>> \o (IF script[next].body THEN <<y>> ELSE <<>>)
  BY DEF ClientAsks
<1> HIDE DEF x, y
<1>4. /\ Append(hup, x) \in Seq(UpUnit) /\ p \o hup \in Seq(UpUnit)
      /\ p \o Append(hup, x) = Append(p \o hup, x)
  BY ONLY <1>1, <1>2, p \in Seq(UpUnit), ConcatAppend
<1>5. hup \o <<x>> = Append(hup, x)
  BY ONLY <1>1, <1>2, AppendIsConcat
<1>6. Append(p \o hup, x) \in Seq(UpUnit)
  BY ONLY <1>2, <1>4
<1>7. ASSUME ~script[next].body
      PROVE  p \o hup' = Append(p \o hup, x)
  <2>1. hup' = Append(hup, x) \o <<>>
    BY <1>3, <1>5, <1>7, Zenon
  <2>2. hup' = Append(hup, x)
    BY <1>4, <2>1, ConcatEmptySeq, Zenon
  <2> QED
    BY <1>4, <2>2, Zenon
<1>8. ASSUME script[next].body
      PROVE  p \o hup' = Append(Append(p \o hup, x), y)
  <2>1. hup' = Append(hup, x) \o <<y>>
    BY <1>3, <1>5, <1>8, Zenon
  <2>2. hup' = Append(Append(hup, x), y)
    <3>1. Append(Append(hup, x), y) = Append(hup, x) \o <<y>>
      BY ONLY <1>2, <1>4, AppendIsConcat
    <3> QED
      BY <2>1, <3>1, Zenon
  <2>3. p \o Append(Append(hup, x), y) = Append(p \o Append(hup, x), y)
    BY ONLY <1>2, <1>4, p \in Seq(UpUnit), ConcatAppend
  <2> QED
    BY <1>4, <2>2, <2>3, Zenon
<1> QED
  BY <1>4, <1>6, <1>7, <1>8, Zenon DEF x, y

\* A request brings no payload.
LEMMA AskedNoPayload ==
  ASSUME HttpState, ClientAsks, NEW p \in Seq(UpUnit), Numbered(p \o hup, "piece", sentUp)
  PROVE  Numbered(p \o hup', "piece", sentUp)
<1> DEFINE x == <<"request", script[next]>>
           y == <<"body", next>>
<1>1. /\ p \o hup \in Seq(UpUnit) /\ Append(p \o hup, x) \in Seq(UpUnit)
      /\ ~script[next].body => p \o hup' = Append(p \o hup, x)
      /\ script[next].body => p \o hup' = Append(Append(p \o hup, x), y)
  BY AskedBehind, Zenon
<1>2. x[1] # "piece" /\ y[1] # "piece" /\ sentUp \in Nat
  BY DEF HttpState
<1> HIDE DEF x, y
<1>3. Numbered(Append(p \o hup, x), "piece", sentUp)
  BY <1>1, <1>2, AppendOther, Zenon
<1>4. Numbered(Append(Append(p \o hup, x), y), "piece", sentUp)
  BY <1>1, <1>2, <1>3, AppendOther, Zenon
<1> QED
  BY <1>1, <1>3, <1>4, Zenon

LEMMA UpAsked ==
  ASSUME HttpState, UpInv, ClientAsks
  PROVE  UpInv'
<1> DEFINE x == <<"request", script[next]>>
           y == <<"body", next>>
           s == hbuf \o hup
<1>1. /\ next <= Len(script) /\ next' = next + 1
      /\ UNCHANGED <<hbuf, tunnelled, cachedUp, sentUp, request, bodyLeft, hpc, script>>
      /\ hbuf \in Seq(UpUnit) /\ tunnelled \o cachedUp \in Seq(UpUnit)
  BY DEF ClientAsks, httpServerVars, HttpState
<1>2. /\ script[next].id = next /\ next \in Nat /\ script[next].body \in BOOLEAN
      /\ request.id \in Nat /\ next - 1 \in Nat
  BY <1>1, AskedUnits, IdsAreNumbers
<1>3. /\ s \in Seq(UpUnit) /\ Append(s, x) \in Seq(UpUnit)
      /\ ~script[next].body => hbuf \o hup' = Append(s, x)
      /\ script[next].body => hbuf \o hup' = Append(Append(s, x), y)
  BY <1>1, AskedBehind, Zenon
<1>4. PayloadUp'
  <2>1. hpc # "tunnel" => Numbered(hbuf \o hup', "piece", sentUp)
    BY <1>1, AskedNoPayload, Zenon DEF UpInv, PayloadUp
  <2>2. hpc = "tunnel" => Numbered(tunnelled \o cachedUp \o hup', "piece", sentUp)
    BY <1>1, AskedNoPayload, Zenon DEF UpInv, PayloadUp
  <2> QED
    BY <1>1, <2>1, <2>2 DEF UpInv, PayloadUp
<1>5. ASSUME hpc \in {"read", "auth", "serve", "do"}
      PROVE  /\ request.id <= next
             /\ StreamOK(hbuf \o hup', request.id, next)
             /\ HeadIsBody(hbuf \o hup') <=> HeadIsBody(s)
  <2>1. /\ request.id <= next - 1 /\ RequestsFollow(s, request.id, next - 1) /\ BodiesFollow(s)
    BY <1>5 DEF UpInv, InStep, StreamOK
  <2>2. script[next].id = (next - 1) + 1 /\ (next - 1) + 1 = next /\ request.id <= next
    BY <1>2, <2>1
  <2>3. /\ x[1] = "request" /\ x[2] = script[next] /\ y[1] = "body"
    OBVIOUS
  <2>4. RequestsFollow(Append(s, x), request.id, next)
    <3> HIDE DEF s
    <3>1. RequestsFollow(Append(s, x), request.id, (next - 1) + 1)
      BY <1>2, <1>3, <2>1, <2>2, RequestAppended, Zenon
    <3> QED
      BY <2>2, <3>1, Zenon
  <2> HIDE DEF s, x, y
  <2>5. HeadIsBody(Append(s, x)) <=> HeadIsBody(s)
    BY <1>3, <2>3, HeadStays
  <2>6. CASE ~script[next].body
    <3>1. BodiesFollow(Append(s, x))
      BY <1>3, <2>1, <2>3, <2>6, BodilessAppended
    <3> QED
      BY <1>3, <2>2, <2>4, <2>5, <2>6, <3>1, Zenon DEF StreamOK
  <2>7. CASE script[next].body
    <3>1. /\ BodiesFollow(Append(Append(s, x), y))
          /\ HeadIsBody(Append(Append(s, x), y)) <=> HeadIsBody(Append(s, x))
      BY <1>3, <2>1, <2>3, <2>7, BodyAppended
    <3>2. RequestsFollow(Append(Append(s, x), y), request.id, next)
      BY <1>2, <1>3, <2>3, <2>4, OtherAppended
    <3> QED
      BY <1>3, <2>2, <2>5, <2>7, <3>1, <3>2, Zenon DEF StreamOK
  <2> QED
    BY <1>2, <2>6, <2>7
<1>6. next' - 1 = next
  BY <1>1, <1>2
<1>7. InStep'
  <2> SUFFICES ASSUME hpc \in {"read", "auth", "serve", "do"}
               PROVE  /\ request.id <= next
                      /\ StreamOK(hbuf \o hup', request.id, next)
                      /\ HeadIsBody(hbuf \o hup') <=> BodyNext
                      /\ Looking => ~bodyLeft
    BY <1>1, <1>6 DEF InStep, BodyNext, Looking
  <2> QED
    BY <1>5 DEF UpInv, InStep
<1> QED
  BY <1>4, <1>7 DEF UpInv
LEMMA UpPayload ==
  ASSUME HttpState, UpInv, ClientPayload
  PROVE  UpInv'
<1> DEFINE x == Piece(sentUp + 1)
           s == hbuf \o hup
           p == tunnelled \o cachedUp
<1>1. /\ hup' = Append(hup, x) /\ sentUp' = sentUp + 1
      /\ UNCHANGED <<hbuf, tunnelled, cachedUp, next, request, bodyLeft, hpc>>
      /\ hbuf \in Seq(UpUnit) /\ hup \in Seq(UpUnit) /\ p \in Seq(UpUnit) /\ sentUp \in Nat
  BY DEF ClientPayload, httpServerVars, HttpState
<1>2. x \in UpUnit /\ x[1] = "piece" /\ x[2] = sentUp + 1
  BY <1>1, DownUnits, AnswerPiece
<1>3. request.id \in Nat /\ next - 1 \in Nat
  BY IdsAreNumbers
<1>4. UNCHANGED p
  BY <1>1
<1> HIDE DEF x, p
<1>5. hbuf \o hup' = Append(s, x) /\ s \in Seq(UpUnit)
  BY ONLY <1>1, <1>2, ConcatAppend
<1>6. p \o hup' = Append(p \o hup, x) /\ p \o hup \in Seq(UpUnit)
  BY ONLY <1>1, <1>2, ConcatAppend
<1>7. PayloadUp'
  <2>1. hpc # "tunnel" => Numbered(Append(s, x), "piece", sentUp + 1)
    BY <1>1, <1>2, <1>5, AppendNumber, Zenon DEF UpInv, PayloadUp
  <2>2. hpc = "tunnel" => Numbered(Append(p \o hup, x), "piece", sentUp + 1)
    BY <1>1, <1>2, <1>6, AppendNumber, Zenon DEF UpInv, PayloadUp, p
  <2>3. hpc' # "tunnel" =>
          /\ tunnelled' = << >> /\ cachedUp' = << >>
          /\ Numbered(hbuf' \o hup', "piece", sentUp')
    BY <1>1, <1>5, <2>1, Zenon DEF UpInv, PayloadUp
  <2>4. hpc' = "tunnel" =>
          hbuf' = << >> /\ Numbered((tunnelled \o cachedUp)' \o hup', "piece", sentUp')
    BY <1>1, <1>4, <1>6, <2>2, Zenon DEF UpInv, PayloadUp, p
  <2> QED
    BY <2>3, <2>4, Zenon DEF PayloadUp
<1>8. InStep'
  <2> SUFFICES ASSUME hpc \in {"read", "auth", "serve", "do"}
               PROVE  /\ request.id <= next - 1
                      /\ StreamOK(Append(s, x), request.id, next - 1)
                      /\ HeadIsBody(Append(s, x)) <=> BodyNext
                      /\ Looking => ~bodyLeft
    BY <1>1, <1>5 DEF InStep, BodyNext, Looking
  <2>1. /\ request.id <= next - 1 /\ RequestsFollow(s, request.id, next - 1) /\ BodiesFollow(s)
        /\ (HeadIsBody(s) <=> BodyNext) /\ (Looking => ~bodyLeft)
    BY DEF UpInv, InStep, StreamOK
  <2>2. x[1] # "request" /\ x[1] # "body"
    BY <1>2
  <2> HIDE DEF s
  <2>3. RequestsFollow(Append(s, x), request.id, next - 1)
    BY <1>3, <1>5, <2>1, <2>2, OtherAppended, Zenon
  <2>4. BodiesFollow(Append(s, x))
    BY <1>5, <2>1, <2>2, BodilessAppended, Zenon
  <2>5. HeadIsBody(Append(s, x)) <=> HeadIsBody(s)
    BY <1>5, <2>2, HeadStays, Zenon
  <2> QED
    BY <2>1, <2>3, <2>4, <2>5, Zenon DEF StreamOK
<1> QED
  BY <1>7, <1>8 DEF UpInv

LEMMA UpFilled ==
  ASSUME HttpState, UpInv, HttpFill
  PROVE  UpInv'
<1>1. /\ hpc = "read" /\ hbuf = << >> /\ hbuf' = hup /\ hup' = << >>
      /\ UNCHANGED <<tunnelled, cachedUp, sentUp, next, request, bodyLeft, hpc>>
      /\ hup \in Seq(UpUnit)
  BY DEF HttpFill, httpClientVars, HttpState
<1>2. hbuf' \o hup' = hbuf \o hup
  BY <1>1, ConcatEmptySeq, Zenon
<1>3. InStep'
  BY <1>1, <1>2 DEF UpInv, InStep, BodyNext, Looking
<1>4. PayloadUp'
  BY <1>1, <1>2 DEF UpInv, PayloadUp
<1> QED
  BY <1>3, <1>4 DEF UpInv

LEMMA UpRead ==
  ASSUME HttpState, UpInv, ReadHttpRequest
  PROVE  UpInv'
<1>1. hpc = "read" /\ UNCHANGED <<hup, tunnelled, cachedUp, sentUp, next, bodyLeft>>
  BY DEF ReadHttpRequest, httpClientVars
<1>2. CASE hpc' = "error" /\ UNCHANGED <<request, hbuf>>
  BY <1>1, <1>2, UpKept
<1>3. CASE /\ hbuf # << >> /\ Head(hbuf)[1] = "request" /\ request' = Head(hbuf)[2]
           /\ hbuf' = Tail(hbuf) /\ hpc' = "auth"
  <2>1. InStep
    BY DEF UpInv
  <2>2. /\ Head(hbuf)[2].id = request.id + 1 /\ request.id + 1 <= next - 1
        /\ StreamOK(Tail(hbuf) \o hup, request.id + 1, next - 1)
        /\ HeadIsBody(Tail(hbuf) \o hup) <=> Head(hbuf)[2].body
        /\ Tail(hbuf) \o hup = Tail(hbuf \o hup) /\ (hbuf \o hup)[1] = Head(hbuf)
        /\ hbuf \o hup \in Seq(UpUnit) /\ hbuf \o hup # << >>
    BY <1>1, <1>3, <2>1, HeadIsNext, Zenon
  <2>a. ~bodyLeft
    <3>1. ~HeadIsBody(hbuf \o hup)
      BY <1>3, <2>2 DEF HeadIsBody
    <3> QED BY <1>1, <2>1, <3>1 DEF InStep, BodyNext, Looking
  <2>3. InStep'
    BY <1>1, <1>3, <2>2, <2>a DEF InStep, BodyNext, Looking
  <2>4. (hbuf \o hup)[1][1] # "piece" /\ sentUp \in Nat
    BY <1>3, <2>2 DEF HttpState
  <2>5. Numbered(hbuf \o hup, "piece", sentUp)
    BY <1>1 DEF UpInv, PayloadUp
  <2>6. Numbered(Tail(hbuf \o hup), "piece", sentUp)
    BY <2>2, <2>4, <2>5, TailOther, Zenon
  <2>7. PayloadUp'
    BY <1>1, <1>3, <2>2, <2>6 DEF UpInv, PayloadUp
  <2> QED
    BY <2>3, <2>7 DEF UpInv
<1> QED
  BY <1>2, <1>3 DEF ReadHttpRequest

\* The handler of a tunnel gets what the reader has taken ahead.
LEMMA UpTunnel ==
  ASSUME HttpState, UpInv, hpc = "serve", Connect \/ Upgrade
  PROVE  UpInv'
<1>1. /\ tunnelled = << >> /\ cachedUp = << >> /\ Numbered(hbuf \o hup, "piece", sentUp)
      /\ hbuf \in Seq(UpUnit) /\ hup \in Seq(UpUnit) /\ sentUp \in Nat /\ request \in Requests
  BY DEF UpInv, PayloadUp, HttpState
<1>2. UNCHANGED <<hup, sentUp, next, request>>
  BY DEF Connect, Upgrade, httpClientVars
<1>3. CASE Connect /\ hopen
  <2>1. /\ UNCHANGED tunnelled /\ cachedUp' = hbuf /\ hbuf' = << >> /\ hpc' = "tunnel"
    BY <1>3 DEF Connect, Answers
  <2>2. tunnelled' \o cachedUp' \o hup' = hbuf \o hup
    BY <1>1, <1>2, <2>1, ConcatEmptySeq, Zenon
  <2> QED
    BY <1>1, <1>2, <2>1, <2>2 DEF UpInv, InStep, PayloadUp
<1>6. CASE Connect /\ ~hopen
  <2>1. UNCHANGED <<tunnelled, cachedUp, hbuf>> /\ hpc' = "error"
    BY <1>6 DEF Connect, Answers
  <2> QED
    BY <1>2, <2>1, UpKept
<1>4. CASE Upgrade /\ hpc' = "error" /\ UNCHANGED <<tunnelled, cachedUp, hbuf>>
  BY <1>2, <1>4, UpKept
<1>5. CASE /\ tunnelled' = <<<<"request", request>>>> /\ cachedUp' = hbuf /\ hbuf' = << >>
           /\ hpc' = "tunnel"
  <2> DEFINE x == <<"request", request>>
  <2>1. x \in UpUnit /\ x[1] # "piece"
    BY <1>1 DEF UpUnit
  <2> HIDE DEF x
  <2>2. <<x>> \in Seq(UpUnit) /\ hbuf \o hup \in Seq(UpUnit)
    BY <1>1, <2>1
  <2>3. (<<x>> \o hbuf) \o hup = <<x>> \o (hbuf \o hup)
    BY ONLY <1>1, <2>2, ConcatAssociative
  <2>4. Numbered(<<x>> \o (hbuf \o hup), "piece", sentUp)
    BY <1>1, <2>1, <2>2, ConsOther
  <2>5. tunnelled' \o cachedUp' \o hup' = <<x>> \o (hbuf \o hup)
    BY <1>2, <1>5, <2>3, Zenon DEF x
  <2>6. PayloadUp'
    BY <1>2, <1>5, <2>4, <2>5 DEF PayloadUp
  <2>7. InStep'
    BY <1>5 DEF InStep
  <2> QED
    BY <2>6, <2>7 DEF UpInv
<1> QED
  BY <1>3, <1>4, <1>5, <1>6 DEF Upgrade

\* http.Transport takes the body, which is at the head.
LEMMA UpDone ==
  ASSUME HttpState, UpInv, TakesBody
  PROVE  UpInv'
<1>1. /\ hpc \in {"do", "read"} /\ UNCHANGED hpc /\ bodyLeft /\ ~bodyLeft'
      /\ UNCHANGED <<tunnelled, cachedUp, sentUp, next, request>>
      /\ hbuf \in Seq(UpUnit) /\ hup \in Seq(UpUnit) /\ sentUp \in Nat
      /\ request.id \in Nat /\ next - 1 \in Nat
  BY IdsAreNumbers DEF TakesBody, httpClientVars, HttpState
<1>3. UpInv'
  <2> DEFINE s == hbuf \o hup
  <2>1. s \in Seq(UpUnit) /\ s # << >> /\ hbuf' \o hup' = Tail(s)
    <3>1. CASE hbuf # << >>
      <4>1. hbuf' = Tail(hbuf) /\ hup' = hup
        BY <3>1 DEF TakesBody
      <4> QED
        BY <1>1, <3>1, <4>1, ConcatTail
    <3>2. CASE hbuf = << >>
      <4>1. hbuf' = << >> /\ hup # << >> /\ hup' = Tail(hup)
        BY <3>2 DEF TakesBody
      <4>2. Tail(hup) \in Seq(UpUnit)
        BY <1>1, <4>1
      <4>3. << >> \o hup = hup /\ << >> \o Tail(hup) = Tail(hup)
        BY <1>1, <4>2, ConcatEmptySeq, Zenon
      <4> QED
        BY <1>1, <3>2, <4>1, <4>3, Zenon
    <3> QED
      BY <3>1, <3>2
  <2>2. /\ request.id <= next - 1 /\ StreamOK(s, request.id, next - 1) /\ HeadIsBody(s)
        /\ Numbered(s, "piece", sentUp) /\ tunnelled = << >> /\ cachedUp = << >>
    BY <1>1 DEF UpInv, InStep, PayloadUp, BodyNext, Looking
  <2> HIDE DEF s
  <2>3. s[1][1] = "body" /\ s[1][1] # "piece"
    BY <2>2 DEF HeadIsBody
  <2>4. StreamOK(Tail(s), request.id, next - 1) /\ ~HeadIsBody(Tail(s))
    BY <1>1, <2>1, <2>2, <2>3, BodyTaken, Zenon
  <2>5. Numbered(Tail(s), "piece", sentUp)
    BY <1>1, <2>1, <2>2, <2>3, TailOther, Zenon
  <2>6. InStep'
    BY <1>1, <2>1, <2>2, <2>4 DEF InStep, BodyNext, Looking
  <2>7. PayloadUp'
    BY <1>1, <2>1, <2>2, <2>5 DEF PayloadUp
  <2> QED
    BY <2>6, <2>7 DEF UpInv
<1> QED
  BY <1>3

LEMMA UpTunnelled ==
  ASSUME HttpState, UpInv, TunnelReads
  PROVE  UpInv'
<1>1. /\ hpc = "tunnel" /\ UNCHANGED <<hbuf, hpc, sentUp>> /\ hbuf = << >>
      /\ Numbered(tunnelled \o cachedUp \o hup, "piece", sentUp)
      /\ tunnelled \in Seq(UpUnit) /\ cachedUp \in Seq(UpUnit) /\ hup \in Seq(UpUnit)
      /\ tunnelled \o cachedUp \in Seq(UpUnit)
  BY DEF TunnelReads, httpClientVars, UpInv, PayloadUp, HttpState
<1>2. tunnelled' \o cachedUp' \o hup' = tunnelled \o cachedUp \o hup
  <2>1. CASE cachedUp # << >>
    <3>1. tunnelled' = tunnelled \o cachedUp /\ cachedUp' = << >> /\ hup' = hup
      BY <2>1 DEF TunnelReads
    <3>2. (tunnelled \o cachedUp) \o << >> = tunnelled \o cachedUp
      BY <1>1, ConcatEmptySeq, Zenon
    <3> QED
      BY <3>1, <3>2, Zenon
  <2>2. CASE cachedUp = << >>
    <3>1. tunnelled' = tunnelled \o hup /\ cachedUp' = << >> /\ hup' = << >>
      BY <2>2 DEF TunnelReads
    <3>2. tunnelled \o << >> = tunnelled /\ tunnelled \o hup \in Seq(UpUnit)
      BY <1>1, ConcatEmptySeq
    <3>3. (tunnelled \o hup) \o << >> = tunnelled \o hup
      BY <3>2, ConcatEmptySeq, Zenon
    <3> QED
      BY <2>2, <3>1, <3>2, <3>3, Zenon
  <2> QED
    BY <2>1, <2>2
<1> QED
  BY <1>1, <1>2 DEF UpInv, InStep, PayloadUp
\* A request that goes back to reading without its body taken has none: 407
\* keeps the connection only then, and 400 leaves a body where one is left.
LEMMA UpStep ==
  ASSUME HttpState, ~BodyStays, UpInv, HttpNext
  PROVE  UpInv'
<1>1. CASE ClientAsks
  BY <1>1, UpAsked
<1>2. CASE ClientPayload
  BY <1>2, UpPayload
<1>3. CASE ClientAnswer \/ ClientReceives
  <2>1. UNCHANGED <<hbuf, hup, tunnelled, cachedUp, sentUp, next, request, hpc, bodyLeft>>
    BY <1>3 DEF ClientAnswer, ClientReceives, httpServerVars
  <2> QED
    BY <2>1, UpKept DEF BodyNext, Looking, UpInv, InStep
<1>4. CASE HttpFill
  BY <1>4, UpFilled
<1>5. CASE ReadHttpRequest
  BY <1>5, UpRead
<1>6. CASE CheckAuthorization
  <2>1. /\ hpc = "auth" /\ UNCHANGED <<hbuf, hup, tunnelled, cachedUp, sentUp, next, request, bodyLeft>>
        /\ hpc' \in {"serve", "read", "error"} /\ (hpc' = "read" => ~request.body)
    BY <1>6 DEF CheckAuthorization, Answers, httpClientVars, Keeps407
  <2>2. ~bodyLeft
    BY <2>1 DEF UpInv, InStep, Looking
  <2>3. request.body \in BOOLEAN /\ (BodyNext <=> request.body)
    BY <2>1, RequestIs DEF HttpState, BodyNext, Looking
  <2>4. hpc' \in {"serve", "read"} => (BodyNext' <=> BodyNext) /\ ~bodyLeft'
    BY <2>1, <2>2, <2>3 DEF BodyNext, Looking
  <2> QED
    BY <2>1, <2>4, UpKept
<1>7. CASE Connect \/ Upgrade
  <2>1. hpc = "serve"
    BY <1>7 DEF Connect, Upgrade
  <2> QED
    BY <1>7, <2>1, UpTunnel
<1>8. CASE BadRequest
  <2>1. /\ hpc = "serve" /\ hpc' \in {"read", "error"} /\ request.method = "GET" /\ ~request.absolute
        /\ UNCHANGED <<hbuf, hup, tunnelled, cachedUp, sentUp, next, request, bodyLeft>>
    BY <1>8 DEF BadRequest, Answers, httpClientVars
  <2>2. request \in Requests
    BY <2>1 DEF HttpState
  <2>3. request.id \in 1 .. Len(script) /\ request = script[request.id]
    BY <2>2, RequestIs, Zenon
  <2>4. ~request.body
    BY <2>1, <2>3, Zenon DEF BodyStays
  <2>5. ~bodyLeft
    BY <2>1 DEF UpInv, InStep, Looking
  <2>6. hpc' = "read" => (BodyNext' <=> BodyNext) /\ ~Looking'
    BY <2>1, <2>4, <2>5 DEF BodyNext, Looking
  <2> QED
    BY <2>1, <2>6, UpKept
<1>9. CASE TakesBody
  BY <1>9, UpDone
<1>13. CASE Do
  <2>1. /\ hpc = "serve" /\ hpc' = "do" /\ bodyLeft' = request.body
        /\ UNCHANGED <<hbuf, hup, tunnelled, cachedUp, sentUp, next, request>>
    BY <1>13 DEF Do, httpClientVars
  <2> QED
    BY <2>1, UpKept DEF BodyNext, Looking
<1>14. CASE DoAnswers \/ DoFails
  <2>1. /\ hpc = "do" /\ hpc' \in {"read", "error"}
        /\ UNCHANGED <<hbuf, hup, tunnelled, cachedUp, sentUp, next, request, bodyLeft>>
    BY <1>14 DEF DoAnswers, DoFails, Answers, httpClientVars
  <2> QED
    BY <2>1, UpKept DEF BodyNext, Looking
<1>10. CASE HttpCallerCloses
  BY <1>10, UpKept DEF HttpCallerCloses, httpClientVars
<1>11. CASE TunnelReads
  BY <1>11, UpTunnelled
<1>12. CASE TunnelWrites
  BY <1>12, UpKept DEF TunnelWrites, httpClientVars
<1> QED
  BY <1>1, <1>2, <1>3, <1>4, <1>5, <1>6, <1>7, <1>8, <1>9, <1>10, <1>11, <1>12, <1>13, <1>14
     DEF HttpNext, HttpServer, HttpTarget

-----------------------------------------------------------------------------
\* The invariant holds before anything was written,
LEMMA HttpIInvInit == HttpInit => HttpIInv
<1> SUFFICES ASSUME HttpInit
             PROVE  HttpIInv
  OBVIOUS
<1>1. HttpState
  BY HttpStateInit
<1>2. << >> \o << >> = << >> /\ Len(<< >>) = 0
  OBVIOUS
<1>3. NoRequest.id = 0 /\ Len(script) \in Nat
  BY <1>1, IdsAreNumbers DEF NoRequest
<1>4. Numbered(<< >>, "piece", 0) /\ Numbered(<< >>, "answer", 0)
  BY EmptyNumbered
<1>5. StreamOK(<< >>, 0, 0) /\ ~HeadIsBody(<< >>)
  BY <1>2 DEF StreamOK, RequestsFollow, BodiesFollow, HeadIsBody
<1>6. InStep
  BY <1>2, <1>3, <1>5 DEF HttpInit, InStep, BodyNext, Looking
<1>7. PayloadUp /\ PayloadDown
  BY <1>2, <1>4 DEF HttpInit, PayloadUp, PayloadDown
<1>8. Answered
  <2>1. 0 \in 0 .. Len(script)
    BY <1>3
  <2>2. \E n \in 0 .. Len(script) : Numbered(answers \o hdown, "answer", n)
    BY <1>2, <1>4, <2>1 DEF HttpInit
  <2> QED
    BY <1>2, <1>3, <1>4, <2>2 DEF HttpInit, Answered
<1>9. ServesAuthorised /\ HttpAuthorised /\ KeepsWhileOpen /\ ClosedIsLast
  BY <1>2 DEF HttpInit, ServesAuthorised, HttpAuthorised, KeepsWhileOpen, KeepBut, ClosedIsLast
<1> QED
  BY <1>1, <1>6, <1>7, <1>8, <1>9 DEF HttpIInv

\* and every step of the client and of the server keeps it.
LEMMA HttpIInvStep == HttpIInv /\ [HttpNext]_httpVars => HttpIInv'
<1> SUFFICES ASSUME HttpIInv, [HttpNext]_httpVars
             PROVE  HttpIInv'
  OBVIOUS
<1>1. CASE UNCHANGED httpVars
  BY <1>1 DEF httpVars, HttpIInv, HttpState, Requests, UpUnit, DownUnit, HttpUsers, BodyStays,
              InStep, BodyNext, Looking, PayloadUp, Answered, PayloadDown, ServesAuthorised, HttpAuthorised,
              KeepsWhileOpen, KeepBut, ClosedIsLast
<1>2. CASE HttpNext
  <2>1. HttpState /\ PayloadDown /\ CallsInv
    BY DEF HttpIInv, CallsInv
  <2>2. HttpState'
    BY <1>2, <2>1, HttpStateClientStep, HttpStateServerStep DEF HttpNext
  <2>3. PayloadDown'
    BY <1>2, <2>1, PayloadDownStep
  <2>4. CallsInv'
    BY <1>2, <2>1, CallsStep
  <2>5. BodyStays' <=> BodyStays
    BY <1>2, ScriptStays, SameUnits
  <2>6. ASSUME ~BodyStays
        PROVE  InStep' /\ PayloadUp' /\ Answered'
    <3>1. UpInv /\ InStep /\ Answered
      BY <2>6 DEF HttpIInv, UpInv
    <3>2. UpInv'
      BY <1>2, <2>1, <2>6, <3>1, UpStep
    <3>3. Answered'
      BY <1>2, <2>1, <3>1, AnsweredStep
    <3> QED
      BY <3>2, <3>3 DEF UpInv
  <2> QED
    BY <2>2, <2>3, <2>4, <2>5, <2>6 DEF HttpIInv, CallsInv
<1> QED
  BY <1>1, <1>2

\* It says what the run checks.
LEMMA HttpIInvImplies == HttpIInv => HttpInv
<1> SUFFICES ASSUME HttpIInv
             PROVE  HttpInv
  OBVIOUS
<1>1. HttpAuthorised /\ ClosedIsLast /\ HttpState /\ PayloadDown
  BY DEF HttpIInv
<1>2. ASSUME ~BodyStays, hpc = "read", hbuf # << >>, ~bodyLeft
      PROVE  Head(hbuf)[1] # "body"
  <2>1. ~HeadIsBody(hbuf \o hup)
    BY <1>2 DEF HttpIInv, InStep, BodyNext, Looking
  <2>2. hbuf \o hup # << >> /\ (hbuf \o hup)[1] = Head(hbuf)
    BY <1>1, <1>2, ConcatTail DEF HttpState
  <2> QED
    BY <2>1, <2>2, Zenon DEF HeadIsBody
<1>3. HttpInSync
  BY <1>1, <1>2 DEF HttpIInv, PayloadUp, PayloadDown, Answered, HttpInSync
<1> QED
  BY <1>1, <1>3 DEF HttpInv

\* The stream behind the server, the payload in both directions, the answers
\* and the calls of the handler stay as HttpIInv says, in every order in which
\* the client's writes and reads and the steps of HandleConnectionEx happen.
THEOREM HttpInvariance == HttpSpec => []HttpIInv
<1>1. HttpInit => HttpIInv
  BY HttpIInvInit
<1>2. HttpIInv /\ [HttpNext]_httpVars => HttpIInv'
  BY HttpIInvStep
<1> QED
  BY <1>1, <1>2, PTL DEF HttpSpec

\* The proxy keeps in step with its client: a tunnel carries all payload, in
\* order, wherever the bufio.Reader's buffer ended; each request is answered
\* once, in turn; no body is read as a request but one that the handler has
\* answered unread; the handler is called for authorised requests only, in the
\* name of their user; and behind a plain request that closes the connection
\* it is called once more at most.
THEOREM HttpKeepsInStep == HttpSpec => []HttpInv
<1>1. HttpIInv => HttpInv
  BY HttpIInvImplies
<1> QED
  BY <1>1, HttpInvariance, PTL

-----------------------------------------------------------------------------
\* The reads of Socksaddr and Uot.  Then is a choice from a set of one.
LEMMA OneChoice == ASSUME NEW e PROVE (CHOOSE y \in {e} : TRUE) = e
OBVIOUS

LEMMA GotFields ==
  ASSUME NEW r, NEW v, NEW q, r = Got(v, q)
  PROVE  r.st = "ok" /\ r.v = v /\ r.rest = q
BY DEF Got

\* What was written in front of q is read, and q is left.
LEMMA FullRead ==
  ASSUME NEW p \in Seq(Nat), NEW q \in Seq(Nat), NEW n, n = Len(p)
  PROVE  ReadFull(p \o q, n) = Got(p, q)
<1>1. Len(p \o q) = Len(p) + Len(q) /\ p \o q \in Seq(Nat) /\ Len(p) \in Nat /\ Len(q) \in Nat
  OBVIOUS
<1>2. SubSeq(p \o q, 1, Len(p)) = p
  <2>1. SubSeq(p \o q, 1, Len(p)) \in Seq(Nat) /\ Len(SubSeq(p \o q, 1, Len(p))) = Len(p)
    BY <1>1
  <2>2. \A i \in 1 .. Len(p) : SubSeq(p \o q, 1, Len(p))[i] = p[i]
    BY <1>1
  <2> QED BY <2>1, <2>2
<1>3. SubSeq(p \o q, Len(p) + 1, Len(p \o q)) = q
  <2> DEFINE r == SubSeq(p \o q, Len(p) + 1, Len(p \o q))
  <2>1. r \in Seq(Nat) /\ Len(r) = Len(q)
    BY <1>1
  <2>2. \A i \in 1 .. Len(q) : r[i] = q[i]
    BY <1>1
  <2> QED BY <2>1, <2>2
<1>4. ~(Len(p \o q) < n)
  BY ONLY <1>1, n = Len(p)
<1>5. ReadFull(p \o q, n) = Got(SubSeq(p \o q, 1, n), SubSeq(p \o q, n + 1, Len(p \o q)))
  BY ONLY <1>4, Zenon DEF ReadFull
<1> QED BY ONLY <1>2, <1>3, <1>5, n = Len(p), Zenon

LEMMA ByteRead ==
  ASSUME NEW b \in Nat, NEW q \in Seq(Nat)
  PROVE  ReadByte(<<b>> \o q) = Got(b, q)
<1> DEFINE s == <<b>> \o q
           S == {IF x.st = "ok" THEN Got(x.v[1], x.rest) ELSE x : x \in {ReadFull(s, 1)}}
<1>1. ReadFull(s, 1) = Got(<<b>>, q)
  <2>1. <<b>> \in Seq(Nat) /\ Len(<<b>>) = 1
    BY ONLY b \in Nat
  <2> HIDE DEF S
  <2> QED BY <2>1, FullRead
<1>2. S = {Got(b, q)}
  BY <1>1 DEF Got
<1>3. ReadByte(s) = CHOOSE y \in S : TRUE
  BY DEF ReadByte, Then
<1> HIDE DEF S
<1> QED BY <1>2, <1>3, OneChoice

\* The two bytes of a 16-bit number, and the number they make.
LEMMA MaxUint16Is == MaxUint16 \in Int /\ MaxUint16 + 1 = 65536
BY DEF MaxUint16

LEMMA FitsUint16 == ASSUME NEW n \in 0 .. MaxUint16 PROVE n \in Nat /\ n % 65536 = n
<1>1. n \in Nat /\ n < MaxUint16 + 1
  BY MaxUint16Is
<1>2. n % (MaxUint16 + 1) = n
  BY <1>1, MaxUint16Is
<1> QED BY ONLY <1>1, <1>2, MaxUint16Is

LEMMA TwoBytes ==
  ASSUME NEW n \in Nat
  PROVE  n \div 256 \in Nat /\ n % 256 \in Nat /\ 256 * (n \div 256) + (n % 256) = n
OBVIOUS

LEMMA Uint16Read ==
  ASSUME NEW n \in 0 .. MaxUint16, NEW q \in Seq(Nat)
  PROVE  ReadUint16(Uint16(n) \o q) = Got(n, q) /\ Uint16(n) \in Seq(Nat)
<1> DEFINE hi == (n % 65536) \div 256
           lo == n % 256
           s == Uint16(n) \o q
           S == {IF x.st = "ok" THEN Got(256 * x.v[1] + x.v[2], x.rest) ELSE x : x \in {ReadFull(s, 2)}}
<1>0. hi \in Nat /\ lo \in Nat /\ 256 * hi + lo = n
  BY ONLY FitsUint16, n \in 0 .. MaxUint16, TwoBytes
<1> HIDE DEF hi, lo
<1>t. Uint16(n) = <<hi, lo>> /\ Uint16(n) \in Seq(Nat) /\ Len(Uint16(n)) = 2
  BY <1>0 DEF Uint16, hi, lo
<1>1. ReadFull(s, 2) = Got(<<hi, lo>>, q)
  BY <1>t, FullRead
<1>2. S = {Got(n, q)}
  BY <1>1, <1>0 DEF Got
<1>3. ReadUint16(s) = CHOOSE y \in S : TRUE
  BY DEF ReadUint16, Then
<1> HIDE DEF S
<1> QED BY <1>t, <1>2, <1>3, OneChoice

LEMMA StringRead ==
  ASSUME NEW p \in Seq(Nat), NEW q \in Seq(Nat)
  PROVE  ReadSockString(WriteSocksString(p) \o q) = Got(p, q) /\ WriteSocksString(p) \in Seq(Nat)
<1> DEFINE s == WriteSocksString(p) \o q
           S == {IF x.st = "ok" THEN ReadFull(x.rest, x.v) ELSE x : x \in {ReadByte(s)}}
<1>0. Len(p) \in Nat /\ p \o q \in Seq(Nat) /\ <<Len(p)>> \in Seq(Nat) /\ WriteSocksString(p) \in Seq(Nat)
  BY DEF WriteSocksString
<1>t. s = <<Len(p)>> \o (p \o q)
  BY ONLY <1>0, ConcatAssociative, p \in Seq(Nat), q \in Seq(Nat) DEF WriteSocksString
<1>1. ReadByte(s) = Got(Len(p), p \o q)
  BY <1>0, <1>t, ByteRead
<1>2. S = {Got(p, q)}
  <2>1. ReadFull(p \o q, Len(p)) = Got(p, q)
    BY FullRead
  <2> DEFINE r == ReadByte(s)
  <2>2. r.st = "ok" /\ r.v = Len(p) /\ r.rest = p \o q
    BY ONLY <1>1, GotFields
  <2> HIDE DEF r
  <2>3. {IF x.st = "ok" THEN ReadFull(x.rest, x.v) ELSE x : x \in {r}} = {ReadFull(p \o q, Len(p))}
    BY ONLY <2>2
  <2> QED BY ONLY <2>1, <2>3 DEF r
<1>3. ReadSockString(s) = CHOOSE y \in S : TRUE
  BY DEF ReadSockString, Then
<1> HIDE DEF S
<1> QED BY <1>0, <1>2, <1>3, OneChoice

Serializers == {SocksaddrSerializer, AddrParser}

\* Both serializers have a byte for each family, no two the same.
LEMMA SerializerBytes ==
  ASSUME NEW ser \in Serializers
  PROVE  /\ DOMAIN ser.familyByteMap = {"IPv4", "IPv6", "Fqdn"}
         /\ ~ser.portFirst
         /\ \A f \in {"IPv4", "IPv6", "Fqdn"} : ser.familyByteMap[f] \in Nat
         /\ \A f, g \in {"IPv4", "IPv6", "Fqdn"} : ser.familyByteMap[f] = ser.familyByteMap[g] => f = g
<1>1. CASE ser = SocksaddrSerializer
  BY <1>1 DEF SocksaddrSerializer
<1>2. CASE ser = AddrParser
  BY <1>2 DEF AddrParser
<1> QED BY <1>1, <1>2 DEF Serializers

LEMMA ByteFits == ASSUME NEW c \in Byte PROVE c \in Nat /\ ~(c > MaxUint8)
BY DEF Byte, MaxUint8

LEMMA BytesAreNumbers == ASSUME NEW v \in Seq(Byte) PROVE v \in Seq(Nat)
<1>1. \A c \in Byte : c \in Nat
  BY ByteFits
<1> QED BY ONLY <1>1, v \in Seq(Byte)

\* What a read that found its bytes goes on with.
LEMMA ReadOn4 ==
  ASSUME NEW r, NEW v, NEW q, r = Got(v, q)
  PROVE  {IF x.st = "ok" THEN Got(IP(x.v, 0), x.rest) ELSE x : x \in {r}} = {Got(IP(v, 0), q)}
<1>1. r.st = "ok" /\ r.v = v /\ r.rest = q
  BY GotFields
<1> QED BY ONLY <1>1

LEMMA ReadOn6 ==
  ASSUME NEW r, NEW v, NEW q, r = Got(v, q)
  PROVE  {IF x.st = "ok" THEN Got(Unwrap(IP(x.v, 0)), x.rest) ELSE x : x \in {r}} = {Got(Unwrap(IP(v, 0)), q)}
<1>1. r.st = "ok" /\ r.v = v /\ r.rest = q
  BY GotFields
<1> QED BY ONLY <1>1

\* A name has no letters of an address' text.
LEMMA NameParsed ==
  ASSUME NEW v \in Seq(Byte), NEW port
  PROVE  ParseSocksaddrHostPort(v, port) = Domain(v, port)
<1> DEFINE t == unwrapIPv6Address(v)
<1>1. t \in Seq(Byte)
  BY DEF unwrapIPv6Address
<1>2. ~IsAddrText(t)
  <2>1. SUFFICES ASSUME IsAddrText(t) PROVE FALSE
    OBVIOUS
  <2> HIDE DEF t
  <2>2. 1 \in 1 .. Len(t)
    <3> DEFINE n == Len(t)
    <3>1. n = 4 \/ n = 16
      BY ONLY <2>1 DEF IsAddrText
    <3> HIDE DEF n
    <3>2. 1 \in 1 .. n
      BY ONLY <3>1
    <3> QED BY ONLY <3>2 DEF n
  <2>3. t[1] > MaxUint8
    BY ONLY <2>1, <2>2 DEF IsAddrText
  <2>4. t[1] \in Byte
    BY ONLY <1>1, <2>2
  <2> QED BY ONLY <2>3, <2>4, ByteFits, Zenon
<1> HIDE DEF t
<1> QED BY <1>2 DEF ParseSocksaddrHostPort, t

LEMMA FamilyRead ==
  ASSUME NEW ser \in Serializers, NEW f \in {"IPv4", "IPv6", "Fqdn"},
         NEW K, K = {g \in DOMAIN ser.familyByteMap : ser.familyByteMap[g] = ser.familyByteMap[f]}
  PROVE  (IF K = {} THEN "unknown" ELSE CHOOSE g \in K : TRUE) = f
<1>1. K = {f}
  BY SerializerBytes
<1>2. (CHOOSE g \in {f} : TRUE) = f
  BY OneChoice
<1> QED BY ONLY <1>1, <1>2

\* The bytes w stand for an address of the family f: the bytes v, or the
\* name v.
Stands(f, w, v) ==
  /\ f \in {"IPv4", "IPv6", "Fqdn"} /\ w \in Seq(Nat) /\ v \in Seq(Byte)
  /\ f = "IPv4" => w = v /\ Len(v) = 4
  /\ f = "IPv6" => w = v /\ Len(v) = 16
  /\ f = "Fqdn" => w = WriteSocksString(v) /\ v # <<>>
AddressOf(f, v) ==
  IF f = "IPv4" THEN IP(v, 0) ELSE IF f = "IPv6" THEN Unwrap(IP(v, 0)) ELSE Domain(v, 0)
AddressBytes(ser, f, w, q) == <<ser.familyByteMap[f]>> \o (w \o q)

\* The address without its port.
LEMMA AddressRead ==
  ASSUME NEW ser \in Serializers, NEW f, NEW w, NEW v, Stands(f, w, v), NEW q \in Seq(Nat)
  PROVE  ReadAddress(ser, AddressBytes(ser, f, w, q)) = Got(AddressOf(f, v), q)
<1> USE DEF Stands
<1> DEFINE b == ser.familyByteMap[f]
           s == AddressBytes(ser, f, w, q)
           Known(af) == {g \in DOMAIN ser.familyByteMap : ser.familyByteMap[g] = af}
           Fam(af) == IF Known(af) = {} THEN "unknown" ELSE CHOOSE g \in Known(af) : TRUE
           S4(rest) == {IF x.st = "ok" THEN Got(IP(x.v, 0), x.rest) ELSE x : x \in {ReadFull(rest, 4)}}
           S6(rest) == {IF x.st = "ok" THEN Got(Unwrap(IP(x.v, 0)), x.rest) ELSE x : x \in {ReadFull(rest, 16)}}
           SF(rest) == {IF x.st = "ok" THEN Got(ParseSocksaddrHostPort(x.v, 0), x.rest) ELSE x : x \in {ReadSockString(rest)}}
           Body(af, rest) ==
             CASE Fam(af) = "IPv4" -> CHOOSE y \in S4(rest) : TRUE
               [] Fam(af) = "IPv6" -> CHOOSE y \in S6(rest) : TRUE
               [] Fam(af) = "Fqdn" -> CHOOSE y \in SF(rest) : TRUE
               [] Fam(af) = "Empty" -> Got(Invalid, rest)
               [] OTHER -> Bad
           S == {IF x.st = "ok" THEN Body(x.v, x.rest) ELSE x : x \in {ReadByte(s)}}
<1>0. v \in Seq(Nat) /\ b \in Nat /\ w \o q \in Seq(Nat)
  <2>1. v \in Seq(Nat)
    BY BytesAreNumbers
  <2>2. b \in Nat
    BY SerializerBytes
  <2>3. w \o q \in Seq(Nat)
    BY ConcatProperties
  <2> QED BY ONLY <2>1, <2>2, <2>3
<1>1. ReadByte(s) = Got(b, w \o q)
  BY <1>0, ByteRead DEF AddressBytes
<1>2. ReadAddress(ser, s) = CHOOSE y \in S : TRUE
  BY DEF ReadAddress, Then
<1>3. Fam(b) = f
  BY FamilyRead
<1>4. f = "IPv4" => S4(w \o q) = {Got(IP(v, 0), q)}
  <2>1. f = "IPv4" => ReadFull(w \o q, 4) = Got(v, q)
    BY <1>0, FullRead
  <2> QED BY ONLY <2>1, ReadOn4
<1>5. f = "IPv6" => S6(w \o q) = {Got(Unwrap(IP(v, 0)), q)}
  <2>1. f = "IPv6" => ReadFull(w \o q, 16) = Got(v, q)
    BY <1>0, FullRead
  <2> QED BY ONLY <2>1, ReadOn6
<1>6. f = "Fqdn" => SF(w \o q) = {Got(Domain(v, 0), q)}
  BY <1>0, StringRead, NameParsed DEF Got
<1>7. Body(b, w \o q) = Got(AddressOf(f, v), q)
  <2> HIDE DEF Fam, S4, S6, SF
  <2>1. CASE f = "IPv4"
    BY ONLY <2>1, <1>3, <1>4, OneChoice DEF AddressOf
  <2>2. CASE f = "IPv6"
    BY ONLY <2>2, <1>3, <1>5, OneChoice DEF AddressOf
  <2>3. CASE f = "Fqdn"
    BY ONLY <2>3, <1>3, <1>6, OneChoice DEF AddressOf
  <2> QED BY <2>1, <2>2, <2>3
<1> HIDE DEF Body
<1>8. S = {Body(b, w \o q)}
  <2> DEFINE r == ReadByte(s)
           rest1 == w \o q
  <2>0. r = Got(b, rest1)
    BY <1>1
  <2> HIDE DEF r, b, rest1
  <2>1. r.st = "ok" /\ r.v = b /\ r.rest = rest1
    BY ONLY <2>0, GotFields
  <2>2. {IF x.st = "ok" THEN Body(x.v, x.rest) ELSE x : x \in {r}} = {Body(b, rest1)}
    BY ONLY <2>1
  <2> QED BY ONLY <2>2 DEF r, rest1
<1> HIDE DEF S
<1> QED BY <1>2, <1>7, <1>8, OneChoice

\* The port behind it.
LEMMA AddrPortRead ==
  ASSUME NEW ser \in Serializers, NEW a, IsValid(a), NEW n \in 0 .. MaxUint16, NEW q \in Seq(Nat), NEW s,
         ReadAddress(ser, s) = Got(a, Uint16(n) \o q)
  PROVE  ReadAddrPort(ser, s) = Got([a EXCEPT !.Port = n], q)
<1> DEFINE P(b, rest) == {IF x.st = "ok" THEN Got([b EXCEPT !.Port = x.v], x.rest) ELSE x : x \in {ReadUint16(rest)}}
           Body(b, rest) == IF IsValid(b) THEN CHOOSE y \in P(b, rest) : TRUE ELSE Got(b, rest)
           rr == ReadAddress(ser, s)
           rest1 == Uint16(n) \o q
           S == {IF x.st = "ok" THEN Body(x.v, x.rest) ELSE x : x \in {rr}}
<1>1. ReadAddrPort(ser, s) = CHOOSE y \in S : TRUE
  BY SerializerBytes DEF ReadAddrPort, Then
<1>2. rr = Got(a, rest1)
  OBVIOUS
<1>3. ReadUint16(rest1) = Got(n, q)
  BY Uint16Read
<1> HIDE DEF rr, rest1
<1>4. P(a, rest1) = {Got([a EXCEPT !.Port = n], q)}
  <2> DEFINE u == ReadUint16(rest1)
  <2>1. u = Got(n, q)
    BY <1>3
  <2> HIDE DEF u
  <2>2. u.st = "ok" /\ u.v = n /\ u.rest = q
    BY ONLY <2>1, GotFields
  <2>3. {IF x.st = "ok" THEN Got([a EXCEPT !.Port = x.v], x.rest) ELSE x : x \in {u}} = {Got([a EXCEPT !.Port = n], q)}
    BY ONLY <2>2
  <2> QED BY ONLY <2>3 DEF u
<1> HIDE DEF P
<1>5. Body(a, rest1) = Got([a EXCEPT !.Port = n], q)
  BY ONLY <1>4, OneChoice, IsValid(a)
<1> HIDE DEF Body
<1>6. S = {Body(a, rest1)}
  <2>1. rr.st = "ok" /\ rr.v = a /\ rr.rest = rest1
    BY ONLY <1>2, GotFields
  <2> QED BY ONLY <2>1
<1> HIDE DEF S
<1> QED BY ONLY <1>1, <1>5, <1>6, OneChoice

LEMMA NonEmpty == ASSUME NEW s, Len(s) \in Nat, Len(s) # 0 PROVE s # <<>>
<1>1. s = <<>> => Len(s) = 0
  BY EmptySeq
<1> QED BY ONLY <1>1, Len(s) # 0, Zenon

\* An address of each family, read and its port put back, is the address.
LEMMA FamilyIs ==
  ASSUME NEW a
  PROVE  /\ Family(a) = "IPv4" => IsIPv4(a)
         /\ Family(a) = "IPv6" => IsIPv6(a)
         /\ Family(a) = "Fqdn" => IsValid(a) /\ ~IsIPv4(a) /\ ~IsIPv6(a)
         /\ Family(a) \in {"Empty", "IPv4", "IPv6", "Fqdn"}
         /\ Family(a) # "Empty" => IsValid(a)
BY DEF Family

LEMMA Socksaddr4 ==
  ASSUME NEW a \in Socksaddrs, Family(a) = "IPv4"
  PROVE  a.Addr \in Seq(Byte) /\ Len(a.Addr) = 4 /\ IsValid(IP(a.Addr, 0))
         /\ [IP(a.Addr, 0) EXCEPT !.Port = a.Port] = Unwrap(a)
<1>1. a \in [Addr : Seq(Byte), Port : 0 .. MaxUint16, Fqdn : Seq(Byte)]
  BY DEF Socksaddrs
<1>2. a.Addr # <<>> /\ a.Fqdn = <<>> /\ Len(a.Addr) = 4
  <2>1. Len(a.Addr) = 4
    <3>1. IsIPv4(a)
      BY ONLY FamilyIs, Family(a) = "IPv4"
    <3> QED BY ONLY <3>1 DEF IsIPv4
  <2>2. a.Addr # <<>>
    BY ONLY <2>1, NonEmpty
  <2> QED BY <2>1, <2>2 DEF Socksaddrs
<1>3. a = [Addr |-> a.Addr, Port |-> a.Port, Fqdn |-> <<>>]
  BY ONLY <1>1, <1>2
<1>4. ~Is4In6(a)
  BY ONLY <1>2 DEF Is4In6, IsIPv6
<1>5. Unwrap(a) = a
  BY ONLY <1>4 DEF Unwrap
<1>6. [IP(a.Addr, 0) EXCEPT !.Port = a.Port] = [Addr |-> a.Addr, Port |-> a.Port, Fqdn |-> <<>>]
  BY ONLY TRUE DEF IP
<1>7. IsValid(IP(a.Addr, 0))
  BY ONLY <1>2 DEF IsValid, IP
<1>8. a.Addr \in Seq(Byte)
  BY ONLY <1>1
<1> QED BY ONLY <1>2, <1>3, <1>5, <1>6, <1>7, <1>8, Zenon

LEMMA Socksaddr6 ==
  ASSUME NEW a \in Socksaddrs, Family(a) = "IPv6"
  PROVE  a.Addr \in Seq(Byte) /\ Len(a.Addr) = 16 /\ IsValid(Unwrap(IP(a.Addr, 0)))
         /\ [Unwrap(IP(a.Addr, 0)) EXCEPT !.Port = a.Port] = Unwrap(a)
<1>1. a \in [Addr : Seq(Byte), Port : 0 .. MaxUint16, Fqdn : Seq(Byte)]
  BY DEF Socksaddrs
<1>2. a.Addr # <<>> /\ a.Fqdn = <<>> /\ Len(a.Addr) = 16
  <2>1. Len(a.Addr) = 16
    <3>1. IsIPv6(a)
      BY ONLY FamilyIs, Family(a) = "IPv6"
    <3> QED BY ONLY <3>1 DEF IsIPv6
  <2>2. a.Addr # <<>>
    BY ONLY <2>1, NonEmpty
  <2> QED BY <2>1, <2>2 DEF Socksaddrs
<1>3. a = IP(a.Addr, a.Port)
  BY ONLY <1>1, <1>2 DEF IP
<1>4. a.Addr \in Seq(Byte)
  BY ONLY <1>1
<1> DEFINE w == SubSeq(a.Addr, 13, 16)
           z == IP(a.Addr, 0)
<1>5. w # <<>>
  <2>1. w \in Seq(Byte) /\ Len(w) = 4
    BY ONLY <1>2, <1>4
  <2> HIDE DEF w
  <2> QED BY ONLY <2>1
<1>6. Is4In6(z) <=> Is4In6(a)
  BY ONLY TRUE DEF Is4In6, IsIPv6, IP
<1>7. z.Addr = a.Addr /\ z.Port = 0 /\ z.Fqdn = <<>>
  BY ONLY TRUE DEF IP
<1> HIDE DEF w
<1>8. CASE Is4In6(a)
  <2>1. Unwrap(z) = IP(w, 0) /\ Unwrap(a) = IP(w, a.Port)
    BY ONLY <1>6, <1>7, <1>8, Zenon DEF Unwrap, w
  <2>2. IsValid(IP(w, 0)) /\ [IP(w, 0) EXCEPT !.Port = a.Port] = IP(w, a.Port)
    BY ONLY <1>5 DEF IsValid, IP
  <2> QED BY <2>1, <2>2, <1>2, <1>4
<1>9. CASE ~Is4In6(a)
  <2>1. Unwrap(z) = z /\ Unwrap(a) = a
    BY ONLY <1>6, <1>9, Zenon DEF Unwrap
  <2>2. IsValid(z) /\ [z EXCEPT !.Port = a.Port] = IP(a.Addr, a.Port)
    BY ONLY <1>2 DEF IsValid, IP
  <2> QED BY <2>1, <2>2, <1>2, <1>3, <1>4
<1> QED BY <1>8, <1>9

LEMMA SocksaddrName ==
  ASSUME NEW a \in Socksaddrs, Family(a) = "Fqdn"
  PROVE  a.Fqdn \in Seq(Byte) /\ a.Fqdn # <<>> /\ IsValid(Domain(a.Fqdn, 0))
         /\ [Domain(a.Fqdn, 0) EXCEPT !.Port = a.Port] = Unwrap(a)
<1>1. a \in [Addr : Seq(Byte), Port : 0 .. MaxUint16, Fqdn : Seq(Byte)] /\ Len(a.Addr) \in {0, 4, 16}
  BY DEF Socksaddrs
<1>2. IsValid(a) /\ ~IsIPv4(a) /\ ~IsIPv6(a)
  BY ONLY FamilyIs, Family(a) = "Fqdn"
<1>3. Len(a.Addr) = 0
  BY ONLY <1>1, <1>2 DEF IsIPv4, IsIPv6
<1>4. a.Addr = <<>>
  BY ONLY <1>1, <1>3
<1>5. a.Fqdn # <<>>
  BY ONLY <1>2, <1>4 DEF IsValid, IsDomain
<1>6. a = Domain(a.Fqdn, a.Port)
  BY ONLY <1>1, <1>4 DEF Domain
<1>7. Unwrap(a) = a
  BY ONLY <1>2 DEF Unwrap, Is4In6
<1>8. [Domain(a.Fqdn, 0) EXCEPT !.Port = a.Port] = Domain(a.Fqdn, a.Port)
  BY ONLY TRUE DEF Domain
<1>9. IsValid(Domain(a.Fqdn, 0))
  BY ONLY <1>5 DEF IsValid, IsDomain, Domain
<1> QED BY ONLY <1>1, <1>5, <1>6, <1>7, <1>8, <1>9

\* Streams, and concatenation under a name that keeps a term together.
Stream == Seq(Nat)
Cat(s, t) == s \o t

LEMMA CatStream == ASSUME NEW s \in Stream, NEW t \in Stream PROVE Cat(s, t) \in Stream
BY ConcatProperties DEF Stream, Cat

LEMMA CatTwo ==
  ASSUME NEW s \in Stream, NEW t \in Stream, NEW u \in Stream
  PROVE  Cat(Cat(s, t), u) = Cat(s, Cat(t, u))
<1>1. s \in Seq(Nat) /\ t \in Seq(Nat) /\ u \in Seq(Nat)
  BY Zenon DEF Stream
<1>2. (s \o t) \o u = s \o (t \o u)
  BY ONLY <1>1, ConcatAssociative, SMTT(60)
<1> QED BY ONLY <1>2, Zenon DEF Cat

LEMMA CatThree ==
  ASSUME NEW s \in Stream, NEW t \in Stream, NEW u \in Stream, NEW v \in Stream
  PROVE  /\ Cat(Cat(Cat(s, t), u), v) = Cat(s, Cat(t, Cat(u, v)))
         /\ Cat(Cat(s, t), u) \in Stream
<1>1. Cat(s, t) \in Stream /\ Cat(u, v) \in Stream
  BY CatStream
<1>2. Cat(Cat(s, t), Cat(u, v)) = Cat(s, Cat(t, Cat(u, v)))
  BY <1>1, CatTwo
<1>3. Cat(Cat(Cat(s, t), u), v) = Cat(Cat(s, t), Cat(u, v))
  BY <1>1, CatTwo
<1>4. Cat(Cat(s, t), u) \in Stream
  BY <1>1, CatStream
<1> QED BY ONLY <1>2, <1>3, <1>4, Zenon

\* What is written of an address is read as the address, an IPv4 address in
\* IPv6 as the IPv4 address.
LEMMA SocksaddrRead ==
  ASSUME NEW ser \in Serializers, NEW a \in Socksaddrs, CanWriteAddress(ser, a), NEW q \in Seq(Nat)
  PROVE  /\ WriteAddrPort(ser, a) \in Seq(Nat)
         /\ ReadAddrPort(ser, WriteAddrPort(ser, a) \o q) = Got(Unwrap(a), q)
<1> DEFINE f == Family(a)
           port == Uint16(a.Port)
           w == IF f = "Fqdn" THEN WriteSocksString(a.Fqdn) ELSE a.Addr
           v == IF f = "Fqdn" THEN a.Fqdn ELSE a.Addr
           b == ser.familyByteMap[f]
           r == AddressOf(f, v)
           bytes == WriteAddrPort(ser, a) \o q
<1>1. f \in {"IPv4", "IPv6", "Fqdn"}
  BY SerializerBytes DEF CanWriteAddress
<1>2. IsValid(a)
  BY ONLY <1>1, FamilyIs
<1>3. a.Port \in 0 .. MaxUint16
  BY DEF Socksaddrs
<1>4. port \in Seq(Nat) /\ port \o q \in Seq(Nat)
  BY <1>3, Uint16Read, ConcatProperties
<1>5. b \in Nat /\ <<b>> \in Seq(Nat)
  BY <1>1, SerializerBytes
<1>6. /\ w \in Seq(Nat) /\ Stands(f, w, v) /\ IsValid(r) /\ [r EXCEPT !.Port = a.Port] = Unwrap(a)
  <2>1. CASE f = "IPv4"
    BY <2>1, Socksaddr4, BytesAreNumbers DEF Stands, AddressOf
  <2>2. CASE f = "IPv6"
    BY <2>2, Socksaddr6, BytesAreNumbers DEF Stands, AddressOf
  <2>3. CASE f = "Fqdn"
    <3>1. a.Fqdn \in Seq(Nat)
      BY <2>3, SocksaddrName, BytesAreNumbers
    <3> QED BY <2>3, <3>1, SocksaddrName, StringRead, EmptySeq DEF Stands, AddressOf
  <2> QED BY <1>1, <2>1, <2>2, <2>3
<1>7. WriteAddrPort(ser, a) = (<<b>> \o w) \o port
  BY <1>2, SerializerBytes, Zenon DEF WriteAddrPort, WriteAddress
<1> HIDE DEF f, port, w, v, b, r
<1>8. WriteAddrPort(ser, a) \in Seq(Nat) /\ bytes = <<b>> \o (w \o (port \o q))
  <2> DEFINE hd == <<b>>
  <2>1. hd \in Stream /\ w \in Stream /\ port \in Stream /\ q \in Stream
    BY ONLY <1>4, <1>5, <1>6, q \in Seq(Nat) DEF Stream
  <2> HIDE DEF hd
  <2>2. Cat(Cat(hd, w), port) \in Stream /\ Cat(Cat(Cat(hd, w), port), q) = Cat(hd, Cat(w, Cat(port, q)))
    BY ONLY <2>1, CatThree
  <2> QED BY ONLY <2>2, <1>7, Zenon DEF hd, Cat, Stream
<1>10. ReadAddress(ser, bytes) = Got(r, port \o q)
  <2> DEFINE pq == port \o q
  <2>0. pq \in Seq(Nat)
    BY <1>4
  <2> HIDE DEF pq
  <2>1. bytes = AddressBytes(ser, f, w, pq) /\ r = AddressOf(f, v)
    BY ONLY <1>8, Zenon DEF AddressBytes, b, pq, r
  <2>2. ReadAddress(ser, AddressBytes(ser, f, w, pq)) = Got(AddressOf(f, v), pq)
    BY <1>6, <2>0, AddressRead
  <2> QED BY ONLY <2>1, <2>2, Zenon DEF pq
<1>11. ReadAddrPort(ser, bytes) = Got([r EXCEPT !.Port = a.Port], q)
  <2> HIDE DEF bytes
  <2> QED BY <1>3, <1>6, <1>10, AddrPortRead DEF port
<1> QED BY <1>6, <1>8, <1>11

-----------------------------------------------------------------------------
LEMMA Uint16Fits == ASSUME NEW n \in Nat, n <= MaxUint16 PROVE n \in 0 .. MaxUint16
<1>1. MaxUint16 \in Nat
  BY ONLY TRUE DEF MaxUint16
<1>2. \A m \in Nat : n <= m => n \in 0 .. m
  BY ONLY n \in Nat
<1> QED BY ONLY <1>1, <1>2, n <= MaxUint16, Zenon

LEMMA LengthFits ==
  ASSUME NEW data \in Seq(Byte), Len(data) <= MaxUint16
  PROVE  Len(data) \in 0 .. MaxUint16
<1> DEFINE n == Len(data)
<1>1. n \in Nat /\ n <= MaxUint16
  BY LenProperties
<1> HIDE DEF n
<1>2. n \in 0 .. MaxUint16
  BY ONLY <1>1, Uint16Fits
<1> QED BY ONLY <1>2 DEF n

\* A frame in front of q: the address, if there is one, the length, the data.
LEMMA FrameSplit ==
  ASSUME NEW c \in BOOLEAN, NEW a \in Socksaddrs, CanWriteAddress(AddrParser, a),
         NEW data \in Seq(Byte), Len(data) <= MaxUint16, NEW q \in Stream
  PROVE  LET head == IF c THEN <<>> ELSE WriteAddrPort(AddrParser, a)
             body == Cat(Uint16(Len(data)), Cat(data, q))
         IN  /\ head \in Stream /\ body \in Stream /\ Frame(c, a, data) \in Stream
             /\ Cat(Frame(c, a, data), q) = Cat(head, body)
             /\ Cat(data, q) \in Stream
<1> DEFINE head == IF c THEN <<>> ELSE WriteAddrPort(AddrParser, a)
           length == Uint16(Len(data))
           body == Cat(length, Cat(data, q))
<1>1. head \in Stream
  <2>1. <<>> \in Stream
    BY DEF Stream
  <2>2. AddrParser \in Serializers
    BY DEF Serializers
  <2>3. WriteAddrPort(AddrParser, a) \in Stream
    BY <2>2, <2>1, SocksaddrRead DEF Stream
  <2> QED BY <2>1, <2>3
<1>2. length \in Stream
  <2>1. Len(data) \in 0 .. MaxUint16
    BY LengthFits
  <2> QED BY <2>1, Uint16Read, EmptySeq DEF Stream
<1>3. data \in Stream
  BY BytesAreNumbers DEF Stream
<1> HIDE DEF head, length
<1>4. Frame(c, a, data) = Cat(Cat(head, length), data)
  BY Zenon DEF Frame, Cat, head, length
<1>5. /\ Cat(Cat(Cat(head, length), data), q) = Cat(head, Cat(length, Cat(data, q)))
      /\ Cat(Cat(head, length), data) \in Stream
  BY ONLY <1>1, <1>2, <1>3, CatThree, q \in Stream
<1>6. Cat(data, q) \in Stream /\ body \in Stream
  BY <1>2, <1>3, CatStream
<1> QED BY ONLY <1>1, <1>4, <1>5, <1>6, Zenon DEF head, length

LEMMA EmptyCat == ASSUME NEW q \in Stream PROVE Cat(<<>>, q) = q /\ Cat(q, <<>>) = q /\ <<>> \in Stream
BY ConcatEmptySeq, EmptySeq DEF Cat, Stream

\* What follows on a read that found its bytes, and on one that did not.
LEMMA DataRead ==
  ASSUME NEW a, NEW data \in Stream, NEW q \in Stream
  PROVE  (CHOOSE y \in {IF x.st = "ok" THEN Got(<<a, x.v>>, x.rest) ELSE x : x \in {ReadFull(Cat(data, q), Len(data))}} : TRUE)
           = Got(<<a, data>>, q)
<1> DEFINE r == ReadFull(Cat(data, q), Len(data))
           S == {IF x.st = "ok" THEN Got(<<a, x.v>>, x.rest) ELSE x : x \in {r}}
<1>1. r = Got(data, q)
  BY FullRead DEF Cat, Stream
<1> HIDE DEF r
<1>2. r.st = "ok" /\ r.v = data /\ r.rest = q
  BY ONLY <1>1, GotFields
<1>3. S = {Got(<<a, data>>, q)}
  BY ONLY <1>2
<1> HIDE DEF S
<1>4. (CHOOSE y \in S : TRUE) = Got(<<a, data>>, q)
  BY ONLY <1>3, OneChoice
<1> QED BY ONLY <1>4, Zenon DEF S, r

\* A frame is read as its packet, or is too long for the buffer.
LEMMA FrameRead ==
  ASSUME NEW c \in BOOLEAN, NEW a \in Socksaddrs, CanWriteAddress(AddrParser, a),
         NEW data \in Seq(Byte), Len(data) <= MaxUint16, NEW q \in Stream, NEW d, NEW capacity
  PROVE  ReadFrame(c, d, capacity, Cat(Frame(c, a, data), q))
           = IF Len(data) > capacity THEN Bad ELSE Got(<<IF c THEN d ELSE Unwrap(a), data>>, q)
<1> DEFINE s == Cat(Frame(c, a, data), q)
           head == IF c THEN <<>> ELSE WriteAddrPort(AddrParser, a)
           length == Len(data)
           rest == Cat(data, q)
           body == Cat(Uint16(length), rest)
           to == IF c THEN d ELSE Unwrap(a)
           result == IF length > capacity THEN Bad ELSE Got(<<to, data>>, q)
           r1 == IF c THEN Got(d, s) ELSE ReadAddrPort(AddrParser, s)
           S3(b, n, s2) == {IF x.st = "ok" THEN Got(<<b, x.v>>, x.rest) ELSE x : x \in {ReadFull(s2, n)}}
           B2(b, n, s2) == IF n > capacity THEN Bad ELSE CHOOSE y \in S3(b, n, s2) : TRUE
           S2(b, s1) == {IF x.st = "ok" THEN B2(b, x.v, x.rest) ELSE x : x \in {ReadUint16(s1)}}
           B1(b, s1) == CHOOSE y \in S2(b, s1) : TRUE
           S1 == {IF x.st = "ok" THEN B1(x.v, x.rest) ELSE x : x \in {r1}}
<1>1. head \in Stream /\ body \in Stream /\ s = Cat(head, body) /\ rest \in Stream
  BY FrameSplit
<1>2. ReadFrame(c, d, capacity, s) = CHOOSE y \in S1 : TRUE
  BY Zenon DEF ReadFrame, Then
<1>3. r1 = Got(to, body)
  <2> HIDE DEF s, body
  <2>1. CASE c
    <3>1. s = body
      BY ONLY <1>1, <2>1, EmptyCat
    <3> QED BY ONLY <2>1, <3>1
  <2>2. CASE ~c
    <3>1. s = Cat(WriteAddrPort(AddrParser, a), body)
      BY ONLY <1>1, <2>2
    <3>2. AddrParser \in Serializers
      BY ONLY TRUE DEF Serializers
    <3>3. ReadAddrPort(AddrParser, Cat(WriteAddrPort(AddrParser, a), body)) = Got(Unwrap(a), body)
      BY <1>1, <3>2, SocksaddrRead DEF Cat, Stream
    <3> QED BY ONLY <2>2, <3>1, <3>3
  <2> QED BY <2>1, <2>2
<1>4. ReadUint16(body) = Got(length, rest)
  <2>1. Len(data) \in 0 .. MaxUint16
    BY LengthFits
  <2> HIDE DEF length, rest
  <2>2. length \in 0 .. MaxUint16
    BY <2>1 DEF length
  <2> QED BY ONLY <1>1, <2>2, Uint16Read DEF Cat, Stream
<1>5. (CHOOSE y \in S3(to, length, rest) : TRUE) = Got(<<to, data>>, q)
  <2>1. data \in Stream
    BY BytesAreNumbers DEF Stream
  <2> HIDE DEF to
  <2> QED BY ONLY <2>1, DataRead, q \in Stream, Zenon
<1> HIDE DEF S3, length, rest, to, body
<1>6. B2(to, length, rest) = result
  BY ONLY <1>5
<1> HIDE DEF B2, result
<1>7. S2(to, body) = {result}
  <2> DEFINE r2 == ReadUint16(body)
  <2>1. r2 = Got(length, rest)
    BY ONLY <1>4
  <2> HIDE DEF r2
  <2>2. r2.st = "ok" /\ r2.v = length /\ r2.rest = rest
    BY ONLY <2>1, GotFields
  <2>3. {IF x.st = "ok" THEN B2(to, x.v, x.rest) ELSE x : x \in {r2}} = {B2(to, length, rest)}
    BY ONLY <2>2
  <2> QED BY ONLY <2>3, <1>6, Zenon DEF r2
<1> HIDE DEF S2
<1>8. B1(to, body) = result
  BY ONLY <1>7, OneChoice
<1> HIDE DEF B1, r1
<1>9. S1 = {result}
  <2>1. r1.st = "ok" /\ r1.v = to /\ r1.rest = body
    BY ONLY <1>3, GotFields
  <2>2. S1 = {B1(to, body)}
    BY ONLY <2>1
  <2> QED BY ONLY <2>2, <1>8, Zenon
<1> HIDE DEF S1, s
<1>10. ReadFrame(c, d, capacity, s) = result
  BY ONLY <1>2, <1>9, OneChoice
<1> QED BY ONLY <1>10, Zenon DEF s, result, length, to

\* No bytes: the read waits.
LEMMA EmptyRead ==
  ASSUME NEW n \in Nat, n > 0
  PROVE  ReadFull(<<>>, n) = More
<1>1. Len(<<>>) = 0
  BY EmptySeq
<1>2. Len(<<>>) < n
  BY <1>1
<1> QED BY ONLY <1>2, Zenon DEF ReadFull

LEMMA MoreIs == More.st = "more" /\ More.st # "ok" /\ Bad.st = "bad"
BY DEF More, Bad

LEMMA EmptyByte == ReadByte(<<>>) = More
<1> DEFINE r == ReadFull(<<>>, 1)
           S == {IF x.st = "ok" THEN Got(x.v[1], x.rest) ELSE x : x \in {r}}
<1>1. r = More
  BY EmptyRead
<1>2. ReadByte(<<>>) = CHOOSE y \in S : TRUE
  BY DEF ReadByte, Then
<1> HIDE DEF r
<1>3. S = {More}
  BY ONLY <1>1, MoreIs
<1> HIDE DEF S
<1> QED BY ONLY <1>2, <1>3, OneChoice

LEMMA EmptyUint16 == ReadUint16(<<>>) = More
<1> DEFINE r == ReadFull(<<>>, 2)
           S == {IF x.st = "ok" THEN Got(256 * x.v[1] + x.v[2], x.rest) ELSE x : x \in {r}}
<1>1. r = More
  BY EmptyRead
<1>2. ReadUint16(<<>>) = CHOOSE y \in S : TRUE
  BY DEF ReadUint16, Then
<1> HIDE DEF r
<1>3. S = {More}
  BY ONLY <1>1, MoreIs
<1> HIDE DEF S
<1> QED BY ONLY <1>2, <1>3, OneChoice

LEMMA EmptyAddress == ASSUME NEW ser \in Serializers PROVE ReadAddrPort(ser, <<>>) = More
<1>1. ReadAddress(ser, <<>>) = More
  <2> DEFINE r == ReadByte(<<>>)
             Known(af) == {g \in DOMAIN ser.familyByteMap : ser.familyByteMap[g] = af}
             Fam(af) == IF Known(af) = {} THEN "unknown" ELSE CHOOSE g \in Known(af) : TRUE
             Body(af, rest) ==
               CASE Fam(af) = "IPv4" -> CHOOSE y \in {IF x.st = "ok" THEN Got(IP(x.v, 0), x.rest) ELSE x : x \in {ReadFull(rest, 4)}} : TRUE
                 [] Fam(af) = "IPv6" -> CHOOSE y \in {IF x.st = "ok" THEN Got(Unwrap(IP(x.v, 0)), x.rest) ELSE x : x \in {ReadFull(rest, 16)}} : TRUE
                 [] Fam(af) = "Fqdn" -> CHOOSE y \in {IF x.st = "ok" THEN Got(ParseSocksaddrHostPort(x.v, 0), x.rest) ELSE x : x \in {ReadSockString(rest)}} : TRUE
                 [] Fam(af) = "Empty" -> Got(Invalid, rest)
                 [] OTHER -> Bad
             S == {IF x.st = "ok" THEN Body(x.v, x.rest) ELSE x : x \in {r}}
  <2>1. r = More
    BY EmptyByte
  <2>2. ReadAddress(ser, <<>>) = CHOOSE y \in S : TRUE
    BY DEF ReadAddress, Then
  <2> HIDE DEF r, Body
  <2>3. S = {More}
    BY ONLY <2>1, MoreIs
  <2> HIDE DEF S
  <2> QED BY ONLY <2>2, <2>3, OneChoice
<1> DEFINE r == ReadAddress(ser, <<>>)
           Port(b, rest) == {IF x.st = "ok" THEN Got([b EXCEPT !.Port = x.v], x.rest) ELSE x : x \in {ReadUint16(rest)}}
           Body(b, rest) == IF IsValid(b) THEN CHOOSE y \in Port(b, rest) : TRUE ELSE Got(b, rest)
           S == {IF x.st = "ok" THEN Body(x.v, x.rest) ELSE x : x \in {r}}
<1>2. ReadAddrPort(ser, <<>>) = CHOOSE y \in S : TRUE
  BY SerializerBytes DEF ReadAddrPort, Then
<1> HIDE DEF r, Body
<1>3. S = {More}
  BY ONLY <1>1, MoreIs DEF r
<1> HIDE DEF S
<1> QED BY ONLY <1>2, <1>3, OneChoice

LEMMA EmptyRequest == ReadRequest(<<>>) = More
<1> DEFINE r == ReadByte(<<>>)
           Body(flag, rest) ==
             CHOOSE y \in {IF x.st = "ok" THEN Got([IsConnect |-> flag # 0, Destination |-> x.v], x.rest) ELSE x :
                             x \in {ReadAddrPort(SocksaddrSerializer, rest)}} : TRUE
           S == {IF x.st = "ok" THEN Body(x.v, x.rest) ELSE x : x \in {r}}
<1>1. r = More
  BY EmptyByte
<1>2. ReadRequest(<<>>) = CHOOSE y \in S : TRUE
  BY DEF ReadRequest, Then
<1> HIDE DEF r, Body
<1>3. S = {More}
  BY ONLY <1>1, MoreIs
<1> HIDE DEF S
<1> QED BY ONLY <1>2, <1>3, OneChoice

LEMMA EmptyFrame == ASSUME NEW c \in BOOLEAN, NEW d, NEW capacity PROVE ReadFrame(c, d, capacity, <<>>) = More
<1> DEFINE r1 == IF c THEN Got(d, <<>>) ELSE ReadAddrPort(AddrParser, <<>>)
           B2(b, n, s2) == IF n > capacity THEN Bad
                           ELSE CHOOSE y \in {IF x.st = "ok" THEN Got(<<b, x.v>>, x.rest) ELSE x : x \in {ReadFull(s2, n)}} : TRUE
           S2(b, s1) == {IF x.st = "ok" THEN B2(b, x.v, x.rest) ELSE x : x \in {ReadUint16(s1)}}
           B1(b, s1) == CHOOSE y \in S2(b, s1) : TRUE
           S1 == {IF x.st = "ok" THEN B1(x.v, x.rest) ELSE x : x \in {r1}}
<1>1. ReadFrame(c, d, capacity, <<>>) = CHOOSE y \in S1 : TRUE
  BY Zenon DEF ReadFrame, Then
<1>2. B1(d, <<>>) = More
  <2> HIDE DEF B2
  <2> DEFINE r2 == ReadUint16(<<>>)
  <2>1. r2 = More
    BY ONLY EmptyUint16
  <2> HIDE DEF r2
  <2>2. {IF x.st = "ok" THEN B2(d, x.v, x.rest) ELSE x : x \in {r2}} = {More}
    BY ONLY <2>1, MoreIs
  <2>3. S2(d, <<>>) = {More}
    BY ONLY <2>2, Zenon DEF r2
  <2> HIDE DEF S2
  <2> QED BY ONLY <2>3, OneChoice
<1> HIDE DEF B1
<1>3. S1 = {More}
  <2>1. CASE c
    <3>1. r1 = Got(d, <<>>)
      BY ONLY <2>1
    <3> HIDE DEF r1
    <3>2. r1.st = "ok" /\ r1.v = d /\ r1.rest = <<>>
      BY ONLY <3>1, GotFields
    <3>3. S1 = {B1(d, <<>>)}
      BY ONLY <3>2
    <3> QED BY ONLY <3>3, <1>2, Zenon
  <2>2. CASE ~c
    <3>1. AddrParser \in Serializers
      BY DEF Serializers
    <3>2. r1 = More
      BY ONLY <2>2, <3>1, EmptyAddress
    <3> HIDE DEF r1
    <3> QED BY ONLY <3>2, MoreIs
  <2> QED BY <2>1, <2>2
<1> HIDE DEF S1
<1> QED BY ONLY <1>1, <1>3, OneChoice

\* The request is read as it was written, its destination unwrapped.
LEMMA RequestRead ==
  ASSUME NEW c \in BOOLEAN, NEW a \in Socksaddrs, CanEncodeRequest(a), NEW q \in Stream
  PROVE  /\ EncodeRequest(c, a) \in Stream
         /\ ReadRequest(Cat(EncodeRequest(c, a), q)) = Got([IsConnect |-> c, Destination |-> Unwrap(a)], q)
<1> DEFINE flag == IF c THEN 1 ELSE 0
           hd == <<flag>>
           address == WriteAddrPort(SocksaddrSerializer, a)
           rest == Cat(address, q)
           s == Cat(EncodeRequest(c, a), q)
           value(f, b) == [IsConnect |-> f # 0, Destination |-> b]
           result == Got(value(flag, Unwrap(a)), q)
           S2(f, s1) == {IF x.st = "ok" THEN Got(value(f, x.v), x.rest) ELSE x : x \in {ReadAddrPort(SocksaddrSerializer, s1)}}
           B1(f, s1) == CHOOSE y \in S2(f, s1) : TRUE
           r1 == ReadByte(s)
           S1 == {IF x.st = "ok" THEN B1(x.v, x.rest) ELSE x : x \in {r1}}
<1>1. ReadRequest(s) = CHOOSE y \in S1 : TRUE
  BY Zenon DEF ReadRequest, Then
<1>2. SocksaddrSerializer \in Serializers /\ CanWriteAddress(SocksaddrSerializer, a)
  BY DEF Serializers, CanEncodeRequest
<1>3. address \in Stream /\ ReadAddrPort(SocksaddrSerializer, rest) = Got(Unwrap(a), q)
  BY <1>2, SocksaddrRead DEF Stream, Cat
<1>4. flag \in Nat /\ hd \in Stream
  BY DEF Stream
<1>5. EncodeRequest(c, a) = Cat(hd, address)
  BY Zenon DEF EncodeRequest, Cat
<1>6. value(flag, Unwrap(a)) = [IsConnect |-> c, Destination |-> Unwrap(a)]
  BY ONLY c \in BOOLEAN
<1> HIDE DEF flag, hd, address
<1>7. s = Cat(hd, rest) /\ Cat(hd, address) \in Stream /\ rest \in Stream
  BY ONLY <1>3, <1>4, <1>5, q \in Stream, CatTwo, CatStream
<1>8. r1 = Got(flag, rest)
  <2> HIDE DEF rest, s
  <2>1. ReadByte(<<flag>> \o rest) = Got(flag, rest)
    BY <1>4, <1>7, ByteRead DEF Stream
  <2> QED BY ONLY <2>1, <1>7, Zenon DEF hd, Cat
<1> HIDE DEF value, rest
<1>9. S2(flag, rest) = {result}
  <2> DEFINE r2 == ReadAddrPort(SocksaddrSerializer, rest)
  <2>1. r2 = Got(Unwrap(a), q)
    BY ONLY <1>3
  <2> HIDE DEF r2
  <2>2. r2.st = "ok" /\ r2.v = Unwrap(a) /\ r2.rest = q
    BY ONLY <2>1, GotFields
  <2>3. {IF x.st = "ok" THEN Got(value(flag, x.v), x.rest) ELSE x : x \in {r2}} = {Got(value(flag, Unwrap(a)), q)}
    BY ONLY <2>2
  <2> QED BY ONLY <2>3, Zenon DEF r2
<1> HIDE DEF S2, result
<1>10. B1(flag, rest) = result
  BY ONLY <1>9, OneChoice
<1> HIDE DEF B1, r1
<1>11. S1 = {result}
  <2>1. r1.st = "ok" /\ r1.v = flag /\ r1.rest = rest
    BY ONLY <1>8, GotFields
  <2>2. S1 = {B1(flag, rest)}
    BY ONLY <2>1
  <2> QED BY ONLY <2>2, <1>10, Zenon
<1> HIDE DEF S1, s
<1>12. ReadRequest(s) = result
  BY ONLY <1>1, <1>11, OneChoice
<1>13. EncodeRequest(c, a) \in Stream
  BY ONLY <1>5, <1>7, Zenon
<1> QED BY ONLY <1>6, <1>12, <1>13, Zenon DEF s, result

-----------------------------------------------------------------------------
\* Addresses that a frame can have, and packets.
Sendable == {a \in Socksaddrs : CanWriteAddress(AddrParser, a)}
Datagrams == Sendable \X Packets

FrameOf(c, p) == Frame(c, p[1], p[2])

\* The stream s is the frames of the packets of ps behind the first k: R[i]
\* is what is left of it behind the packet i.
InFrames(s, ps, k, c) ==
  \E R \in [k .. Len(ps) -> Stream] :
    /\ R[k] = s /\ R[Len(ps)] = <<>>
    /\ \A i \in k + 1 .. Len(ps) : R[i - 1] = Cat(FrameOf(c, ps[i]), R[i])

\* The frame of a packet that can be sent.
LEMMA FrameBytes ==
  ASSUME NEW c \in BOOLEAN, NEW p \in Datagrams
  PROVE  /\ p[1] \in Socksaddrs /\ CanWriteAddress(AddrParser, p[1])
         /\ p[2] \in Packets /\ p[2] \in Seq(Byte) /\ Len(p[2]) <= MaxUint16
         /\ FrameOf(c, p) \in Stream
<1>1. p[1] \in Socksaddrs /\ CanWriteAddress(AddrParser, p[1]) /\ p[2] \in Packets
  BY DEF Datagrams, Sendable
<1>2. p[2] \in Seq(Byte) /\ Len(p[2]) <= MaxUint16
  BY <1>1, UotAssumption
<1> DEFINE a == p[1]
           data == p[2]
<1>3. a \in Socksaddrs /\ CanWriteAddress(AddrParser, a) /\ data \in Seq(Byte) /\ Len(data) <= MaxUint16
  BY <1>1, <1>2
<1>4. <<>> \in Stream
  BY DEF Stream
<1> HIDE DEF a, data
<1>5. Frame(c, a, data) \in Stream
  BY <1>3, <1>4, FrameSplit
<1> QED BY ONLY <1>1, <1>2, <1>5, Zenon DEF FrameOf, a, data

\* No packet is left, one is taken from the head, one is put at the end.
LEMMA FramesNone ==
  ASSUME NEW ps, Len(ps) \in Nat, NEW c, NEW s
  PROVE  InFrames(s, ps, Len(ps), c) <=> s = <<>>
<1>1. <<>> \in Stream
  BY DEF Stream
<1>2. InFrames(s, ps, Len(ps), c) => s = <<>>
  BY DEF InFrames
<1>3. InFrames(<<>>, ps, Len(ps), c)
  <2> DEFINE n == Len(ps)
             R == [i \in n .. n |-> <<>>]
  <2>1. n \in Nat
    OBVIOUS
  <2> HIDE DEF n
  <2>2. R \in [n .. n -> Stream] /\ R[n] = <<>> /\ n + 1 .. n = {}
    BY ONLY <2>1, <1>1
  <2>3. \E Q \in [n .. n -> Stream] : Q[n] = <<>> /\ Q[n] = <<>> /\ \A i \in n + 1 .. n : Q[i - 1] = Cat(FrameOf(c, ps[i]), Q[i])
    BY ONLY <2>2
  <2> QED BY ONLY <2>3 DEF InFrames, n
<1> QED BY <1>2, <1>3

LEMMA FrameTaken ==
  ASSUME NEW ps, Len(ps) \in Nat, NEW k \in Nat, k < Len(ps), NEW c, NEW s, InFrames(s, ps, k, c)
  PROVE  \E q \in Stream : s = Cat(FrameOf(c, ps[k + 1]), q) /\ InFrames(q, ps, k + 1, c)
<1> DEFINE n == Len(ps)
<1>1. PICK R \in [k .. n -> Stream] :
         R[k] = s /\ R[n] = <<>> /\ \A i \in k + 1 .. n : R[i - 1] = Cat(FrameOf(c, ps[i]), R[i])
  BY DEF InFrames
<1>2. n \in Nat /\ k < n
  OBVIOUS
<1> HIDE DEF n
<1> DEFINE Q == [i \in k + 1 .. n |-> R[i]]
<1>3. k + 1 \in k + 1 .. n /\ k + 1 \in k .. n /\ n \in k + 1 .. n /\ (k + 1) - 1 = k
  BY ONLY <1>2, k \in Nat
<1>4. R[k] = Cat(FrameOf(c, ps[k + 1]), R[k + 1]) /\ R[k + 1] \in Stream
  BY ONLY <1>1, <1>3
<1>5. Q \in [k + 1 .. n -> Stream] /\ Q[k + 1] = R[k + 1] /\ Q[n] = <<>>
  BY ONLY <1>1, <1>2, <1>3, k \in Nat
<1>6. \A i \in (k + 1) + 1 .. n : Q[i - 1] = Cat(FrameOf(c, ps[i]), Q[i])
  <2> TAKE i \in (k + 1) + 1 .. n
  <2>1. i \in k + 1 .. n /\ i - 1 \in k + 1 .. n
    BY ONLY <1>2, k \in Nat, i \in (k + 1) + 1 .. n
  <2>2. R[i - 1] = Cat(FrameOf(c, ps[i]), R[i])
    BY ONLY <1>1, <2>1
  <2>3. Q[i - 1] = R[i - 1] /\ Q[i] = R[i]
    BY ONLY <2>1
  <2> QED BY ONLY <2>2, <2>3, Zenon
<1> HIDE DEF Q
<1>7. InFrames(R[k + 1], ps, k + 1, c)
  BY ONLY <1>5, <1>6 DEF InFrames, n
<1> QED BY ONLY <1>1, <1>4, <1>7, Zenon

LEMMA FrameAppended ==
  ASSUME NEW ps \in Seq(Datagrams), NEW k \in 0 .. Len(ps), NEW c \in BOOLEAN, NEW s, InFrames(s, ps, k, c),
         NEW p \in Datagrams
  PROVE  InFrames(Cat(s, FrameOf(c, p)), Append(ps, p), k, c)
<1> DEFINE n == Len(ps)
           f == FrameOf(c, p)
           t == Append(ps, p)
<1>1. PICK R \in [k .. n -> Stream] :
         R[k] = s /\ R[n] = <<>> /\ \A i \in k + 1 .. n : R[i - 1] = Cat(FrameOf(c, ps[i]), R[i])
  BY DEF InFrames
<1>2. n \in Nat /\ k \in 0 .. n
  OBVIOUS
<1>3. f \in Stream
  BY FrameBytes
<1>4. Len(t) = n + 1 /\ t[n + 1] = p /\ \A i \in 1 .. n : t[i] = ps[i]
  OBVIOUS
<1>5. \A i \in 1 .. n : FrameOf(c, ps[i]) \in Stream
  <2>1. \A i \in 1 .. n : ps[i] \in Datagrams
    OBVIOUS
  <2> QED BY ONLY <2>1, FrameBytes, c \in BOOLEAN
<1> HIDE DEF n, f, t
<1> DEFINE Q == [i \in k .. n + 1 |-> IF i = n + 1 THEN <<>> ELSE Cat(R[i], f)]
<1>6. \A i \in k .. n : Cat(R[i], f) \in Stream
  BY ONLY <1>1, <1>3, CatStream
<1>7. Q \in [k .. n + 1 -> Stream]
  <2>1. \A i \in k .. n + 1 : i = n + 1 \/ i \in k .. n
    BY ONLY <1>2
  <2>2. <<>> \in Stream
    BY ONLY <1>3, EmptyCat
  <2> QED BY ONLY <1>6, <2>1, <2>2
<1>8. Q[k] = Cat(s, f) /\ Q[n + 1] = <<>>
  BY ONLY <1>1, <1>2
<1>9. \A i \in k + 1 .. n + 1 : Q[i - 1] = Cat(FrameOf(c, t[i]), Q[i])
  <2> TAKE i \in k + 1 .. n + 1
  <2>1. CASE i = n + 1
    <3>1. Q[i - 1] = Cat(R[n], f) /\ Q[i] = <<>> /\ t[i] = p
      BY ONLY <1>2, <1>4, <2>1
    <3>2. Cat(R[n], f) = f /\ Cat(f, <<>>) = f
      BY ONLY <1>1, <1>3, EmptyCat
    <3> QED BY ONLY <3>1, <3>2, Zenon DEF f
  <2>2. CASE i # n + 1
    <3>1. i \in k + 1 .. n /\ i \in 1 .. n /\ i \in k .. n /\ i - 1 \in k .. n /\ i - 1 # n + 1
          /\ i \in k .. n + 1 /\ i - 1 \in k .. n + 1
      BY ONLY <1>2, <2>2, i \in k + 1 .. n + 1
    <3>2. Q[i - 1] = Cat(R[i - 1], f) /\ Q[i] = Cat(R[i], f)
      BY ONLY <3>1, <2>2
    <3>3. R[i - 1] = Cat(FrameOf(c, t[i]), R[i])
      BY ONLY <1>1, <1>4, <3>1
    <3>4. R[i] \in Stream /\ FrameOf(c, t[i]) \in Stream
      BY ONLY <1>1, <1>4, <1>5, <3>1
    <3>5. Cat(Cat(FrameOf(c, t[i]), R[i]), f) = Cat(FrameOf(c, t[i]), Cat(R[i], f))
      BY ONLY <1>3, <3>4, CatTwo
    <3> QED BY ONLY <3>2, <3>3, <3>5, Zenon
  <2> QED BY <2>1, <2>2
<1> HIDE DEF Q
<1>10. \E P \in [k .. n + 1 -> Stream] :
         P[k] = Cat(s, f) /\ P[n + 1] = <<>> /\ \A i \in k + 1 .. n + 1 : P[i - 1] = Cat(FrameOf(c, t[i]), P[i])
  BY ONLY <1>7, <1>8, <1>9, Zenon
<1>11. InFrames(Cat(s, f), t, k, c)
  BY ONLY <1>4, <1>10, Zenon DEF InFrames
<1> QED BY ONLY <1>11, Zenon DEF f, t

-----------------------------------------------------------------------------
\* The types, and the two ends' parts of one another's packets.
UotState ==
  /\ uconf \in UotConfigurations /\ requestWritten \in BOOLEAN
  /\ accepted \in Seq(Datagrams) /\ delivered \in Seq(Datagrams) /\ replies \in Seq(Datagrams)
  /\ answered \in Seq(Socksaddrs \X Packets)
  /\ Len(delivered) <= Len(accepted) /\ Len(answered) <= Len(replies)

\* On a connected stream every packet is to the destination and from it.
OneDestination ==
  clientConnect =>
    /\ \A i \in 1 .. Len(accepted) : accepted[i][1] = uconf.destination
    /\ \A i \in 1 .. Len(replies) : replies[i][1] = Unwrap(uconf.destination)

\* The request is on its way before any packet is.
RequestFirst ==
  /\ ~requestWritten => accepted = <<>> /\ toServer = <<>>
  /\ dialed = "start" => ~requestWritten
  /\ uconf.version = 2 /\ requestWritten => CanEncodeRequest(uconf.destination)
  /\ uconf.version = 1 /\ dialed # "start" => requestWritten

\* Where the server is in the stream.
AtRequest ==
  served = "request" =>
    /\ uconf.version = 2 /\ delivered = <<>>
    /\ requestWritten =>
         \E rest \in Stream : /\ toServer = Cat(EncodeRequest(uconf.isConnect, uconf.destination), rest)
                              /\ InFrames(rest, accepted, 0, clientConnect)
AtPackets ==
  served = "packets" =>
    /\ InFrames(toServer, accepted, Len(delivered), clientConnect)
    /\ serverConnect = clientConnect
    /\ clientConnect => serverDestination = Unwrap(uconf.destination)
    /\ uconf.version = 2 => requestWritten

PacketsSeen == \A i \in 1 .. Len(delivered) : delivered[i] = Seen(accepted[i])
RepliesUnderWay == InFrames(toClient, replies, Len(answered), clientConnect)
RepliesSeen ==
  \A i \in 1 .. Len(answered) :
    Unwrap(answered[i][1]) = Unwrap(replies[i][1]) /\ answered[i][2] = replies[i][2]

\* The whole of it, as long as the stream is not cut in a frame.
InStream ==
  /\ UotState /\ OneDestination /\ RequestFirst /\ AtRequest /\ AtPackets
  /\ PacketsSeen /\ RepliesUnderWay /\ RepliesSeen
Spinning == served = "spinning" => unresolved
UotIInv == Spinning /\ (~torn /\ ~unresolved => InStream)

-----------------------------------------------------------------------------
\* Addresses that come back from the server can be sent again.
LEMMA IPSendable ==
  ASSUME NEW w \in Seq(Byte), Len(w) = 4, NEW port \in 0 .. MaxUint16
  PROVE  IP(w, port) \in Sendable /\ ~Is4In6(IP(w, port)) /\ ~IsDomain(IP(w, port))
<1> DEFINE a == IP(w, port)
<1>1. a.Addr = w /\ a.Port = port /\ a.Fqdn = <<>> /\ <<>> \in Seq(Byte)
  BY DEF IP
<1>2. a = [Addr |-> w, Port |-> port, Fqdn |-> <<>>]
  BY DEF IP
<1>3. a \in Socksaddrs
  <2>1. a \in [Addr : Seq(Byte), Port : 0 .. MaxUint16, Fqdn : Seq(Byte)]
    BY ONLY <1>1, <1>2, w \in Seq(Byte), port \in 0 .. MaxUint16
  <2>2. Len(a.Addr) = 4
    BY ONLY <1>1, Len(w) = 4, Zenon
  <2> HIDE DEF a
  <2> QED BY ONLY <1>1, <2>1, <2>2 DEF Socksaddrs
<1> HIDE DEF a
<1>4. IsIPv4(a) /\ ~IsIPv6(a) /\ ~IsDomain(a)
  BY ONLY <1>1, Len(w) = 4 DEF IsIPv4, IsIPv6, IsDomain
<1>5. ~Is4In6(a)
  BY ONLY <1>4 DEF Is4In6
<1>6. IsValid(a)
  <2>1. w # <<>>
    BY ONLY NonEmpty, Len(w) = 4
  <2> QED BY ONLY <2>1, <1>1, Zenon DEF IsValid
<1>7. CanWriteAddress(AddrParser, a)
  <2>1. Family(a) = "IPv4"
    BY ONLY <1>4, <1>6 DEF Family
  <2>2. AddrParser \in Serializers
    BY DEF Serializers
  <2>3. SocksStringFits(a.Fqdn)
    <3>1. Len(<<>>) <= MaxUint8
      BY EmptySeq DEF MaxUint8
    <3> QED BY ONLY <3>1, <1>1, Zenon DEF SocksStringFits
  <2> QED BY <2>1, <2>2, <2>3, SerializerBytes DEF CanWriteAddress
<1> QED BY ONLY <1>3, <1>4, <1>5, <1>7 DEF Sendable, a

LEMMA UnwrapAddress ==
  ASSUME NEW a \in Socksaddrs
  PROVE  /\ Unwrap(a) \in Socksaddrs /\ Unwrap(Unwrap(a)) = Unwrap(a)
         /\ IsDomain(Unwrap(a)) <=> IsDomain(a)
         /\ Unwrap(a).Port = a.Port /\ a.Port \in 0 .. MaxUint16
         /\ CanWriteAddress(AddrParser, a) => CanWriteAddress(AddrParser, Unwrap(a))
<1>0. a.Port \in 0 .. MaxUint16 /\ a.Addr \in Seq(Byte)
  BY DEF Socksaddrs
<1>1. CASE ~Is4In6(a)
  <2>1. Unwrap(a) = a
    BY ONLY <1>1, Zenon DEF Unwrap
  <2> QED BY <1>0, <2>1, Zenon
<1>2. CASE Is4In6(a)
  <2> DEFINE w == SubSeq(a.Addr, 13, 16)
  <2>1. Len(a.Addr) = 16
    BY ONLY <1>2 DEF Is4In6, IsIPv6
  <2>2. w \in Seq(Byte) /\ Len(w) = 4
    BY ONLY <1>0, <2>1
  <2>3. Unwrap(a) = IP(w, a.Port)
    BY ONLY <1>2, Zenon DEF Unwrap
  <2> HIDE DEF w
  <2>4. IP(w, a.Port) \in Sendable /\ ~Is4In6(IP(w, a.Port)) /\ ~IsDomain(IP(w, a.Port))
    BY ONLY <2>2, <1>0, IPSendable
  <2>5. Unwrap(IP(w, a.Port)) = IP(w, a.Port)
    BY ONLY <2>4, Zenon DEF Unwrap
  <2>6. IP(w, a.Port).Port = a.Port
    BY ONLY TRUE DEF IP
  <2>7. ~IsDomain(a)
    <3>1. a.Addr # <<>>
      BY ONLY <2>1, NonEmpty
    <3> QED BY <3>1 DEF IsDomain, Socksaddrs
  <2>8. IP(w, a.Port) \in Socksaddrs /\ CanWriteAddress(AddrParser, IP(w, a.Port))
    BY ONLY <2>4 DEF Sendable
  <2> QED BY ONLY <1>0, <2>3, <2>4, <2>5, <2>6, <2>7, <2>8, Zenon
<1> QED BY <1>1, <1>2, Zenon

\* What the server takes for a packet is one that can be sent back.
LEMMA SeenSendable ==
  ASSUME NEW p \in Datagrams
  PROVE  /\ Seen(p) \in Datagrams /\ Seen(p)[2] = p[2]
         /\ Seen(p) = IF uconf.server = "bridge" /\ IsDomain(Unwrap(p[1]))
                      THEN <<IP(UdpResolved, Unwrap(p[1]).Port), p[2]>> ELSE <<Unwrap(p[1]), p[2]>>
<1> DEFINE a == p[1]
           data == p[2]
<1>1. a \in Socksaddrs /\ CanWriteAddress(AddrParser, a) /\ data \in Packets
  BY DEF Datagrams, Sendable
<1>2. UdpResolved \in Seq(Byte) /\ Len(UdpResolved) = 4
  BY UotAssumption
<1> HIDE DEF a, data
<1>3. /\ Unwrap(a) \in Socksaddrs
      /\ IsDomain(Unwrap(a)) <=> IsDomain(a)
      /\ Unwrap(a).Port = a.Port /\ a.Port \in 0 .. MaxUint16 /\ CanWriteAddress(AddrParser, Unwrap(a))
  BY ONLY <1>1, UnwrapAddress
<1>4. IP(UdpResolved, a.Port) \in Sendable /\ Unwrap(a) \in Sendable
  <2>1. IP(UdpResolved, a.Port) \in Sendable
    BY ONLY <1>2, <1>3, IPSendable
  <2>2. Unwrap(a) \in Sendable
    <3> DEFINE u == Unwrap(a)
    <3>1. u \in Socksaddrs /\ CanWriteAddress(AddrParser, u)
      BY ONLY <1>3
    <3> HIDE DEF u
    <3>2. u \in Sendable
      BY ONLY <3>1 DEF Sendable
    <3> QED BY ONLY <3>2 DEF u
  <2> QED BY ONLY <2>1, <2>2
<1>5. Seen(p) = <<IF uconf.server = "bridge" /\ IsDomain(a) THEN IP(UdpResolved, a.Port) ELSE Unwrap(a), data>>
  BY Zenon DEF Seen, a, data
<1>6. CASE uconf.server = "bridge" /\ IsDomain(a)
  <2>1. Seen(p) = <<IP(UdpResolved, a.Port), data>>
    BY ONLY <1>5, <1>6
  <2>2. <<IP(UdpResolved, a.Port), data>> \in Datagrams
    BY ONLY <1>1, <1>4 DEF Datagrams
  <2>3. Seen(p)[2] = data
    BY ONLY <2>1
  <2> QED BY ONLY <1>3, <1>6, <2>1, <2>2, <2>3 DEF a, data
<1>7. CASE ~(uconf.server = "bridge" /\ IsDomain(a))
  <2>1. Seen(p) = <<Unwrap(a), data>>
    BY ONLY <1>5, <1>7
  <2>2. <<Unwrap(a), data>> \in Datagrams
    BY ONLY <1>1, <1>4 DEF Datagrams
  <2>3. Seen(p)[2] = data
    BY ONLY <2>1
  <2>4. ~(uconf.server = "bridge" /\ IsDomain(Unwrap(a)))
    BY ONLY <1>3, <1>7, Zenon
  <2>5. Seen(p) = IF uconf.server = "bridge" /\ IsDomain(Unwrap(a))
                  THEN <<IP(UdpResolved, Unwrap(a).Port), data>> ELSE <<Unwrap(a), data>>
    BY ONLY <2>1, <2>4
  <2> QED BY ONLY <2>1, <2>2, <2>3, <2>5, Zenon DEF a, data
<1> QED BY <1>6, <1>7, Zenon

-----------------------------------------------------------------------------
\* What the assumption says of the configuration at hand.
LEMMA Configured ==
  ASSUME UotState
  PROVE  /\ uconf.version \in {1, 2} /\ uconf.isConnect \in BOOLEAN /\ clientConnect \in BOOLEAN
         /\ uconf.destination \in uconf.peers /\ uconf.peers \subseteq Socksaddrs
         /\ uconf.destination \in Socksaddrs
         /\ uconf.version = 2 => clientConnect = uconf.isConnect
         /\ Len(accepted) \in Nat /\ Len(delivered) \in Nat /\ Len(replies) \in Nat /\ Len(answered) \in Nat
         /\ Len(delivered) \in 0 .. Len(accepted) /\ Len(answered) \in 0 .. Len(replies)
<1>1. uconf \in UotConfigurations
  BY DEF UotState
<1>2. /\ uconf.version \in {1, 2} /\ uconf.isConnect \in BOOLEAN
      /\ uconf.destination \in uconf.peers /\ uconf.peers \subseteq Socksaddrs
  BY ONLY <1>1, UotAssumption, Zenon
<1>3. clientConnect \in BOOLEAN /\ (uconf.version = 2 => clientConnect = uconf.isConnect)
  BY ONLY <1>2 DEF clientConnect
<1>4. uconf.destination \in Socksaddrs
  BY ONLY <1>2
<1>5. Len(accepted) \in Nat /\ Len(delivered) \in Nat /\ Len(replies) \in Nat /\ Len(answered) \in Nat
  BY LenProperties DEF UotState
<1>6. Len(delivered) <= Len(accepted) /\ Len(answered) <= Len(replies)
  BY DEF UotState
<1>7. Len(delivered) \in 0 .. Len(accepted) /\ Len(answered) \in 0 .. Len(replies)
  BY ONLY <1>5, <1>6
<1> QED BY ONLY <1>2, <1>3, <1>4, <1>5, <1>7

\* A part stays when what it is about stays.
LEMMA KeepReplies ==
  ASSUME RepliesUnderWay, RepliesSeen, UNCHANGED <<uconf, toClient, replies, answered>>
  PROVE  RepliesUnderWay' /\ RepliesSeen'
<1>1. clientConnect' = clientConnect
  BY DEF clientConnect
<1>2. RepliesUnderWay'
  BY ONLY <1>1, RepliesUnderWay, UNCHANGED <<uconf, toClient, replies, answered>>, Zenon DEF RepliesUnderWay
<1>3. RepliesSeen'
  BY ONLY RepliesSeen, UNCHANGED <<uconf, toClient, replies, answered>>, Zenon DEF RepliesSeen
<1> QED BY <1>2, <1>3

LEMMA KeepDelivered ==
  ASSUME PacketsSeen, UNCHANGED <<uconf, accepted, delivered>>
  PROVE  PacketsSeen'
<1>1. \A i : Seen(accepted[i])' = Seen(accepted[i])
  BY DEF Seen
<1> QED BY ONLY <1>1, PacketsSeen, UNCHANGED <<uconf, accepted, delivered>>, Zenon DEF PacketsSeen

LEMMA KeepDestination ==
  ASSUME OneDestination, UNCHANGED <<uconf, accepted, replies>>
  PROVE  OneDestination'
BY Zenon DEF OneDestination, clientConnect

LEMMA KeepState ==
  ASSUME UotState, UNCHANGED <<uconf, requestWritten, accepted, delivered, replies, answered>>
  PROVE  UotState'
BY Zenon DEF UotState

LEMMA KeepAtRequest ==
  ASSUME AtRequest, UNCHANGED <<uconf, served, delivered, requestWritten, toServer, accepted>>
  PROVE  AtRequest'
BY Zenon DEF AtRequest, clientConnect

LEMMA KeepAtPackets ==
  ASSUME AtPackets, UNCHANGED <<uconf, served, delivered, requestWritten, toServer, accepted, serverConnect, serverDestination>>
  PROVE  AtPackets'
BY Zenon DEF AtPackets, clientConnect

LEMMA KeepRequest ==
  ASSUME RequestFirst, UNCHANGED <<uconf, requestWritten, accepted, toServer, dialed>>
  PROVE  RequestFirst'
BY Zenon DEF RequestFirst

LEMMA UotStutter == ASSUME InStream, UNCHANGED uotVars PROVE InStream'
BY KeepReplies, KeepDelivered, KeepDestination, KeepState, KeepAtRequest, KeepAtPackets, KeepRequest, Zenon
   DEF InStream, uotVars

LEMMA UotStart == ASSUME UotInit PROVE InStream
<1>1. uconf \in UotConfigurations /\ requestWritten = FALSE
  BY DEF UotInit
<1>2. accepted = <<>> /\ delivered = <<>> /\ replies = <<>> /\ answered = <<>> /\ toServer = <<>> /\ toClient = <<>>
  BY DEF UotInit
<1>3. Len(<<>>) = 0 /\ \A S : <<>> \in Seq(S)
  BY EmptySeq
<1>4. UotState
  <2>1. <<>> \in Seq(Datagrams) /\ <<>> \in Seq(Socksaddrs \X Packets)
    BY EmptySeq
  <2>2. Len(<<>>) <= Len(<<>>)
    BY ONLY <1>3
  <2>3. requestWritten \in BOOLEAN
    BY ONLY <1>1
  <2> QED BY ONLY <1>1, <1>2, <2>1, <2>2, <2>3, Zenon DEF UotState
<1>5. OneDestination /\ PacketsSeen /\ RepliesSeen
  <2>1. 1 .. Len(accepted) = {} /\ 1 .. Len(replies) = {} /\ 1 .. Len(delivered) = {} /\ 1 .. Len(answered) = {}
    BY ONLY <1>2, <1>3
  <2> QED BY ONLY <2>1, Zenon DEF OneDestination, PacketsSeen, RepliesSeen
<1>6. \A c : InFrames(<<>>, <<>>, 0, c)
  <2>1. Len(<<>>) \in Nat
    BY ONLY <1>3
  <2>2. \A c : InFrames(<<>>, <<>>, Len(<<>>), c)
    BY ONLY <2>1, FramesNone, Zenon
  <2> QED BY ONLY <2>2, <1>3, Zenon
<1>7. RepliesUnderWay
  BY ONLY <1>2, <1>3, <1>6, Zenon DEF RepliesUnderWay
<1>8. RequestFirst
  BY ONLY <1>1, <1>2, UotInit DEF RequestFirst, UotInit
<1>9. uconf.version \in {1, 2}
  BY <1>4, Configured
<1>10. AtRequest
  BY ONLY <1>1, <1>2, <1>9, UotInit DEF AtRequest, UotInit
<1>11. AtPackets
  <2>1. served = "packets" => uconf.version = 1 /\ serverConnect = FALSE
    BY ONLY <1>9, UotInit DEF UotInit
  <2>2. served = "packets" => clientConnect = FALSE /\ serverConnect = clientConnect /\ uconf.version # 2
    <3>1. served = "packets" => uconf.version # 2
      BY ONLY <2>1
    <3>2. uconf.version # 2 => clientConnect = FALSE
      BY ONLY TRUE, Zenon DEF clientConnect
    <3> QED BY ONLY <2>1, <3>1, <3>2, Zenon
  <2>3. InFrames(toServer, accepted, Len(delivered), clientConnect)
    BY ONLY <1>2, <1>3, <1>6, Zenon
  <2> QED BY ONLY <2>2, <2>3, Zenon DEF AtPackets
<1> QED BY ONLY <1>4, <1>5, <1>7, <1>8, <1>10, <1>11, Zenon DEF InStream

\* DialConn sends the request, and nothing was sent before.
LEMMA UotDial == ASSUME InStream, Dial PROVE InStream'
<1>1. UotState /\ OneDestination /\ RequestFirst /\ AtRequest /\ AtPackets /\ PacketsSeen /\ RepliesUnderWay /\ RepliesSeen
  BY ONLY InStream, Zenon DEF InStream
<1>2. /\ UNCHANGED <<uconf, toClient, accepted, delivered, replies, answered>>
      /\ UNCHANGED <<served, serverConnect, serverDestination>>
  BY ONLY Dial, Zenon DEF Dial, uotServerVars, replyVars
<1>3. RepliesUnderWay' /\ RepliesSeen' /\ PacketsSeen' /\ OneDestination'
  BY ONLY <1>1, <1>2, KeepReplies, KeepDelivered, KeepDestination, Zenon
<1>4. dialed = "start" /\ requestWritten = FALSE /\ accepted = <<>> /\ toServer = <<>>
  BY ONLY <1>1, Dial DEF RequestFirst, UotState, Dial
<1>5. uconf.version \in {1, 2} /\ clientConnect' = clientConnect
  BY ONLY <1>1, <1>2, Configured DEF clientConnect
<1>6. requestWritten' \in BOOLEAN
  BY ONLY <1>1, Dial DEF Dial, UotState
<1>7. UotState'
  BY ONLY <1>1, <1>2, <1>6, Zenon DEF UotState
<1>8. CASE uconf.version = 2 /\ CanEncodeRequest(uconf.destination) /\ requestWritten' = TRUE /\ dialed' = "ok"
           /\ toServer' = EncodeRequest(uconf.isConnect, uconf.destination)
  <2>1. RequestFirst'
    BY ONLY <1>2, <1>8 DEF RequestFirst
  <2>2. served # "packets"
    BY ONLY <1>1, <1>4, <1>8 DEF AtPackets
  <2>3. AtPackets'
    BY ONLY <1>2, <2>2 DEF AtPackets
  <2> DEFINE q == EncodeRequest(uconf.isConnect, uconf.destination)
  <2>4. q \in Stream
    <3>1. uconf.isConnect \in BOOLEAN /\ uconf.destination \in Socksaddrs /\ <<>> \in Stream
      BY <1>1, Configured DEF Stream
    <3> QED BY ONLY <3>1, <1>8, RequestRead
  <2> HIDE DEF q
  <2>5. toServer' = Cat(q, <<>>) /\ <<>> \in Stream
    BY ONLY <1>8, <2>4, EmptyCat DEF q
  <2>6. InFrames(<<>>, accepted', 0, clientConnect')
    <3>1. Len(<<>>) = 0 /\ Len(<<>>) \in Nat
      BY EmptySeq
    <3>2. InFrames(<<>>, <<>>, Len(<<>>), clientConnect')
      BY ONLY <3>1, FramesNone, Zenon
    <3> QED BY ONLY <1>2, <1>4, <3>1, <3>2, Zenon
  <2>7. AtRequest'
    <3>1. (EncodeRequest(uconf.isConnect, uconf.destination))' = q
      BY ONLY <1>2, Zenon DEF q
    <3>2. \E rest \in Stream : toServer' = Cat((EncodeRequest(uconf.isConnect, uconf.destination))', rest)
                               /\ InFrames(rest, accepted', 0, clientConnect')
      BY ONLY <2>5, <2>6, <3>1, Zenon
    <3>3. served' = "request" => uconf'.version = 2 /\ delivered' = <<>>
      BY ONLY <1>1, <1>2, Zenon DEF AtRequest
    <3> QED BY ONLY <3>2, <3>3, Zenon DEF AtRequest
  <2> QED BY ONLY <1>3, <1>7, <2>1, <2>3, <2>7, Zenon DEF InStream
<1>9. CASE requestWritten' = FALSE /\ UNCHANGED toServer /\ uconf.version = 2
  <2>1. RequestFirst'
    BY ONLY <1>2, <1>4, <1>9 DEF RequestFirst
  <2>2. UNCHANGED requestWritten
    BY ONLY <1>4, <1>9
  <2>3. AtPackets' /\ AtRequest'
    BY ONLY <1>1, <1>2, <1>9, <2>2, KeepAtPackets, KeepAtRequest, Zenon
  <2> QED BY ONLY <1>3, <1>7, <2>1, <2>3, Zenon DEF InStream
<1>10. CASE requestWritten' = TRUE /\ UNCHANGED toServer /\ uconf.version = 1
  <2>1. RequestFirst'
    <3>1. dialed' # "start"
      BY ONLY Dial, <1>10 DEF Dial
    <3> QED BY ONLY <1>2, <1>10, <3>1 DEF RequestFirst
  <2>2. AtRequest'
    BY ONLY <1>1, <1>2, <1>10 DEF AtRequest
  <2>3. AtPackets'
    BY ONLY <1>1, <1>2, <1>5, <1>10 DEF AtPackets
  <2> QED BY ONLY <1>3, <1>7, <2>1, <2>2, <2>3, Zenon DEF InStream
<1> QED BY ONLY <1>4, <1>5, <1>8, <1>9, <1>10, Dial DEF Dial

\* Close leaves the stream alone.
LEMMA UotCloses == ASSUME InStream, UotClose PROVE InStream'
<1>1. UotState /\ OneDestination /\ RequestFirst /\ AtRequest /\ AtPackets /\ PacketsSeen /\ RepliesUnderWay /\ RepliesSeen
  BY ONLY InStream, Zenon DEF InStream
<1>2. /\ UNCHANGED <<uconf, toClient, accepted, delivered, replies, answered>>
      /\ UNCHANGED <<served, serverConnect, serverDestination, requestWritten, toServer>>
      /\ dialed = "ok" /\ dialed' = "closed"
  BY ONLY UotClose, Zenon DEF UotClose, uotServerVars, replyVars
<1>3. RepliesUnderWay' /\ RepliesSeen' /\ PacketsSeen' /\ OneDestination' /\ AtRequest' /\ AtPackets' /\ UotState'
  BY ONLY <1>1, <1>2, KeepReplies, KeepDelivered, KeepDestination, KeepAtRequest, KeepAtPackets, KeepState, Zenon
<1>4. RequestFirst'
  BY ONLY <1>1, <1>2 DEF RequestFirst
<1> QED BY ONLY <1>3, <1>4, Zenon DEF InStream

\* A packet that is sent goes behind the ones before it.
LEMMA UotClientPacket == ASSUME InStream, ClientPacket, ~torn' PROVE InStream'
<1>1. UotState /\ OneDestination /\ RequestFirst /\ AtRequest /\ AtPackets /\ PacketsSeen /\ RepliesUnderWay /\ RepliesSeen
  BY ONLY InStream, Zenon DEF InStream
<1>2. /\ UNCHANGED <<uconf, toClient, delivered, replies, answered, dialed>>
      /\ UNCHANGED <<served, serverConnect, serverDestination>>
      /\ dialed = "ok"
  BY ONLY ClientPacket, Zenon DEF ClientPacket, uotServerVars, replyVars
<1> DEFINE to(d) == IF clientConnect THEN uconf.destination ELSE d
           enc == EncodeRequest(uconf.isConnect, uconf.destination)
           first == IF requestWritten THEN <<>> ELSE enc
           bytes(d, data) == first \o Frame(clientConnect, to(d), data)
<1>3. PICK d \in uconf.peers, data \in Packets :
        /\ CanWriteAddress(AddrParser, to(d))
        /\ requestWritten \/ CanEncodeRequest(uconf.destination)
        /\ \/ /\ toServer' = toServer \o bytes(d, data) /\ accepted' = Append(accepted, <<to(d), data>>)
              /\ requestWritten' = MarksRequest(TRUE) /\ UNCHANGED torn
           \/ /\ requestWritten' = MarksRequest(FALSE) /\ UNCHANGED <<toServer, accepted, torn>>
           \/ torn' = TRUE
  BY ONLY ClientPacket, Zenon DEF ClientPacket
<1>4. /\ uconf.version \in {1, 2} /\ clientConnect \in BOOLEAN /\ uconf.isConnect \in BOOLEAN
      /\ uconf.destination \in Socksaddrs /\ uconf.peers \subseteq Socksaddrs
      /\ Len(delivered) \in 0 .. Len(accepted) /\ Len(accepted) \in Nat /\ Len(delivered) \in Nat
      /\ requestWritten \in BOOLEAN
  BY ONLY <1>1, Configured DEF UotState
<1>5. clientConnect' = clientConnect
  BY ONLY <1>2, Zenon DEF clientConnect
<1> DEFINE p == <<to(d), data>>
<1>6. p \in Datagrams /\ p[1] = to(d) /\ p[2] = data
  <2>1. to(d) \in Socksaddrs
    BY ONLY <1>3, <1>4
  <2> HIDE DEF to
  <2>2. to(d) \in Sendable
    BY ONLY <1>3, <2>1 DEF Sendable
  <2> QED BY ONLY <1>3, <2>2 DEF Datagrams
<1>7. clientConnect => to(d) = uconf.destination
  BY ONLY TRUE, Zenon
<1> HIDE DEF to
<1>8. CASE /\ toServer' = toServer \o bytes(d, data) /\ accepted' = Append(accepted, <<to(d), data>>)
           /\ requestWritten' = MarksRequest(TRUE)
  <2> DEFINE f == FrameOf(clientConnect, p)
             n == Len(accepted)
  <2>1. requestWritten' = TRUE
    BY ONLY <1>8, Zenon DEF MarksRequest
  <2>2. accepted' \in Seq(Datagrams) /\ Len(accepted') = n + 1 /\ accepted'[n + 1] = p
        /\ \A i \in 1 .. n : accepted'[i] = accepted[i]
    <3>1. accepted \in Seq(Datagrams) /\ accepted' = Append(accepted, p)
      BY ONLY <1>1, <1>8 DEF UotState
    <3> HIDE DEF p
    <3> QED BY ONLY <3>1, <1>6
  <2>3. UotState'
    <3>1. Len(delivered') <= Len(accepted')
      BY ONLY <1>2, <1>4, <2>2
    <3> QED BY ONLY <1>1, <1>2, <2>1, <2>2, <3>1 DEF UotState
  <2>4. OneDestination'
    <3>1. SUFFICES ASSUME clientConnect PROVE \A i \in 1 .. Len(accepted') : accepted'[i][1] = uconf.destination
      BY <1>1, <1>2, <1>5, Zenon DEF OneDestination
    <3>2. \A i \in 1 .. n : accepted[i][1] = uconf.destination
      BY ONLY <1>1, <3>1, Zenon DEF OneDestination
    <3>3. \A i \in 1 .. n + 1 : i \in 1 .. n \/ i = n + 1
      BY ONLY <1>4
    <3>4. accepted'[n + 1][1] = uconf.destination
      BY ONLY <1>6, <1>7, <2>2, <3>1, Zenon
    <3> HIDE DEF n, p
    <3> QED BY ONLY <2>2, <3>2, <3>3, <3>4, Zenon
  <2>5. RequestFirst'
    <3>1. CanEncodeRequest(uconf.destination) \/ uconf.version # 2
      BY ONLY <1>1, <1>3, <1>4 DEF RequestFirst
    <3> QED BY ONLY <1>2, <2>1, <3>1 DEF RequestFirst
  <2>6. PacketsSeen'
    <3>1. \A i \in 1 .. Len(delivered) : i \in 1 .. n
      BY ONLY <1>4
    <3>2. \A i \in 1 .. Len(delivered) : accepted'[i] = accepted[i]
      BY ONLY <2>2, <3>1, Zenon
    <3>3. \A i \in 1 .. Len(delivered) : Seen(accepted[i])' = Seen(accepted[i])
      BY ONLY <1>2, <3>2, Zenon DEF Seen
    <3> QED BY ONLY <1>1, <1>2, <3>3, Zenon DEF PacketsSeen
  <2>7. RepliesUnderWay' /\ RepliesSeen'
    BY ONLY <1>1, <1>2, KeepReplies, Zenon
  <2>8. f \in Stream /\ f = Frame(clientConnect, to(d), data)
    <3>1. f \in Stream
      BY ONLY <1>4, <1>6, FrameBytes, Zenon
    <3> QED BY ONLY <1>6, <3>1, Zenon DEF FrameOf
  <2>9. \A s, k : k \in 0 .. n /\ InFrames(s, accepted, k, clientConnect)
               => InFrames(Cat(s, f), accepted', k, clientConnect)
    <3>1. accepted \in Seq(Datagrams)
      BY ONLY <1>1 DEF UotState
    <3>2. \A s, k : k \in 0 .. n /\ InFrames(s, accepted, k, clientConnect)
               => InFrames(Cat(s, f), Append(accepted, p), k, clientConnect)
      <4> HIDE DEF p
      <4> QED BY ONLY <1>4, <1>6, <3>1, FrameAppended
    <3> QED BY ONLY <1>8, <3>2, Zenon
  <2> HIDE DEF f, p, enc
  <2>10. CASE requestWritten
    <3>1. bytes(d, data) = Cat(<<>>, f)
      BY ONLY <2>8, <2>10, Zenon DEF Cat
    <3>2. toServer' = Cat(toServer, f)
      BY ONLY <1>8, <2>8, <3>1, EmptyCat, Zenon DEF Cat
    <3>3. AtRequest'
      <4>1. SUFFICES ASSUME served = "request"
                     PROVE  \E rest \in Stream : toServer' = Cat(enc, rest) /\ InFrames(rest, accepted', 0, clientConnect)
        BY <1>1, <1>2, <1>5, Zenon DEF AtRequest, enc
      <4>2. PICK rest \in Stream : toServer = Cat(enc, rest) /\ InFrames(rest, accepted, 0, clientConnect)
        BY ONLY <1>1, <2>10, <4>1, Zenon DEF AtRequest, enc
      <4>3. uconf.version = 2
        BY ONLY <1>1, <4>1, Zenon DEF AtRequest
      <4>4. CanEncodeRequest(uconf.destination)
        BY ONLY <1>1, <2>10, <4>3, Zenon DEF RequestFirst
      <4>5. enc \in Stream
        BY ONLY <1>4, <2>8, <4>4, RequestRead DEF enc
      <4>6. toServer' = Cat(enc, Cat(rest, f)) /\ Cat(rest, f) \in Stream
        BY ONLY <2>8, <3>2, <4>2, <4>5, CatTwo, CatStream
      <4>7. InFrames(Cat(rest, f), accepted', 0, clientConnect)
        <5>1. 0 \in 0 .. n
          BY ONLY <1>4
        <5> QED BY ONLY <5>1, <2>9, <4>2, Zenon
      <4> QED BY ONLY <4>6, <4>7, Zenon
    <3>4. AtPackets'
      <4>1. SUFFICES ASSUME served = "packets"
                     PROVE  InFrames(toServer', accepted', Len(delivered), clientConnect)
        BY <1>1, <1>2, <1>5, <2>1, Zenon DEF AtPackets
      <4> QED BY ONLY <1>1, <1>4, <2>9, <3>2, <4>1, Zenon DEF AtPackets
    <3> QED BY ONLY <2>3, <2>4, <2>5, <2>6, <2>7, <3>3, <3>4, Zenon DEF InStream
  <2>11. CASE ~requestWritten
    <3>1. uconf.version = 2 /\ served # "packets"
      BY ONLY <1>1, <1>2, <1>4, <2>11 DEF RequestFirst, AtPackets
    <3>2. AtPackets'
      BY ONLY <1>2, <3>1 DEF AtPackets
    <3>3. accepted = <<>> /\ toServer = <<>> /\ CanEncodeRequest(uconf.destination)
      BY ONLY <1>1, <1>3, <2>11, Zenon DEF RequestFirst
    <3>4. enc \in Stream
      BY ONLY <1>4, <2>8, <3>3, RequestRead DEF enc
    <3>5. toServer' = Cat(enc, f)
      <4>1. bytes(d, data) = Cat(enc, f)
        BY ONLY <2>8, <2>11, Zenon DEF Cat
      <4>2. toServer' = Cat(<<>>, Cat(enc, f))
        BY ONLY <1>8, <3>3, <4>1, Zenon DEF Cat
      <4>3. Cat(enc, f) \in Stream
        BY ONLY <2>8, <3>4, CatStream
      <4> QED BY ONLY <4>2, <4>3, EmptyCat
    <3>6. InFrames(f, accepted', 0, clientConnect)
      <4>1. Len(accepted) = 0
        BY <3>3, EmptySeq
      <4>2. InFrames(<<>>, accepted, Len(accepted), clientConnect)
        BY ONLY <1>4, FramesNone, Zenon
      <4>3. 0 \in 0 .. n
        BY ONLY <1>4
      <4>4. InFrames(Cat(<<>>, f), accepted', 0, clientConnect)
        BY ONLY <2>9, <4>1, <4>2, <4>3, Zenon
      <4> QED BY ONLY <4>4, <2>8, EmptyCat, Zenon
    <3>7. AtRequest'
      <4>1. \E rest \in Stream : toServer' = Cat(enc, rest) /\ InFrames(rest, accepted', 0, clientConnect)
        BY ONLY <2>8, <3>5, <3>6, Zenon
      <4> QED BY ONLY <1>1, <1>2, <1>5, <4>1, Zenon DEF AtRequest, enc
    <3> QED BY ONLY <2>3, <2>4, <2>5, <2>6, <2>7, <3>2, <3>7, Zenon DEF InStream
  <2> QED BY ONLY <2>10, <2>11, Zenon
<1>9. CASE requestWritten' = MarksRequest(FALSE) /\ UNCHANGED <<toServer, accepted>>
  <2>1. UNCHANGED requestWritten
    BY ONLY <1>4, <1>9 DEF MarksRequest
  <2> QED BY ONLY <1>1, <1>2, <1>9, <2>1, KeepReplies, KeepDelivered, KeepDestination, KeepState, KeepAtRequest,
                  KeepAtPackets, KeepRequest, Zenon DEF InStream
<1> QED BY ONLY <1>3, <1>8, <1>9, ~torn', Zenon

\* The request that the server reads is the one that was written, and the
\* packets are behind it.
LEMMA UotServerRequest == ASSUME InStream, ServerRequest PROVE InStream'
<1>1. UotState /\ OneDestination /\ RequestFirst /\ AtRequest /\ AtPackets /\ PacketsSeen /\ RepliesUnderWay /\ RepliesSeen
  BY ONLY InStream, Zenon DEF InStream
<1>2. /\ UNCHANGED <<uconf, toClient, accepted, delivered, replies, answered, dialed, requestWritten>>
      /\ served = "request"
  BY ONLY ServerRequest, Zenon DEF ServerRequest, uotClientVars, replyVars
<1> DEFINE r == ReadRequest(toServer)
<1>3. \/ /\ r.st = "ok" /\ served' = "packets" /\ toServer' = r.rest
         /\ serverConnect' = r.v.IsConnect /\ serverDestination' = r.v.Destination
      \/ served' = "stopped" /\ UNCHANGED toServer
  BY ONLY ServerRequest, Zenon DEF ServerRequest
<1>4. /\ uconf.isConnect \in BOOLEAN /\ uconf.destination \in Socksaddrs
      /\ uconf.version = 2 => clientConnect = uconf.isConnect
  BY ONLY <1>1, Configured, Zenon
<1>5. uconf.version = 2 /\ delivered = <<>>
  BY ONLY <1>1, <1>2, Zenon DEF AtRequest
<1>6. clientConnect' = clientConnect
  BY ONLY <1>2, Zenon DEF clientConnect
<1>7. RepliesUnderWay' /\ RepliesSeen' /\ PacketsSeen' /\ OneDestination' /\ UotState'
  BY ONLY <1>1, <1>2, KeepReplies, KeepDelivered, KeepDestination, KeepState, Zenon
<1> HIDE DEF r
<1>8. CASE served' = "stopped" /\ UNCHANGED toServer
  <2>1. RequestFirst'
    BY ONLY <1>1, <1>2, <1>8, KeepRequest, Zenon
  <2>2. AtRequest' /\ AtPackets'
    BY ONLY <1>8 DEF AtRequest, AtPackets
  <2> QED BY ONLY <1>7, <2>1, <2>2, Zenon DEF InStream
<1>9. CASE /\ r.st = "ok" /\ served' = "packets" /\ toServer' = r.rest
           /\ serverConnect' = r.v.IsConnect /\ serverDestination' = r.v.Destination
  <2>1. requestWritten
    <3>1. ~requestWritten => r = More
      BY ONLY <1>1, EmptyRequest, Zenon DEF RequestFirst, r
    <3>2. r # More
      BY ONLY <1>9, MoreIs
    <3> QED BY ONLY <3>1, <3>2, Zenon
  <2>2. PICK rest \in Stream :
          /\ toServer = Cat(EncodeRequest(uconf.isConnect, uconf.destination), rest)
          /\ InFrames(rest, accepted, 0, clientConnect)
    BY ONLY <1>1, <1>2, <2>1, Zenon DEF AtRequest
  <2>3. CanEncodeRequest(uconf.destination)
    BY ONLY <1>1, <1>5, <2>1, Zenon DEF RequestFirst
  <2> DEFINE v == [IsConnect |-> uconf.isConnect, Destination |-> Unwrap(uconf.destination)]
  <2>4. r = Got(v, rest)
    BY ONLY <1>4, <2>2, <2>3, RequestRead DEF r
  <2>5. v.IsConnect = uconf.isConnect /\ v.Destination = Unwrap(uconf.destination)
    BY ONLY TRUE
  <2> HIDE DEF v
  <2>6. r.v = v /\ r.rest = rest
    BY ONLY <2>4, GotFields
  <2>7. toServer' = rest /\ serverConnect' = clientConnect' /\ serverDestination' = Unwrap(uconf'.destination)
    BY ONLY <1>2, <1>4, <1>5, <1>6, <1>9, <2>5, <2>6, Zenon
  <2>8. Len(delivered') = 0
    BY <1>2, <1>5, EmptySeq
  <2>9. AtPackets'
    BY ONLY <1>2, <1>6, <2>1, <2>2, <2>7, <2>8, Zenon DEF AtPackets
  <2>10. AtRequest'
    BY ONLY <1>9 DEF AtRequest
  <2>11. RequestFirst'
    BY ONLY <1>1, <1>2, <2>1, Zenon DEF RequestFirst
  <2> QED BY ONLY <1>7, <2>9, <2>10, <2>11, Zenon DEF InStream
<1> QED BY ONLY <1>3, <1>8, <1>9, Zenon

\* The frame at the head of the stream is the next packet's.
LEMMA NextFrame ==
  ASSUME NEW ps \in Seq(Datagrams), NEW k \in Nat, k <= Len(ps), NEW c \in BOOLEAN, NEW s, InFrames(s, ps, k, c),
         NEW d, NEW capacity, NEW r, r = ReadFrame(c, d, capacity, s), r.st = "ok"
  PROVE  /\ k < Len(ps) /\ ps[k + 1] \in Datagrams
         /\ r.v = <<IF c THEN d ELSE Unwrap(ps[k + 1][1]), ps[k + 1][2]>>
         /\ InFrames(r.rest, ps, k + 1, c)
<1>1. Len(ps) \in Nat
  BY LenProperties
<1>2. k # Len(ps)
  <2>1. SUFFICES ASSUME k = Len(ps) PROVE FALSE
    OBVIOUS
  <2>2. s = <<>>
    <3>1. InFrames(s, ps, Len(ps), c)
      BY ONLY <2>1, InFrames(s, ps, k, c)
    <3> QED BY ONLY <1>1, <3>1, FramesNone
  <2>3. r = More
    BY <2>2, EmptyFrame
  <2> QED BY ONLY <2>3, MoreIs, r.st = "ok"
<1>3. k < Len(ps) /\ k + 1 \in 1 .. Len(ps)
  BY ONLY <1>1, <1>2, k \in Nat, k <= Len(ps)
<1> DEFINE p == ps[k + 1]
<1>4. p \in Datagrams
  BY ONLY <1>3, ps \in Seq(Datagrams)
<1>5. PICK q \in Stream : s = Cat(FrameOf(c, p), q) /\ InFrames(q, ps, k + 1, c)
  BY ONLY <1>1, <1>3, k \in Nat, InFrames(s, ps, k, c), FrameTaken
<1> HIDE DEF p
<1> DEFINE a == p[1]
           data == p[2]
           v == <<IF c THEN d ELSE Unwrap(a), data>>
<1>6. a \in Socksaddrs /\ CanWriteAddress(AddrParser, a) /\ data \in Seq(Byte) /\ Len(data) <= MaxUint16
  BY ONLY <1>4, FrameBytes, c \in BOOLEAN, Zenon
<1>7. s = Cat(Frame(c, a, data), q)
  BY ONLY <1>5, Zenon DEF FrameOf
<1> HIDE DEF a, data
<1>8. r = IF Len(data) > capacity THEN Bad ELSE Got(v, q)
  <2>1. ReadFrame(c, d, capacity, Cat(Frame(c, a, data), q)) = IF Len(data) > capacity THEN Bad ELSE Got(v, q)
    BY <1>5, <1>6, FrameRead
  <2> QED BY ONLY <1>7, <2>1, r = ReadFrame(c, d, capacity, s), Zenon
<1> HIDE DEF v
<1>9. r = Got(v, q)
  <2>1. r # Bad
    BY ONLY MoreIs, r.st = "ok"
  <2> QED BY ONLY <1>8, <2>1, Zenon
<1>10. r.v = v /\ r.rest = q
  BY ONLY <1>9, GotFields
<1> QED BY ONLY <1>3, <1>4, <1>5, <1>10, Zenon DEF v, a, data, p

\* The packet that the server reads is the next one accepted.
LEMMA UotServerFrame == ASSUME InStream, ServerFrame PROVE InStream'
<1>1. UotState /\ OneDestination /\ RequestFirst /\ AtRequest /\ AtPackets /\ PacketsSeen /\ RepliesUnderWay /\ RepliesSeen
  BY ONLY InStream, Zenon DEF InStream
<1>2. /\ UNCHANGED <<uconf, toClient, accepted, replies, answered, dialed, requestWritten, serverConnect, serverDestination>>
      /\ served = "packets"
  BY ONLY ServerFrame, Zenon DEF ServerFrame, uotClientVars, replyVars
<1> DEFINE r == ReadFrame(serverConnect, serverDestination, uconf.capacity, toServer)
           seen == IF uconf.server = "bridge" /\ IsDomain(r.v[1])
                   THEN <<IP(UdpResolved, r.v[1].Port), r.v[2]>> ELSE r.v
           k == Len(delivered)
<1>3. \/ r.st = "ok" /\ toServer' = r.rest /\ delivered' = Append(delivered, seen) /\ UNCHANGED served
      \/ served' = "stopped" /\ UNCHANGED <<toServer, delivered>>
  BY ONLY ServerFrame, Zenon DEF ServerFrame
<1>4. /\ InFrames(toServer, accepted, k, clientConnect) /\ serverConnect = clientConnect
      /\ clientConnect => serverDestination = Unwrap(uconf.destination)
      /\ uconf.version = 2 => requestWritten
  BY ONLY <1>1, <1>2, Zenon DEF AtPackets
<1>5. /\ clientConnect \in BOOLEAN /\ Len(accepted) \in Nat /\ k \in Nat /\ k \in 0 .. Len(accepted)
      /\ accepted \in Seq(Datagrams) /\ delivered \in Seq(Datagrams)
  BY ONLY <1>1, Configured DEF UotState
<1>6. clientConnect' = clientConnect
  BY ONLY <1>2, Zenon DEF clientConnect
<1>7. OneDestination' /\ RepliesUnderWay' /\ RepliesSeen'
  BY ONLY <1>1, <1>2, KeepReplies, KeepDestination, Zenon
<1> HIDE DEF r, k
<1>8. CASE served' = "stopped" /\ UNCHANGED <<toServer, delivered>>
  <2>1. UotState' /\ RequestFirst' /\ PacketsSeen'
    BY ONLY <1>1, <1>2, <1>8, KeepState, KeepRequest, KeepDelivered, Zenon
  <2>2. AtRequest' /\ AtPackets'
    BY ONLY <1>8 DEF AtRequest, AtPackets
  <2> QED BY ONLY <1>7, <2>1, <2>2, Zenon DEF InStream
<1>9. CASE r.st = "ok" /\ toServer' = r.rest /\ delivered' = Append(delivered, seen) /\ UNCHANGED served
  <2> DEFINE p == accepted[k + 1]
             d == serverDestination
  <2>1. /\ k < Len(accepted) /\ p \in Datagrams
        /\ r.v = <<IF clientConnect THEN d ELSE Unwrap(p[1]), p[2]>>
        /\ InFrames(r.rest, accepted, k + 1, clientConnect)
    <3>1. r = ReadFrame(clientConnect, serverDestination, uconf.capacity, toServer) /\ r.st = "ok"
      BY ONLY <1>4, <1>9, Zenon DEF r
    <3>2. k <= Len(accepted)
      BY ONLY <1>5
    <3> QED BY ONLY <1>4, <1>5, <3>1, <3>2, NextFrame
  <2>2. clientConnect => d = Unwrap(p[1])
    <3>1. k + 1 \in 1 .. Len(accepted)
      BY ONLY <1>5, <2>1
    <3>2. clientConnect => p[1] = uconf.destination
      BY ONLY <1>1, <3>1, Zenon DEF OneDestination
    <3> QED BY ONLY <1>4, <3>2, Zenon
  <2>3. r.v = <<Unwrap(p[1]), p[2]>>
    BY ONLY <2>1, <2>2, Zenon
  <2> HIDE DEF p, d
  <2>4. seen = Seen(p) /\ Seen(p) \in Datagrams
    <3> DEFINE a == Unwrap(p[1])
               data == p[2]
    <3>1. /\ Seen(p) \in Datagrams
          /\ Seen(p) = IF uconf.server = "bridge" /\ IsDomain(a) THEN <<IP(UdpResolved, a.Port), data>> ELSE <<a, data>>
      BY ONLY <2>1, SeenSendable, Zenon
    <3>2. r.v = <<a, data>>
      BY ONLY <2>3
    <3> HIDE DEF a, data
    <3>3. r.v[1] = a /\ r.v[2] = data
      BY ONLY <3>2
    <3> QED BY ONLY <3>1, <3>2, <3>3, Zenon
  <2> HIDE DEF seen
  <2>5. /\ delivered' \in Seq(Datagrams) /\ Len(delivered') = k + 1 /\ delivered'[k + 1] = seen
        /\ \A i \in 1 .. k : delivered'[i] = delivered[i]
    BY ONLY <1>5, <1>9, <2>4 DEF k
  <2>6. UotState'
    <3>1. Len(delivered') <= Len(accepted')
      BY ONLY <1>2, <1>5, <2>1, <2>5
    <3> QED BY ONLY <1>1, <1>2, <2>5, <3>1 DEF UotState
  <2>7. PacketsSeen'
    <3>1. \A i : Seen(accepted[i])' = Seen(accepted[i])
      BY ONLY <1>2, Zenon DEF Seen
    <3>2. \A i \in 1 .. k : delivered'[i] = Seen(accepted[i])
      BY ONLY <1>1, <2>5, Zenon DEF PacketsSeen, k
    <3>3. delivered'[k + 1] = Seen(accepted[k + 1])
      BY ONLY <2>4, <2>5, Zenon DEF p
    <3>4. \A i \in 1 .. k + 1 : i \in 1 .. k \/ i = k + 1
      BY ONLY <1>5
    <3> QED BY ONLY <2>5, <3>1, <3>2, <3>3, <3>4, Zenon DEF PacketsSeen
  <2>8. RequestFirst'
    <3>1. requestWritten
      <4>1. ~requestWritten => Len(accepted) = 0
        BY <1>1, EmptySeq DEF RequestFirst
      <4> QED BY ONLY <1>5, <2>1, <4>1
    <3> QED BY ONLY <1>1, <1>2, <3>1, Zenon DEF RequestFirst
  <2>9. AtRequest'
    BY ONLY <1>2, <1>9 DEF AtRequest
  <2>10. AtPackets'
    BY ONLY <1>2, <1>4, <1>6, <1>9, <2>1, <2>5, Zenon DEF AtPackets
  <2> QED BY ONLY <1>7, <2>6, <2>7, <2>8, <2>9, <2>10, Zenon DEF InStream
<1> QED BY ONLY <1>3, <1>8, <1>9, Zenon

\* A reply goes behind the replies before it.
LEMMA UotServerReplies == ASSUME InStream, ServerReplies, served = "packets" PROVE InStream'
<1>1. UotState /\ OneDestination /\ RequestFirst /\ AtRequest /\ AtPackets /\ PacketsSeen /\ RepliesUnderWay /\ RepliesSeen
  BY ONLY InStream, Zenon DEF InStream
<1>2. /\ UNCHANGED <<uconf, toServer, accepted, answered, dialed, requestWritten>>
      /\ UNCHANGED <<served, serverConnect, serverDestination, delivered>>
      /\ served = "packets"
  BY ONLY ServerReplies, served = "packets", Zenon DEF ServerReplies, uotClientVars, uotServerVars
<1> DEFINE source(i) == IF serverConnect THEN serverDestination ELSE delivered[i][1]
<1>3. PICK i \in 1 .. Len(delivered), data \in Packets :
         /\ toClient' = toClient \o Frame(serverConnect, source(i), data)
         /\ replies' = Append(replies, <<source(i), data>>)
  BY ONLY ServerReplies, Zenon DEF ServerReplies
<1>4. serverConnect = clientConnect /\ (clientConnect => serverDestination = Unwrap(uconf.destination))
  BY ONLY <1>1, <1>2, Zenon DEF AtPackets
<1>5. /\ clientConnect \in BOOLEAN /\ Len(accepted) \in Nat /\ Len(delivered) \in Nat /\ Len(replies) \in Nat
      /\ Len(delivered) \in 0 .. Len(accepted) /\ Len(answered) \in 0 .. Len(replies) /\ Len(answered) \in Nat
      /\ accepted \in Seq(Datagrams) /\ delivered \in Seq(Datagrams) /\ replies \in Seq(Datagrams)
  BY ONLY <1>1, Configured DEF UotState
<1>6. clientConnect' = clientConnect
  BY ONLY <1>2, Zenon DEF clientConnect
<1>7. RequestFirst' /\ AtRequest' /\ AtPackets' /\ PacketsSeen'
  BY ONLY <1>1, <1>2, KeepRequest, KeepAtRequest, KeepAtPackets, KeepDelivered, Zenon
<1> DEFINE a == source(i)
           p == <<a, data>>
           n == Len(replies)
<1>8. a \in Sendable /\ (clientConnect => a = Unwrap(uconf.destination))
  <2>1. CASE clientConnect
    <3>1. 1 \in 1 .. Len(accepted)
      BY ONLY <1>5, i \in 1 .. Len(delivered)
    <3>2. accepted[1] \in Datagrams /\ accepted[1][1] = uconf.destination
      BY ONLY <1>1, <1>5, <2>1, <3>1 DEF OneDestination
    <3>3. uconf.destination \in Sendable
      BY ONLY <3>2 DEF Datagrams
    <3> DEFINE u == uconf.destination
    <3>4. u \in Socksaddrs /\ CanWriteAddress(AddrParser, u)
      BY ONLY <3>3 DEF Sendable
    <3> HIDE DEF u
    <3>5. Unwrap(u) \in Socksaddrs /\ CanWriteAddress(AddrParser, Unwrap(u))
      BY ONLY <3>4, UnwrapAddress, Zenon
    <3>6. a = Unwrap(u)
      BY ONLY <1>4, <2>1, Zenon DEF u
    <3>7. Unwrap(u) \in Sendable
      BY ONLY <3>5 DEF Sendable
    <3> QED BY ONLY <3>6, <3>7, Zenon DEF u
  <2>2. CASE ~clientConnect
    <3>1. a = delivered[i][1]
      BY ONLY <1>4, <2>2, Zenon
    <3>2. delivered[i] \in Datagrams
      BY ONLY <1>5, i \in 1 .. Len(delivered)
    <3>3. delivered[i][1] \in Sendable
      BY ONLY <3>2 DEF Datagrams
    <3> QED BY ONLY <2>2, <3>1, <3>3, Zenon
  <2> QED BY ONLY <1>5, <2>1, <2>2, Zenon
<1>9. toClient' = toClient \o Frame(clientConnect, a, data) /\ replies' = Append(replies, p)
  BY ONLY <1>3, <1>4, Zenon
<1> HIDE DEF a
<1>10. p \in Datagrams /\ p[1] = a /\ p[2] = data
  BY ONLY <1>8, data \in Packets DEF Datagrams
<1> HIDE DEF p
<1>11. /\ replies' \in Seq(Datagrams) /\ Len(replies') = n + 1 /\ replies'[n + 1] = p
       /\ \A j \in 1 .. n : replies'[j] = replies[j]
  BY ONLY <1>5, <1>9, <1>10
<1>12. UotState'
  <2>1. Len(answered') <= Len(replies')
    BY ONLY <1>2, <1>5, <1>11
  <2> QED BY ONLY <1>1, <1>2, <1>11, <2>1 DEF UotState
<1>13. OneDestination'
  <2>1. clientConnect => \A j \in 1 .. n : replies'[j][1] = Unwrap(uconf.destination)
    BY ONLY <1>1, <1>11, Zenon DEF OneDestination
  <2>2. clientConnect => replies'[n + 1][1] = Unwrap(uconf.destination)
    BY ONLY <1>8, <1>10, <1>11, Zenon
  <2>3. \A j \in 1 .. n + 1 : j \in 1 .. n \/ j = n + 1
    BY ONLY <1>5
  <2>4. clientConnect => \A j \in 1 .. Len(replies') : replies'[j][1] = Unwrap(uconf.destination)
    BY ONLY <1>11, <2>1, <2>2, <2>3, Zenon
  <2> QED BY ONLY <1>1, <1>2, <1>6, <2>4, Zenon DEF OneDestination
<1>14. RepliesUnderWay'
  <2>1. InFrames(Cat(toClient, FrameOf(clientConnect, p)), Append(replies, p), Len(answered), clientConnect)
    <3>1. InFrames(toClient, replies, Len(answered), clientConnect)
      BY ONLY <1>1, Zenon DEF RepliesUnderWay
    <3> QED BY ONLY <1>5, <1>10, <3>1, FrameAppended
  <2>2. toClient' = Cat(toClient, FrameOf(clientConnect, p))
    BY ONLY <1>9, <1>10, Zenon DEF Cat, FrameOf
  <2> QED BY ONLY <1>2, <1>6, <1>9, <2>1, <2>2, Zenon DEF RepliesUnderWay
<1>15. RepliesSeen'
  <2>1. \A j \in 1 .. Len(answered) : j \in 1 .. n
    BY ONLY <1>5
  <2>2. \A j \in 1 .. Len(answered) : replies'[j] = replies[j]
    BY ONLY <1>11, <2>1, Zenon
  <2> QED BY ONLY <1>1, <1>2, <2>2, Zenon DEF RepliesSeen
<1> QED BY ONLY <1>7, <1>12, <1>13, <1>14, <1>15, Zenon DEF InStream

\* The packet that the client reads is the next reply.
LEMMA UotClientFrame == ASSUME InStream, ClientFrame PROVE InStream'
<1>1. UotState /\ OneDestination /\ RequestFirst /\ AtRequest /\ AtPackets /\ PacketsSeen /\ RepliesUnderWay /\ RepliesSeen
  BY ONLY InStream, Zenon DEF InStream
<1>2. /\ UNCHANGED <<uconf, toServer, accepted, replies, dialed, requestWritten>>
      /\ UNCHANGED <<served, serverConnect, serverDestination, delivered>>
  BY ONLY ClientFrame, Zenon DEF ClientFrame, uotClientVars, uotServerVars
<1> DEFINE r == ReadFrame(clientConnect, uconf.destination, uconf.capacity, toClient)
           k == Len(answered)
           d == uconf.destination
<1>3. \/ r.st = "ok" /\ toClient' = r.rest /\ answered' = Append(answered, r.v)
      \/ UNCHANGED <<toClient, answered>>
  BY ONLY ClientFrame, Zenon DEF ClientFrame
<1>4. RequestFirst' /\ AtRequest' /\ AtPackets' /\ PacketsSeen' /\ OneDestination'
  BY ONLY <1>1, <1>2, KeepRequest, KeepAtRequest, KeepAtPackets, KeepDelivered, KeepDestination, Zenon
<1>5. /\ clientConnect \in BOOLEAN /\ Len(replies) \in Nat /\ k \in Nat /\ k \in 0 .. Len(replies) /\ d \in Socksaddrs
      /\ replies \in Seq(Datagrams) /\ answered \in Seq(Socksaddrs \X Packets)
  BY ONLY <1>1, Configured DEF UotState
<1>6. clientConnect' = clientConnect
  BY ONLY <1>2, Zenon DEF clientConnect
<1>7. InFrames(toClient, replies, k, clientConnect)
  BY ONLY <1>1, Zenon DEF RepliesUnderWay
<1> HIDE DEF r, k, d
<1>8. CASE UNCHANGED <<toClient, answered>>
  <2>1. UotState' /\ RepliesUnderWay' /\ RepliesSeen'
    BY ONLY <1>1, <1>2, <1>8, KeepState, KeepReplies, Zenon
  <2> QED BY ONLY <1>4, <2>1, Zenon DEF InStream
<1>9. CASE r.st = "ok" /\ toClient' = r.rest /\ answered' = Append(answered, r.v)
  <2> DEFINE p == replies[k + 1]
             b == IF clientConnect THEN d ELSE Unwrap(p[1])
  <2>1. /\ k < Len(replies) /\ p \in Datagrams /\ r.v = <<b, p[2]>>
        /\ InFrames(r.rest, replies, k + 1, clientConnect)
    <3>1. r = ReadFrame(clientConnect, d, uconf.capacity, toClient) /\ r.st = "ok"
      BY ONLY <1>9, Zenon DEF r, d
    <3>2. k <= Len(replies)
      BY ONLY <1>5
    <3> QED BY ONLY <1>5, <1>7, <3>1, <3>2, NextFrame
  <2>2. clientConnect => p[1] = Unwrap(d)
    <3>1. k + 1 \in 1 .. Len(replies)
      BY ONLY <1>5, <2>1
    <3> QED BY ONLY <1>1, <3>1, Zenon DEF OneDestination, d
  <2> HIDE DEF p
  <2>3. p[1] \in Socksaddrs /\ p[2] \in Packets
    BY ONLY <2>1 DEF Datagrams, Sendable
  <2>4. b \in Socksaddrs /\ Unwrap(b) = Unwrap(p[1])
    <3>1. CASE clientConnect
      <4>1. b = d
        BY ONLY <3>1, Zenon
      <4>2. Unwrap(Unwrap(d)) = Unwrap(d)
        BY ONLY <1>5, UnwrapAddress, Zenon
      <4> QED BY ONLY <1>5, <2>2, <3>1, <4>1, <4>2, Zenon
    <3>2. CASE ~clientConnect
      <4>1. b = Unwrap(p[1])
        BY ONLY <3>2, Zenon
      <4>2. Unwrap(p[1]) \in Socksaddrs /\ Unwrap(Unwrap(p[1])) = Unwrap(p[1])
        BY ONLY <2>3, UnwrapAddress, Zenon
      <4> QED BY ONLY <4>1, <4>2, Zenon
    <3> QED BY ONLY <1>5, <3>1, <3>2, Zenon
  <2> HIDE DEF b
  <2>5. r.v \in Socksaddrs \X Packets /\ r.v[1] = b /\ r.v[2] = p[2]
    BY ONLY <2>1, <2>3, <2>4
  <2> DEFINE v == r.v
  <2>6. /\ answered' \in Seq(Socksaddrs \X Packets) /\ Len(answered') = k + 1 /\ answered'[k + 1] = v
        /\ \A j \in 1 .. k : answered'[j] = answered[j]
    <3>1. v \in Socksaddrs \X Packets /\ answered' = Append(answered, v)
      BY ONLY <1>9, <2>5
    <3> HIDE DEF v
    <3> QED BY ONLY <1>5, <3>1 DEF k
  <2>7. UotState'
    <3>1. Len(answered') <= Len(replies')
      BY ONLY <1>2, <1>5, <2>1, <2>6
    <3> QED BY ONLY <1>1, <1>2, <2>6, <3>1 DEF UotState
  <2>8. RepliesUnderWay'
    BY ONLY <1>2, <1>6, <1>9, <2>1, <2>6, Zenon DEF RepliesUnderWay
  <2>9. RepliesSeen'
    <3>1. \A j \in 1 .. k : Unwrap(answered'[j][1]) = Unwrap(replies[j][1]) /\ answered'[j][2] = replies[j][2]
      <4>1. \A j \in 1 .. k : Unwrap(answered[j][1]) = Unwrap(replies[j][1]) /\ answered[j][2] = replies[j][2]
        BY ONLY <1>1, Zenon DEF RepliesSeen, k
      <4> TAKE j \in 1 .. k
      <4>2. answered'[j] = answered[j]
        BY ONLY <2>6, j \in 1 .. k
      <4>3. Unwrap(answered[j][1]) = Unwrap(replies[j][1]) /\ answered[j][2] = replies[j][2]
        BY ONLY <4>1, j \in 1 .. k
      <4> QED BY ONLY <4>2, <4>3, Zenon
    <3>2. Unwrap(answered'[k + 1][1]) = Unwrap(replies[k + 1][1]) /\ answered'[k + 1][2] = replies[k + 1][2]
      BY ONLY <2>4, <2>5, <2>6, Zenon DEF p
    <3>3. \A j \in 1 .. k + 1 : j \in 1 .. k \/ j = k + 1
      BY ONLY <1>5
    <3> QED BY ONLY <1>2, <2>6, <3>1, <3>2, <3>3, Zenon DEF RepliesSeen
  <2> QED BY ONLY <1>4, <2>7, <2>8, <2>9, Zenon DEF InStream
<1> QED BY ONLY <1>3, <1>8, <1>9, Zenon

\* A cut write and a name that does not resolve leave nothing to show.
LEMMA UotStep == ASSUME UotIInv, [UotNext]_uotVars PROVE UotIInv'
<1>0. Spinning'
  <2>1. ASSUME UNCHANGED <<served, unresolved>> PROVE Spinning'
    BY <2>1 DEF UotIInv, Spinning
  <2>2. CASE Dial \/ ClientPacket \/ UotClose \/ BridgeCloses \/ ServerReplies \/ ClientFrame \/ UNCHANGED uotVars
    <3>1. UNCHANGED <<served, unresolved>>
      BY ONLY <2>2, Zenon DEF Dial, ClientPacket, UotClose, BridgeCloses, ServerReplies, ClientFrame, uotServerVars, uotVars
    <3> QED BY ONLY <2>1, <3>1, Zenon
  <2>3. CASE ServerRequest
    BY ONLY <2>3 DEF ServerRequest, Spinning
  <2>4. CASE ServerFrame
    <3>1. served' = "stopped" \/ served' = "packets"
      BY ONLY <2>4, Zenon DEF ServerFrame
    <3> QED BY ONLY <3>1 DEF Spinning
  <2>5. CASE NameFails
    BY ONLY <2>5, Zenon DEF NameFails, Spinning
  <2> QED BY ONLY <2>2, <2>3, <2>4, <2>5, [UotNext]_uotVars, Zenon DEF UotNext
<1>1. SUFFICES ASSUME ~torn', ~unresolved' PROVE InStream'
  BY <1>0, Zenon DEF UotIInv
<1>2. CASE UNCHANGED uotVars
  <2>1. ~torn /\ ~unresolved
    BY ONLY <1>1, <1>2, Zenon DEF uotVars
  <2> QED BY <1>2, <2>1, UotStutter, Zenon DEF UotIInv
<1>3. CASE Dial
  <2>1. ~torn /\ ~unresolved
    BY ONLY <1>1, <1>3, Zenon DEF Dial, uotServerVars
  <2> QED BY <1>3, <2>1, UotDial, Zenon DEF UotIInv
<1>4. CASE ClientPacket
  <2>1. ~torn
    BY ONLY <1>1, <1>4, Zenon DEF ClientPacket
  <2>2. ~unresolved
    BY ONLY <1>1, <1>4, Zenon DEF ClientPacket, uotServerVars
  <2> QED BY <1>1, <1>4, <2>1, <2>2, UotClientPacket, Zenon DEF UotIInv
<1>5. CASE UotClose
  <2>1. ~torn /\ ~unresolved
    BY ONLY <1>1, <1>5, Zenon DEF UotClose, uotServerVars
  <2> QED BY <1>5, <2>1, UotCloses, Zenon DEF UotIInv
<1>6. CASE ServerRequest
  <2>1. ~torn /\ ~unresolved
    BY ONLY <1>1, <1>6, Zenon DEF ServerRequest, uotClientVars
  <2> QED BY <1>6, <2>1, UotServerRequest, Zenon DEF UotIInv
<1>7. CASE ServerFrame
  <2>0. UNCHANGED torn
    BY ONLY <1>7, Zenon DEF ServerFrame, uotClientVars
  <2>1. ~torn /\ ~unresolved
    <3>1. unresolved' = unresolved
      BY ONLY <1>7, Zenon DEF ServerFrame
    <3> QED BY ONLY <1>1, <2>0, <3>1, Zenon
  <2> QED BY <1>7, <2>1, UotServerFrame, Zenon DEF UotIInv
<1>8. CASE NameFails
  BY ONLY <1>1, <1>8, Zenon DEF NameFails
<1>9. CASE ServerReplies
  <2>1. ~torn /\ ~unresolved
    BY ONLY <1>1, <1>9, Zenon DEF ServerReplies, uotClientVars, uotServerVars
  <2>2. served = "packets"
    BY <1>9, <2>1 DEF ServerReplies, UotIInv, Spinning
  <2> QED BY <1>9, <2>1, <2>2, UotServerReplies, Zenon DEF UotIInv
<1>10. CASE ClientFrame
  <2>1. ~torn /\ ~unresolved
    BY ONLY <1>1, <1>10, Zenon DEF ClientFrame, uotClientVars, uotServerVars
  <2> QED BY <1>10, <2>1, UotClientFrame, Zenon DEF UotIInv
<1>11. CASE BridgeCloses
  <2>1. UNCHANGED <<uconf, toServer, toClient, dialed, requestWritten, torn, accepted, served, serverConnect,
                    serverDestination, delivered, unresolved, replies, answered>>
    BY ONLY <1>11, Zenon DEF BridgeCloses, uotClientVars, replyVars
  <2>2. InStream
    BY ONLY <1>1, <2>1, UotIInv, Zenon DEF UotIInv
  <2> QED BY ONLY <2>1, <2>2, KeepReplies, KeepDelivered, KeepDestination, KeepState, KeepAtRequest, KeepAtPackets,
                  KeepRequest, Zenon DEF InStream
<1> QED
  BY ONLY <1>2, <1>3, <1>4, <1>5, <1>6, <1>7, <1>8, <1>9, <1>10, <1>11, [UotNext]_uotVars, Zenon DEF UotNext

\* The invariant says what the run checks.
LEMMA PrefixIs ==
  ASSUME NEW S, NEW m \in Nat, NEW n \in Nat, m <= n, NEW f \in [1 .. n -> S], NEW g \in [1 .. m -> S],
         \A i \in 1 .. m : g[i] = f[i]
  PROVE  IsPrefixOf(g, f)
<1>1. f \in Seq(S) /\ g \in Seq(S)
  BY IsASeq
<1>2. Len(f) = n /\ Len(g) = m
  BY <1>1
<1>3. SubSeq(f, 1, m) \in Seq(S) /\ Len(SubSeq(f, 1, m)) = m /\ \A i \in 1 .. m : SubSeq(f, 1, m)[i] = f[i]
  BY <1>1, <1>2
<1> DEFINE h == SubSeq(f, 1, m)
<1>4. h = g
  <2>1. \A i \in 1 .. m : h[i] = g[i]
    BY <1>3
  <2> HIDE DEF h
  <2>2. h \in Seq(S) /\ Len(h) = Len(g)
    BY ONLY <1>2, <1>3 DEF h
  <2> QED BY ONLY <1>1, <1>2, <2>1, <2>2
<1> HIDE DEF h
<1> QED BY ONLY <1>2, <1>4, m <= n DEF IsPrefixOf, h

LEMMA InStreamKeepsOrder == ASSUME UotIInv PROVE PacketsInOrder
<1>1. SUFFICES ASSUME InStream
               PROVE  /\ IsPrefixOf(delivered, [i \in 1 .. Len(accepted) |-> Seen(accepted[i])])
                      /\ IsPrefixOf([i \in 1 .. Len(answered) |-> <<Unwrap(answered[i][1]), answered[i][2]>>],
                                    [i \in 1 .. Len(replies) |-> <<Unwrap(replies[i][1]), replies[i][2]>>])
  BY DEF UotIInv, PacketsInOrder
<1>2. UotState /\ PacketsSeen /\ RepliesSeen
  BY ONLY <1>1, Zenon DEF InStream
<1>3. /\ Len(accepted) \in Nat /\ Len(delivered) \in Nat /\ Len(replies) \in Nat /\ Len(answered) \in Nat
      /\ accepted \in Seq(Datagrams) /\ delivered \in Seq(Datagrams) /\ replies \in Seq(Datagrams)
      /\ answered \in Seq(Socksaddrs \X Packets)
      /\ Len(delivered) <= Len(accepted) /\ Len(answered) <= Len(replies)
  BY ONLY <1>2, Configured DEF UotState
<1>4. IsPrefixOf(delivered, [i \in 1 .. Len(accepted) |-> Seen(accepted[i])])
  <2> DEFINE f == [i \in 1 .. Len(accepted) |-> Seen(accepted[i])]
  <2>1. \A i \in 1 .. Len(accepted) : Seen(accepted[i]) \in Datagrams
    <3>1. \A i \in 1 .. Len(accepted) : accepted[i] \in Datagrams
      BY ONLY <1>3
    <3> QED BY ONLY <3>1, SeenSendable, Zenon
  <2>2. f \in [1 .. Len(accepted) -> Datagrams]
    BY ONLY <2>1, Zenon
  <2>3. delivered \in [1 .. Len(delivered) -> Datagrams]
    BY ONLY <1>3, LenProperties
  <2>4. \A i \in 1 .. Len(delivered) : i \in 1 .. Len(accepted)
    BY ONLY <1>3
  <2>5. \A i \in 1 .. Len(delivered) : delivered[i] = f[i]
    BY ONLY <1>2, <2>4, Zenon DEF PacketsSeen
  <2> HIDE DEF f
  <2>6. IsPrefixOf(delivered, f)
    BY ONLY <1>3, <2>2, <2>3, <2>5, PrefixIs
  <2> QED BY ONLY <2>6, Zenon DEF f
<1>5. IsPrefixOf([i \in 1 .. Len(answered) |-> <<Unwrap(answered[i][1]), answered[i][2]>>],
                 [i \in 1 .. Len(replies) |-> <<Unwrap(replies[i][1]), replies[i][2]>>])
  <2> DEFINE S == Socksaddrs \X Packets
             V(x) == <<Unwrap(x[1]), x[2]>>
             g == [i \in 1 .. Len(answered) |-> V(answered[i])]
             f == [i \in 1 .. Len(replies) |-> V(replies[i])]
  <2>1. \A x \in S : V(x) \in S
    <3>1. \A a \in Socksaddrs : Unwrap(a) \in Socksaddrs
      BY UnwrapAddress
    <3> QED BY ONLY <3>1
  <2>2. \A i \in 1 .. Len(answered) : answered[i] \in S /\ i \in 1 .. Len(replies)
    BY ONLY <1>3
  <2>3. \A i \in 1 .. Len(replies) : replies[i] \in S
    <3>1. \A i \in 1 .. Len(replies) : replies[i] \in Datagrams
      BY ONLY <1>3
    <3>2. \A x \in Datagrams : x \in S
      BY ONLY TRUE DEF Datagrams, Sendable
    <3> QED BY ONLY <3>1, <3>2, Zenon
  <2>4. \A i \in 1 .. Len(answered) : V(answered[i]) = V(replies[i])
    BY ONLY <1>2, Zenon DEF RepliesSeen
  <2> HIDE DEF V, S
  <2>5. g \in [1 .. Len(answered) -> S] /\ f \in [1 .. Len(replies) -> S]
    BY ONLY <2>1, <2>2, <2>3, Zenon
  <2>6. \A i \in 1 .. Len(answered) : g[i] = f[i]
    BY ONLY <2>2, <2>4, Zenon
  <2> HIDE DEF f, g
  <2>7. IsPrefixOf(g, f)
    BY ONLY <1>3, <2>5, <2>6, PrefixIs
  <2> QED BY ONLY <2>7, Zenon DEF f, g, V
<1> QED BY <1>4, <1>5

\* As long as no write was cut off and every name resolved, the stream of
\* each direction is the frames of the packets that its reader has not read,
\* behind the request as long as the server has not read that, and the two
\* ends agree on whether, and to what, the stream is connected.
THEOREM UotInvariance == UotSpec => []UotIInv
<1>1. UotInit => UotIInv
  <2>1. UotInit => Spinning
    BY DEF UotInit, Spinning
  <2> QED BY <2>1, UotStart DEF UotIInv
<1>2. UotIInv /\ [UotNext]_uotVars => UotIInv'
  BY UotStep
<1> QED BY <1>1, <1>2, PTL DEF UotSpec

\* Whatever the configurations, addresses and packets are: what is read at
\* either end of a UDP over TCP stream is what was written at the other, in
\* its order, with its address and its data.
THEOREM PacketsKeepOrder == UotSpec => []PacketsInOrder
<1>1. UotIInv => PacketsInOrder
  BY InStreamKeepsOrder
<1> QED BY <1>1, UotInvariance, PTL
-----------------------------------------------------------------------------
\* The messages of SOCKS: what a reader finds at the head of a stream that
\* begins with what its writer wrote.
LEMMA JoinIs ==
  ASSUME NEW p \in Seq(Nat), NEW q \in Seq(Nat)
  PROVE  /\ p \o q \in Seq(Nat) /\ Len(p \o q) = Len(p) + Len(q)
         /\ \A i \in 1 .. Len(p) + Len(q) : (p \o q)[i] = IF i <= Len(p) THEN p[i] ELSE q[i - Len(p)]
OBVIOUS

LEMMA TwoIs ==
  ASSUME NEW a \in Nat, NEW b \in Nat, NEW x \in Seq(Nat), Len(x) = 2, x[1] = a, x[2] = b
  PROVE  x = <<a, b>>
OBVIOUS

LEMMA ThreeIs ==
  ASSUME NEW a \in Nat, NEW b \in Nat, NEW c \in Nat,
         NEW x \in Seq(Nat), Len(x) = 3, x[1] = a, x[2] = b, x[3] = c
  PROVE  x = <<a, b, c>>
OBVIOUS

LEMMA Pieces ==
  /\ \A a \in Nat : <<a>> \in Stream
  /\ \A a, b \in Nat : <<a, b>> \in Stream /\ <<a, b>> = Cat(<<a>>, <<b>>)
  /\ \A a, b, c \in Nat : <<a, b, c>> \in Stream /\ <<a, b, c>> = Cat(<<a>>, Cat(<<b>>, <<c>>))
  /\ <<>> \in Stream
<1>1. \A a \in Nat : <<a>> \in Stream
  BY DEF Stream
<1>2. ASSUME NEW a \in Nat, NEW b \in Nat PROVE <<a, b>> \in Stream /\ <<a, b>> = Cat(<<a>>, <<b>>)
  <2> DEFINE p == <<a>>
             q == <<b>>
             x == p \o q
  <2>1. p \in Seq(Nat) /\ Len(p) = 1 /\ p[1] = a /\ q \in Seq(Nat) /\ Len(q) = 1 /\ q[1] = b
    OBVIOUS
  <2> HIDE DEF p, q
  <2>j. /\ x \in Seq(Nat) /\ Len(x) = Len(p) + Len(q)
        /\ \A i \in 1 .. Len(p) + Len(q) : x[i] = IF i <= Len(p) THEN p[i] ELSE q[i - Len(p)]
    BY ONLY <2>1, JoinIs
  <2> HIDE DEF x
  <2>2. x \in Seq(Nat) /\ Len(x) = 2 /\ x[1] = a /\ x[2] = b
    BY ONLY <2>1, <2>j
  <2>3. x = <<a, b>>
    BY ONLY <2>2, TwoIs, a \in Nat, b \in Nat
  <2> QED BY ONLY <2>2, <2>3, Zenon DEF Stream, Cat, x, p, q
<1>3. ASSUME NEW a \in Nat, NEW b \in Nat, NEW c \in Nat
      PROVE  <<a, b, c>> \in Stream /\ <<a, b, c>> = Cat(<<a>>, Cat(<<b>>, <<c>>))
  <2> DEFINE p == <<a>>
             q == <<b, c>>
             x == p \o q
  <2>1. p \in Seq(Nat) /\ Len(p) = 1 /\ p[1] = a /\ q \in Seq(Nat) /\ Len(q) = 2 /\ q[1] = b /\ q[2] = c
    OBVIOUS
  <2>0. q = Cat(<<b>>, <<c>>)
    BY <1>2
  <2> HIDE DEF p, q
  <2>j. /\ x \in Seq(Nat) /\ Len(x) = Len(p) + Len(q)
        /\ \A i \in 1 .. Len(p) + Len(q) : x[i] = IF i <= Len(p) THEN p[i] ELSE q[i - Len(p)]
    BY ONLY <2>1, JoinIs
  <2> HIDE DEF x
  <2>2. x \in Seq(Nat) /\ Len(x) = 3 /\ x[1] = a /\ x[2] = b /\ x[3] = c
    BY ONLY <2>1, <2>j
  <2>3. x = <<a, b, c>>
    BY ONLY <2>2, ThreeIs, a \in Nat, b \in Nat, c \in Nat
  <2>4. x \in Stream /\ x = Cat(<<a>>, q)
    BY ONLY <2>2, Zenon DEF Stream, Cat, x, p
  <2> QED BY ONLY <2>0, <2>3, <2>4, Zenon
<1>4. <<>> \in Stream
  BY DEF Stream
<1> QED BY ONLY <1>1, <1>2, <1>3, <1>4

LEMMA ByteOff == ASSUME NEW b \in Nat, NEW q \in Stream PROVE ReadByte(Cat(<<b>>, q)) = Got(b, q)
BY ByteRead DEF Cat, Stream

LEMMA PairFront ==
  ASSUME NEW a \in Nat, NEW b \in Nat, NEW q \in Stream
  PROVE  /\ Cat(<<a, b>>, q) = Cat(<<a>>, Cat(<<b>>, q))
         /\ Cat(<<b>>, q) \in Stream /\ Cat(<<a, b>>, q) \in Stream
<1> DEFINE x == <<a>>
           y == <<b>>
           z == <<a, b>>
<1>1. x \in Stream /\ y \in Stream /\ z \in Stream /\ z = Cat(x, y)
  BY Pieces
<1> HIDE DEF x, y, z
<1>2. Cat(z, q) = Cat(x, Cat(y, q)) /\ Cat(y, q) \in Stream /\ Cat(z, q) \in Stream
  BY ONLY <1>1, q \in Stream, CatTwo, CatStream
<1> QED BY ONLY <1>2 DEF x, y, z

LEMMA TripleFront ==
  ASSUME NEW a \in Nat, NEW b \in Nat, NEW c \in Nat, NEW q \in Stream
  PROVE  /\ Cat(<<a, b, c>>, q) = Cat(<<a>>, Cat(<<b>>, Cat(<<c>>, q)))
         /\ Cat(<<c>>, q) \in Stream /\ Cat(<<b>>, Cat(<<c>>, q)) \in Stream /\ Cat(<<a, b, c>>, q) \in Stream
<1> DEFINE x == <<a>>
           y == <<b>>
           z == <<c>>
           t == <<a, b, c>>
<1>1. x \in Stream /\ y \in Stream /\ z \in Stream /\ t \in Stream /\ t = Cat(x, Cat(y, z))
  BY Pieces
<1> HIDE DEF x, y, z, t
<1>2. Cat(y, z) \in Stream /\ Cat(z, q) \in Stream
  BY ONLY <1>1, q \in Stream, CatStream
<1>3. Cat(Cat(x, Cat(y, z)), q) = Cat(x, Cat(Cat(y, z), q)) /\ Cat(Cat(y, z), q) = Cat(y, Cat(z, q))
  BY ONLY <1>1, <1>2, q \in Stream, CatTwo
<1>4. Cat(y, Cat(z, q)) \in Stream /\ Cat(t, q) \in Stream
  BY ONLY <1>1, <1>2, q \in Stream, CatStream
<1> QED BY ONLY <1>1, <1>2, <1>3, <1>4 DEF x, y, z, t

\* What follows a read, when it found its bytes and when not.
LEMMA ChosenIs == ASSUME NEW S, NEW e, S = {e} PROVE (CHOOSE y \in S : TRUE) = e
BY OneChoice

\* A version and one byte.
LEMMA VersionedByte ==
  ASSUME NEW e \in Nat, NEW b \in Nat, NEW q \in Stream
  PROVE  (CHOOSE y \in {IF x.st = "ok" THEN (IF x.v # e THEN Bad ELSE ReadByte(x.rest)) ELSE x :
                          x \in {ReadByte(Cat(<<e, b>>, q))}} : TRUE) = Got(b, q)
<1> DEFINE rest == Cat(<<b>>, q)
           r == ReadByte(Cat(<<e, b>>, q))
           S == {IF x.st = "ok" THEN (IF x.v # e THEN Bad ELSE ReadByte(x.rest)) ELSE x : x \in {r}}
<1>1. ReadByte(rest) = Got(b, q)
  BY ByteOff
<1>2. r = Got(e, rest)
  <2>1. Cat(<<e, b>>, q) = Cat(<<e>>, rest) /\ rest \in Stream
    BY PairFront
  <2> HIDE DEF rest
  <2>2. ReadByte(Cat(<<e>>, rest)) = Got(e, rest)
    BY ONLY <2>1, ByteOff, e \in Nat
  <2> QED BY ONLY <2>1, <2>2, Zenon
<1> HIDE DEF rest, r
<1>3. r.st = "ok" /\ r.v = e /\ r.rest = rest
  BY ONLY <1>2, GotFields
<1>4. S = {Got(b, q)}
  BY ONLY <1>1, <1>3
<1> HIDE DEF S
<1>5. (CHOOSE y \in S : TRUE) = Got(b, q)
  BY ONLY <1>4, ChosenIs
<1> QED BY ONLY <1>5, Zenon DEF S, r

LEMMA VersionedNone ==
  ASSUME NEW e
  PROVE  (CHOOSE y \in {IF x.st = "ok" THEN (IF x.v # e THEN Bad ELSE ReadByte(x.rest)) ELSE x :
                          x \in {ReadByte(<<>>)}} : TRUE) = More
<1> DEFINE r == ReadByte(<<>>)
           S == {IF x.st = "ok" THEN (IF x.v # e THEN Bad ELSE ReadByte(x.rest)) ELSE x : x \in {r}}
<1>1. r = More
  BY EmptyByte
<1> HIDE DEF r
<1>2. S = {More}
  BY ONLY <1>1, MoreIs
<1> HIDE DEF S
<1>3. (CHOOSE y \in S : TRUE) = More
  BY ONLY <1>2, ChosenIs
<1> QED BY ONLY <1>3, Zenon DEF S, r

LEMMA AuthResponseRead ==
  ASSUME NEW m \in Nat, NEW q \in Stream
  PROVE  /\ WriteAuthResponse(m) \in Stream
         /\ ReadAuthResponse(Cat(WriteAuthResponse(m), q)) = Got(m, q)
         /\ ReadAuthResponse(<<>>) = More
<1>1. WriteAuthResponse(m) = <<5, m>> /\ <<5, m>> \in Stream
  BY Pieces DEF WriteAuthResponse, Version5
<1>2. ReadAuthResponse(Cat(<<5, m>>, q)) = Got(m, q)
  BY VersionedByte DEF ReadAuthResponse, WithVersion, Then, Version5
<1>3. ReadAuthResponse(<<>>) = More
  BY VersionedNone DEF ReadAuthResponse, WithVersion, Then
<1> QED BY ONLY <1>1, <1>2, <1>3, Zenon

LEMMA StatusRead ==
  ASSUME NEW m \in Nat, NEW q \in Stream
  PROVE  /\ WriteUsernamePasswordAuthResponse(m) \in Stream
         /\ ReadUsernamePasswordAuthResponse(Cat(WriteUsernamePasswordAuthResponse(m), q)) = Got(m, q)
         /\ ReadUsernamePasswordAuthResponse(<<>>) = More
<1>1. WriteUsernamePasswordAuthResponse(m) = <<1, m>> /\ <<1, m>> \in Stream
  BY Pieces DEF WriteUsernamePasswordAuthResponse
<1>2. ReadUsernamePasswordAuthResponse(Cat(<<1, m>>, q)) = Got(m, q)
  BY VersionedByte DEF ReadUsernamePasswordAuthResponse, WithVersion, Then
<1>3. ReadUsernamePasswordAuthResponse(<<>>) = More
  BY VersionedNone DEF ReadUsernamePasswordAuthResponse, WithVersion, Then
<1> QED BY ONLY <1>1, <1>2, <1>3, Zenon

\* The header of three bytes in front of an address.
LEMMA Request5Parse ==
  ASSUME NEW c \in Nat, NEW w \in Stream, NEW r, r = ReadAddrPort(SocksaddrSerializer, w)
  PROVE  ReadRequest5(Cat(<<Version5, c, 0>>, w))
           = IF r.st = "ok" THEN Got([Command |-> c, Destination |-> r.v], r.rest) ELSE r
<1> DEFINE w1 == Cat(<<0>>, w)
           w2 == Cat(<<c>>, w1)
           s == Cat(<<Version5, c, 0>>, w)
           result == IF r.st = "ok" THEN Got([Command |-> c, Destination |-> r.v], r.rest) ELSE r
           S4(k, s3) == {IF x.st = "ok" THEN Got([Command |-> k, Destination |-> x.v], x.rest) ELSE x :
                          x \in {ReadAddrPort(SocksaddrSerializer, s3)}}
           S3(k, s2) == {IF x.st = "ok" THEN (CHOOSE y \in S4(k, x.rest) : TRUE) ELSE x : x \in {ReadByte(s2)}}
           S2(s1) == {IF x.st = "ok" THEN (CHOOSE y \in S3(x.v, x.rest) : TRUE) ELSE x : x \in {ReadByte(s1)}}
           S1 == {IF x.st = "ok" THEN (IF x.v # 5 THEN Bad ELSE CHOOSE y \in S2(x.rest) : TRUE) ELSE x :
                   x \in {ReadByte(s)}}
<1>1. ReadRequest5(s) = CHOOSE y \in S1 : TRUE
  BY Zenon DEF ReadRequest5, WithVersion, Then, Version5
<1>2. w1 \in Stream /\ w2 \in Stream /\ s = Cat(<<5>>, w2)
  BY TripleFront DEF Version5
<1>3. S4(c, w) = {result}
  <2>1. {IF x.st = "ok" THEN Got([Command |-> c, Destination |-> x.v], x.rest) ELSE x : x \in {r}} = {result}
    OBVIOUS
  <2> QED BY ONLY <2>1, r = ReadAddrPort(SocksaddrSerializer, w), Zenon
<1> HIDE DEF S4, result
<1>4. (CHOOSE y \in S4(c, w) : TRUE) = result
  BY ONLY <1>3, ChosenIs
<1>5. S3(c, w1) = {result}
  <2> DEFINE r3 == ReadByte(w1)
             B(k) == CHOOSE y \in S4(c, k) : TRUE
  <2>1. r3 = Got(0, w)
    BY ByteOff
  <2>2. B(w) = result
    BY ONLY <1>4
  <2> HIDE DEF r3, B
  <2>3. r3.st = "ok" /\ r3.rest = w
    BY ONLY <2>1, GotFields
  <2>4. {IF x.st = "ok" THEN B(x.rest) ELSE x : x \in {r3}} = {B(w)}
    BY ONLY <2>3
  <2> QED BY ONLY <2>2, <2>4, Zenon DEF r3, B
<1> HIDE DEF S3, w1
<1>6. (CHOOSE y \in S3(c, w1) : TRUE) = result
  BY ONLY <1>5, ChosenIs
<1>7. S2(w2) = {result}
  <2> DEFINE r2 == ReadByte(w2)
             B(k, t) == CHOOSE y \in S3(k, t) : TRUE
  <2>1. r2 = Got(c, w1)
    BY ONLY <1>2, ByteOff, c \in Nat
  <2>2. B(c, w1) = result
    BY ONLY <1>6
  <2> HIDE DEF r2, B
  <2>3. r2.st = "ok" /\ r2.v = c /\ r2.rest = w1
    BY ONLY <2>1, GotFields
  <2>4. {IF x.st = "ok" THEN B(x.v, x.rest) ELSE x : x \in {r2}} = {B(c, w1)}
    BY ONLY <2>3
  <2> QED BY ONLY <2>2, <2>4, Zenon DEF r2, B
<1> HIDE DEF S2, w2
<1>8. (CHOOSE y \in S2(w2) : TRUE) = result
  BY ONLY <1>7, ChosenIs
<1>9. S1 = {result}
  <2> DEFINE r1 == ReadByte(s)
             B(t) == CHOOSE y \in S2(t) : TRUE
  <2>1. r1 = Got(5, w2)
    <3>1. ReadByte(Cat(<<5>>, w2)) = Got(5, w2)
      BY ONLY <1>2, ByteOff
    <3> QED BY ONLY <1>2, <3>1, Zenon
  <2>2. B(w2) = result
    BY ONLY <1>8
  <2> HIDE DEF r1, B, s
  <2>3. r1.st = "ok" /\ r1.v = 5 /\ r1.rest = w2
    BY ONLY <2>1, GotFields
  <2>4. {IF x.st = "ok" THEN (IF x.v # 5 THEN Bad ELSE B(x.rest)) ELSE x : x \in {r1}} = {B(w2)}
    BY ONLY <2>3
  <2> QED BY ONLY <2>2, <2>4, Zenon DEF r1, B
<1> HIDE DEF S1, s
<1>10. ReadRequest5(s) = result
  BY ONLY <1>1, <1>9, ChosenIs
<1> QED BY ONLY <1>10, Zenon DEF s, result

LEMMA Response5Parse ==
  ASSUME NEW c \in Nat, NEW w \in Stream, NEW r, r = ReadAddrPort(SocksaddrSerializer, w)
  PROVE  ReadResponse5(Cat(<<Version5, c, 0>>, w))
           = IF r.st = "ok" THEN Got([ReplyCode |-> c, Bind |-> r.v], r.rest) ELSE r
<1> DEFINE w1 == Cat(<<0>>, w)
           w2 == Cat(<<c>>, w1)
           s == Cat(<<Version5, c, 0>>, w)
           result == IF r.st = "ok" THEN Got([ReplyCode |-> c, Bind |-> r.v], r.rest) ELSE r
           S4(k, s3) == {IF x.st = "ok" THEN Got([ReplyCode |-> k, Bind |-> x.v], x.rest) ELSE x :
                          x \in {ReadAddrPort(SocksaddrSerializer, s3)}}
           S3(k, s2) == {IF x.st = "ok" THEN (CHOOSE y \in S4(k, x.rest) : TRUE) ELSE x : x \in {ReadByte(s2)}}
           S2(s1) == {IF x.st = "ok" THEN (CHOOSE y \in S3(x.v, x.rest) : TRUE) ELSE x : x \in {ReadByte(s1)}}
           S1 == {IF x.st = "ok" THEN (IF x.v # 5 THEN Bad ELSE CHOOSE y \in S2(x.rest) : TRUE) ELSE x :
                   x \in {ReadByte(s)}}
<1>1. ReadResponse5(s) = CHOOSE y \in S1 : TRUE
  BY Zenon DEF ReadResponse5, WithVersion, Then, Version5
<1>2. w1 \in Stream /\ w2 \in Stream /\ s = Cat(<<5>>, w2)
  BY TripleFront DEF Version5
<1>3. S4(c, w) = {result}
  <2>1. {IF x.st = "ok" THEN Got([ReplyCode |-> c, Bind |-> x.v], x.rest) ELSE x : x \in {r}} = {result}
    OBVIOUS
  <2> QED BY ONLY <2>1, r = ReadAddrPort(SocksaddrSerializer, w), Zenon
<1> HIDE DEF S4, result
<1>4. (CHOOSE y \in S4(c, w) : TRUE) = result
  BY ONLY <1>3, ChosenIs
<1>5. S3(c, w1) = {result}
  <2> DEFINE r3 == ReadByte(w1)
             B(k) == CHOOSE y \in S4(c, k) : TRUE
  <2>1. r3 = Got(0, w)
    BY ByteOff
  <2>2. B(w) = result
    BY ONLY <1>4
  <2> HIDE DEF r3, B
  <2>3. r3.st = "ok" /\ r3.rest = w
    BY ONLY <2>1, GotFields
  <2>4. {IF x.st = "ok" THEN B(x.rest) ELSE x : x \in {r3}} = {B(w)}
    BY ONLY <2>3
  <2> QED BY ONLY <2>2, <2>4, Zenon DEF r3, B
<1> HIDE DEF S3, w1
<1>6. (CHOOSE y \in S3(c, w1) : TRUE) = result
  BY ONLY <1>5, ChosenIs
<1>7. S2(w2) = {result}
  <2> DEFINE r2 == ReadByte(w2)
             B(k, t) == CHOOSE y \in S3(k, t) : TRUE
  <2>1. r2 = Got(c, w1)
    BY ONLY <1>2, ByteOff, c \in Nat
  <2>2. B(c, w1) = result
    BY ONLY <1>6
  <2> HIDE DEF r2, B
  <2>3. r2.st = "ok" /\ r2.v = c /\ r2.rest = w1
    BY ONLY <2>1, GotFields
  <2>4. {IF x.st = "ok" THEN B(x.v, x.rest) ELSE x : x \in {r2}} = {B(c, w1)}
    BY ONLY <2>3
  <2> QED BY ONLY <2>2, <2>4, Zenon DEF r2, B
<1> HIDE DEF S2, w2
<1>8. (CHOOSE y \in S2(w2) : TRUE) = result
  BY ONLY <1>7, ChosenIs
<1>9. S1 = {result}
  <2> DEFINE r1 == ReadByte(s)
             B(t) == CHOOSE y \in S2(t) : TRUE
  <2>1. r1 = Got(5, w2)
    <3>1. ReadByte(Cat(<<5>>, w2)) = Got(5, w2)
      BY ONLY <1>2, ByteOff
    <3> QED BY ONLY <1>2, <3>1, Zenon
  <2>2. B(w2) = result
    BY ONLY <1>8
  <2> HIDE DEF r1, B, s
  <2>3. r1.st = "ok" /\ r1.v = 5 /\ r1.rest = w2
    BY ONLY <2>1, GotFields
  <2>4. {IF x.st = "ok" THEN (IF x.v # 5 THEN Bad ELSE B(x.rest)) ELSE x : x \in {r1}} = {B(w2)}
    BY ONLY <2>3
  <2> QED BY ONLY <2>2, <2>4, Zenon DEF r1, B
<1> HIDE DEF S1, s
<1>10. ReadResponse5(s) = result
  BY ONLY <1>1, <1>9, ChosenIs
<1> QED BY ONLY <1>10, Zenon DEF s, result

LEMMA EmptyRequest5 == ReadRequest5(<<>>) = More
<1> DEFINE r == ReadByte(<<>>)
           S4(k, s3) == {IF x.st = "ok" THEN Got([Command |-> k, Destination |-> x.v], x.rest) ELSE x :
                          x \in {ReadAddrPort(SocksaddrSerializer, s3)}}
           S3(k, s2) == {IF x.st = "ok" THEN (CHOOSE y \in S4(k, x.rest) : TRUE) ELSE x : x \in {ReadByte(s2)}}
           S2(s1) == {IF x.st = "ok" THEN (CHOOSE y \in S3(x.v, x.rest) : TRUE) ELSE x : x \in {ReadByte(s1)}}
           Body(v, rest) == IF v # 5 THEN Bad ELSE CHOOSE y \in S2(rest) : TRUE
           S == {IF x.st = "ok" THEN Body(x.v, x.rest) ELSE x : x \in {r}}
<1>1. r = More
  BY EmptyByte
<1>2. ReadRequest5(<<>>) = CHOOSE y \in S : TRUE
  BY Zenon DEF ReadRequest5, WithVersion, Then, Version5
<1> HIDE DEF r, Body
<1>3. S = {More}
  BY ONLY <1>1, MoreIs
<1> HIDE DEF S
<1> QED BY ONLY <1>2, <1>3, ChosenIs

LEMMA EmptyResponse5 == ReadResponse5(<<>>) = More
<1> DEFINE r == ReadByte(<<>>)
           S4(k, s3) == {IF x.st = "ok" THEN Got([ReplyCode |-> k, Bind |-> x.v], x.rest) ELSE x :
                          x \in {ReadAddrPort(SocksaddrSerializer, s3)}}
           S3(k, s2) == {IF x.st = "ok" THEN (CHOOSE y \in S4(k, x.rest) : TRUE) ELSE x : x \in {ReadByte(s2)}}
           S2(s1) == {IF x.st = "ok" THEN (CHOOSE y \in S3(x.v, x.rest) : TRUE) ELSE x : x \in {ReadByte(s1)}}
           Body(v, rest) == IF v # 5 THEN Bad ELSE CHOOSE y \in S2(rest) : TRUE
           S == {IF x.st = "ok" THEN Body(x.v, x.rest) ELSE x : x \in {r}}
<1>1. r = More
  BY EmptyByte
<1>2. ReadResponse5(<<>>) = CHOOSE y \in S : TRUE
  BY Zenon DEF ReadResponse5, WithVersion, Then, Version5
<1> HIDE DEF r, Body
<1>3. S = {More}
  BY ONLY <1>1, MoreIs
<1> HIDE DEF S
<1> QED BY ONLY <1>2, <1>3, ChosenIs

LEMMA EmptyPassword == ReadUsernamePasswordAuthRequest(<<>>) = More
<1> DEFINE r == ReadByte(<<>>)
           S3(u, s2) == {IF x.st = "ok" THEN Got([Username |-> u, Password |-> x.v], x.rest) ELSE x :
                          x \in {ReadSockString(s2)}}
           S2(s1) == {IF x.st = "ok" THEN (CHOOSE y \in S3(x.v, x.rest) : TRUE) ELSE x : x \in {ReadSockString(s1)}}
           Body(v, rest) == IF v # 1 THEN Bad ELSE CHOOSE y \in S2(rest) : TRUE
           S == {IF x.st = "ok" THEN Body(x.v, x.rest) ELSE x : x \in {r}}
<1>1. r = More
  BY EmptyByte
<1>2. ReadUsernamePasswordAuthRequest(<<>>) = CHOOSE y \in S : TRUE
  BY Zenon DEF ReadUsernamePasswordAuthRequest, WithVersion, Then, Version5
<1> HIDE DEF r, Body
<1>3. S = {More}
  BY ONLY <1>1, MoreIs
<1> HIDE DEF S
<1> QED BY ONLY <1>2, <1>3, ChosenIs

\* A user's name and password.
LEMMA PasswordRead ==
  ASSUME NEW u \in Stream, NEW p \in Stream
  PROVE  /\ WriteUsernamePasswordAuthRequest(u, p) \in Stream
         /\ ReadUsernamePasswordAuthRequest(WriteUsernamePasswordAuthRequest(u, p))
              = Got([Username |-> u, Password |-> p], <<>>)
<1> DEFINE s == WriteUsernamePasswordAuthRequest(u, p)
           wu == WriteSocksString(u)
           wp == WriteSocksString(p)
           w2 == Cat(wu, wp)
           one == <<1>>
           result == Got([Username |-> u, Password |-> p], <<>>)
           S3(n, s2) == {IF x.st = "ok" THEN Got([Username |-> n, Password |-> x.v], x.rest) ELSE x :
                          x \in {ReadSockString(s2)}}
           S2(s1) == {IF x.st = "ok" THEN (CHOOSE y \in S3(x.v, x.rest) : TRUE) ELSE x : x \in {ReadSockString(s1)}}
           S1 == {IF x.st = "ok" THEN (IF x.v # 1 THEN Bad ELSE CHOOSE y \in S2(x.rest) : TRUE) ELSE x :
                   x \in {ReadByte(s)}}
<1>1. ReadUsernamePasswordAuthRequest(s) = CHOOSE y \in S1 : TRUE
  BY Zenon DEF ReadUsernamePasswordAuthRequest, WithVersion, Then
<1>2. wu \in Stream /\ wp \in Stream /\ <<>> \in Stream
  BY StringRead, EmptySeq DEF Stream
<1>3. ReadSockString(w2) = Got(u, wp)
  <2> HIDE DEF wp
  <2> QED BY <1>2, StringRead DEF Stream, Cat
<1>4. ReadSockString(wp) = Got(p, <<>>)
  <2>1. ReadSockString(Cat(wp, <<>>)) = Got(p, <<>>)
    BY <1>2, StringRead DEF Stream, Cat
  <2>2. Cat(wp, <<>>) = wp
    BY ONLY <1>2, EmptyCat
  <2> QED BY ONLY <2>1, <2>2, Zenon
<1>5. one \in Stream
  BY Pieces
<1>6. s = Cat(Cat(one, wu), wp)
  BY Zenon DEF WriteUsernamePasswordAuthRequest, Cat
<1> HIDE DEF wu, wp, one, s
<1>7. s = Cat(one, w2) /\ s \in Stream /\ w2 \in Stream
  BY ONLY <1>2, <1>5, <1>6, CatTwo, CatStream
<1>8. S3(u, wp) = {result}
  <2> DEFINE r == ReadSockString(wp)
  <2>1. r = Got(p, <<>>)
    BY ONLY <1>4
  <2> HIDE DEF r
  <2>2. r.st = "ok" /\ r.v = p /\ r.rest = <<>>
    BY ONLY <2>1, GotFields
  <2>3. {IF x.st = "ok" THEN Got([Username |-> u, Password |-> x.v], x.rest) ELSE x : x \in {r}} = {result}
    BY ONLY <2>2
  <2> QED BY ONLY <2>3, Zenon DEF r
<1> HIDE DEF S3, result
<1>9. (CHOOSE y \in S3(u, wp) : TRUE) = result
  BY ONLY <1>8, ChosenIs
<1>10. S2(w2) = {result}
  <2> DEFINE r == ReadSockString(w2)
             B(n, t) == CHOOSE y \in S3(n, t) : TRUE
  <2>1. r = Got(u, wp) /\ B(u, wp) = result
    BY ONLY <1>3, <1>9, Zenon
  <2> HIDE DEF r, B
  <2>2. r.st = "ok" /\ r.v = u /\ r.rest = wp
    BY ONLY <2>1, GotFields
  <2>3. {IF x.st = "ok" THEN B(x.v, x.rest) ELSE x : x \in {r}} = {B(u, wp)}
    BY ONLY <2>2
  <2> QED BY ONLY <2>1, <2>3, Zenon DEF r, B
<1> HIDE DEF S2, w2
<1>11. (CHOOSE y \in S2(w2) : TRUE) = result
  BY ONLY <1>10, ChosenIs
<1>12. S1 = {result}
  <2> DEFINE r == ReadByte(s)
             B(t) == CHOOSE y \in S2(t) : TRUE
  <2>1. r = Got(1, w2)
    <3>1. ReadByte(Cat(<<1>>, w2)) = Got(1, w2)
      BY ONLY <1>7, ByteOff
    <3> QED BY ONLY <1>7, <3>1, Zenon DEF one
  <2>2. B(w2) = result
    BY ONLY <1>11
  <2> HIDE DEF r, B
  <2>3. r.st = "ok" /\ r.v = 1 /\ r.rest = w2
    BY ONLY <2>1, GotFields
  <2>4. {IF x.st = "ok" THEN (IF x.v # 1 THEN Bad ELSE B(x.rest)) ELSE x : x \in {r}} = {B(w2)}
    BY ONLY <2>3
  <2> QED BY ONLY <2>2, <2>4, Zenon DEF r, B
<1> HIDE DEF S1
<1>13. ReadUsernamePasswordAuthRequest(s) = result
  BY ONLY <1>1, <1>12, ChosenIs
<1> QED BY ONLY <1>7, <1>13, Zenon DEF s, result

\* The first message: its version and what is behind it.
Request4Of(r) == CHOOSE y \in {IF x.st = "ok" THEN Got([version |-> 4, request |-> x.v], x.rest) ELSE x : x \in {r}} : TRUE
MethodsOf(r) == CHOOSE y \in {IF x.st = "ok" THEN Got([version |-> 5, methods |-> x.v], x.rest) ELSE x : x \in {r}} : TRUE
HelloOf(v, rest) ==
  CASE v = 4 -> Request4Of(ReadRequest4(rest)) [] v = 5 -> MethodsOf(ReadAuthRequest(rest)) [] OTHER -> Bad
ParseHello(s) == CHOOSE y \in {IF x.st = "ok" THEN HelloOf(x.v, x.rest) ELSE x : x \in {ReadByte(s)}} : TRUE

LEMMA ServerParseIs ==
  /\ spc = "version" => ServerParse = ParseHello(rbuf)
  /\ spc = "auth" => ServerParse = ReadUsernamePasswordAuthRequest(rbuf)
  /\ spc = "request" => ServerParse = ReadRequest5(rbuf)
<1>1. ASSUME spc = "version" PROVE ServerParse = ParseHello(rbuf)
  BY <1>1 DEF ServerParse, ParseHello, HelloOf, Request4Of, MethodsOf, Then, Version4, Version5
<1>2. spc = "auth" => ServerParse = ReadUsernamePasswordAuthRequest(rbuf)
  BY DEF ServerParse
<1>3. spc = "request" => ServerParse = ReadRequest5(rbuf)
  BY DEF ServerParse
<1> QED BY <1>1, <1>2, <1>3

LEMMA OfResults ==
  ASSUME NEW v, NEW q
  PROVE  /\ Request4Of(Got(v, q)) = Got([version |-> 4, request |-> v], q) /\ Request4Of(More) = More
         /\ MethodsOf(Got(v, q)) = Got([version |-> 5, methods |-> v], q)
<1>1. ASSUME NEW r, r = Got(v, q)
      PROVE  /\ Request4Of(r) = Got([version |-> 4, request |-> v], q)
             /\ MethodsOf(r) = Got([version |-> 5, methods |-> v], q)
  <2>1. r.st = "ok" /\ r.v = v /\ r.rest = q
    BY ONLY <1>1, GotFields
  <2>2. {IF x.st = "ok" THEN Got([version |-> 4, request |-> x.v], x.rest) ELSE x : x \in {r}}
          = {Got([version |-> 4, request |-> v], q)}
    BY ONLY <2>1
  <2>3. {IF x.st = "ok" THEN Got([version |-> 5, methods |-> x.v], x.rest) ELSE x : x \in {r}}
          = {Got([version |-> 5, methods |-> v], q)}
    BY ONLY <2>1
  <2> QED BY ONLY <2>2, <2>3, ChosenIs DEF Request4Of, MethodsOf
<1>2. ASSUME NEW r, r = More PROVE Request4Of(r) = More
  <2>2. {IF x.st = "ok" THEN Got([version |-> 4, request |-> x.v], x.rest) ELSE x : x \in {r}} = {More}
    BY ONLY <1>2, MoreIs
  <2> QED BY ONLY <2>2, ChosenIs DEF Request4Of
<1> QED BY <1>1, <1>2

LEMMA HelloRead ==
  ASSUME NEW v \in Nat, NEW q \in Stream
  PROVE  ParseHello(Cat(<<v>>, q)) = HelloOf(v, q) /\ ParseHello(<<>>) = More
<1>1. ASSUME NEW r, r = Got(v, q)
      PROVE  (CHOOSE y \in {IF x.st = "ok" THEN HelloOf(x.v, x.rest) ELSE x : x \in {r}} : TRUE) = HelloOf(v, q)
  <2>1. r.st = "ok" /\ r.v = v /\ r.rest = q
    BY ONLY <1>1, GotFields
  <2>2. {IF x.st = "ok" THEN HelloOf(x.v, x.rest) ELSE x : x \in {r}} = {HelloOf(v, q)}
    BY ONLY <2>1
  <2> QED BY ONLY <2>2, ChosenIs
<1>2. ASSUME NEW r, r = More
      PROVE  (CHOOSE y \in {IF x.st = "ok" THEN HelloOf(x.v, x.rest) ELSE x : x \in {r}} : TRUE) = More
  <2>2. {IF x.st = "ok" THEN HelloOf(x.v, x.rest) ELSE x : x \in {r}} = {More}
    BY ONLY <1>2, MoreIs
  <2> QED BY ONLY <2>2, ChosenIs
<1> QED BY <1>1, <1>2, ByteOff, EmptyByte DEF ParseHello

\* Version 5 says a list of one method.
LEMMA MethodsRead ==
  ASSUME NEW m \in Nat
  PROVE  /\ WriteAuthRequest(<<m>>) \in Stream
         /\ ParseHello(WriteAuthRequest(<<m>>)) = Got([version |-> 5, methods |-> <<m>>], <<>>)
<1> DEFINE one == <<m>>
           w == Cat(<<1>>, one)
<1>1. one \in Stream /\ Len(one) = 1 /\ <<>> \in Stream
  BY Pieces
<1>2. WriteAuthRequest(one) = Cat(<<5, 1>>, one)
  BY <1>1, Zenon DEF WriteAuthRequest, Version5, Cat
<1> HIDE DEF one
<1>3. Cat(<<5, 1>>, one) = Cat(<<5>>, w) /\ w \in Stream /\ Cat(<<5, 1>>, one) \in Stream
  BY ONLY <1>1, PairFront
<1>4. ReadAuthRequest(w) = Got(one, <<>>)
  <2> DEFINE r == ReadByte(w)
             S == {IF x.st = "ok" THEN ReadFull(x.rest, x.v) ELSE x : x \in {r}}
  <2>1. r = Got(1, one)
    BY ONLY <1>1, ByteOff
  <2>2. ReadFull(one, 1) = Got(one, <<>>)
    <3>1. ReadFull(one \o <<>>, 1) = Got(one, <<>>)
      BY ONLY <1>1, FullRead DEF Stream
    <3>2. Cat(one, <<>>) = one
      BY ONLY <1>1, EmptyCat
    <3> QED BY ONLY <3>1, <3>2, Zenon DEF Cat
  <2>3. ReadAuthRequest(w) = CHOOSE y \in S : TRUE
    BY Zenon DEF ReadAuthRequest, Then
  <2> HIDE DEF r
  <2>4. r.st = "ok" /\ r.v = 1 /\ r.rest = one
    BY ONLY <2>1, GotFields
  <2>5. S = {Got(one, <<>>)}
    BY ONLY <2>2, <2>4
  <2> HIDE DEF S
  <2> QED BY ONLY <2>3, <2>5, ChosenIs
<1> HIDE DEF w
<1>5. ParseHello(Cat(<<5>>, w)) = HelloOf(5, w)
  BY ONLY <1>3, HelloRead
<1>6. HelloOf(5, w) = MethodsOf(ReadAuthRequest(w))
  BY ONLY TRUE DEF HelloOf
<1>7. MethodsOf(Got(one, <<>>)) = Got([version |-> 5, methods |-> one], <<>>)
  BY ONLY OfResults
<1>8. ParseHello(WriteAuthRequest(one)) = Got([version |-> 5, methods |-> one], <<>>)
  BY ONLY <1>2, <1>3, <1>4, <1>5, <1>6, <1>7, Zenon
<1> QED BY ONLY <1>2, <1>3, <1>8, Zenon DEF one

\* Strings that end with a NUL.
LEMMA PartsOf ==
  ASSUME NEW p \in Stream, NEW q \in Stream
  PROVE  /\ SubSeq(Cat(p, q), 1, Len(p)) = p /\ SubSeq(Cat(p, q), Len(p) + 1, Len(Cat(p, q))) = q
         /\ Len(Cat(p, q)) = Len(p) + Len(q) /\ Len(p) \in Nat /\ Len(q) \in Nat
<1>1. Len(p \o q) = Len(p) + Len(q) /\ Len(p) \in Nat /\ Len(q) \in Nat
  BY DEF Stream
<1>2. ReadFull(p \o q, Len(p)) = Got(p, q)
  BY FullRead DEF Stream
<1>3. ~(Len(p \o q) < Len(p))
  BY ONLY <1>1
<1>4. Got(SubSeq(p \o q, 1, Len(p)), SubSeq(p \o q, Len(p) + 1, Len(p \o q))) = Got(p, q)
  BY ONLY <1>2, <1>3, Zenon DEF ReadFull
<1>5. ASSUME NEW a, NEW b, Got(a, b) = Got(p, q) PROVE a = p /\ b = q
  BY ONLY <1>5 DEF Got
<1>6. SubSeq(p \o q, 1, Len(p)) = p /\ SubSeq(p \o q, Len(p) + 1, Len(p \o q)) = q
  BY ONLY <1>4, <1>5, Zenon
<1> QED BY ONLY <1>1, <1>6, Zenon DEF Cat

LEMMA NulString ==
  ASSUME NEW u \in Stream, NulAt(u) = {}, Len(u) <= MaxUint8, NEW q \in Stream
  PROVE  readString(Cat(u, Cat(<<0>>, q))) = Got(u, q) /\ Cat(u, Cat(<<0>>, q)) \in Stream
<1> DEFINE z == <<0>>
           zq == Cat(z, q)
           s == Cat(u, zq)
           n == Len(u)
           nul == NulAt(s)
<1>1. z \in Stream /\ Len(z) = 1 /\ z[1] = 0
  BY Pieces
<1> HIDE DEF z
<1>2. zq \in Stream /\ s \in Stream /\ Cat(u, z) \in Stream /\ s = Cat(Cat(u, z), q)
  BY ONLY <1>1, u \in Stream, q \in Stream, CatStream, CatTwo
<1>3. n \in Nat /\ Len(Cat(u, z)) = n + 1 /\ Len(zq) = 1 + Len(q) /\ Len(q) \in Nat
  <2>1. Len(Cat(u, z)) = Len(u) + Len(z) /\ Len(u) \in Nat
    BY ONLY <1>1, u \in Stream, PartsOf
  <2>2. Len(Cat(z, q)) = Len(z) + Len(q) /\ Len(q) \in Nat
    BY ONLY <1>1, q \in Stream, PartsOf
  <2> QED BY ONLY <1>1, <2>1, <2>2, Zenon
<1>4. SubSeq(s, 1, n) = u /\ Len(s) = n + Len(zq)
  BY ONLY <1>2, u \in Stream, PartsOf
<1>5. SubSeq(s, n + 2, Len(s)) = q
  <2>1. SubSeq(Cat(Cat(u, z), q), Len(Cat(u, z)) + 1, Len(Cat(Cat(u, z), q))) = q
    BY ONLY <1>2, q \in Stream, PartsOf
  <2>2. n + 1 + 1 = n + 2
    BY ONLY <1>3
  <2> QED BY ONLY <2>1, <2>2, <1>2, <1>3, Zenon
<1>6. /\ \A i \in 1 .. n : s[i] = u[i]
      /\ s[n + 1] = 0
  <2>1. \A i \in 1 .. n + Len(zq) : s[i] = IF i <= n THEN u[i] ELSE zq[i - n]
    BY <1>2, JoinIs DEF Cat, Stream
  <2>2. zq[1] = 0
    <3>1. \A i \in 1 .. Len(z) + Len(q) : zq[i] = IF i <= Len(z) THEN z[i] ELSE q[i - Len(z)]
      BY ONLY <1>1, JoinIs, q \in Stream DEF Cat, Stream
    <3> HIDE DEF zq
    <3> QED BY ONLY <1>1, <1>3, <3>1
  <2> HIDE DEF s, zq, n
  <2>3. (n + 1) - n = 1
    BY ONLY <1>3
  <2> DEFINE k == n + 1
             m == Len(zq)
  <2>4. k \in 1 .. n + m /\ ~(k <= n) /\ \A i \in 1 .. n : i \in 1 .. n + m /\ i <= n
    <3> HIDE DEF m
    <3>1. m = 1 + Len(q)
      BY ONLY <1>3 DEF m
    <3> QED BY ONLY <1>3, <3>1
  <2>5. k - n = 1
    BY ONLY <2>3
  <2> HIDE DEF k, m
  <2>6. \A i \in 1 .. n + m : s[i] = IF i <= n THEN u[i] ELSE zq[i - n]
    BY ONLY <2>1 DEF m
  <2>7. s[k] = zq[k - n]
    BY ONLY <2>4, <2>6, Zenon
  <2>8. \A i \in 1 .. n : s[i] = u[i]
    BY ONLY <2>4, <2>6, Zenon
  <2> QED BY ONLY <2>2, <2>5, <2>7, <2>8 DEF k
<1> HIDE DEF s, zq
<1>7. \A i \in 1 .. n : u[i] # 0
  BY NulAt(u) = {} DEF NulAt
<1> HIDE DEF n
<1>8. n + 1 \in nul /\ \A i \in nul : n + 1 <= i /\ i \in Nat
  <2>1. nul = {i \in 1 .. Len(s) : s[i] = 0}
    BY ONLY TRUE DEF NulAt
  <2> QED BY ONLY <1>3, <1>4, <1>6, <1>7, <2>1
<1> HIDE DEF nul
<1>9. (CHOOSE i \in nul : \A j \in nul : i <= j) = n + 1
  <2> DEFINE e == CHOOSE i \in nul : \A j \in nul : i <= j
  <2>1. \E i \in nul : \A j \in nul : i <= j
    BY ONLY <1>8
  <2>2. e \in nul /\ \A j \in nul : e <= j
    BY ONLY <2>1, Zenon
  <2> HIDE DEF e
  <2>3. e = n + 1
    BY ONLY <1>3, <1>8, <2>2
  <2> QED BY ONLY <2>3 DEF e
<1>10. nul # {} /\ ~(n + 1 > MaxUint8 + 1) /\ (n + 1) - 1 = n /\ (n + 1) + 1 = n + 2
  <2>1. n <= MaxUint8
    BY DEF n
  <2> QED BY ONLY <1>3, <1>8, <2>1 DEF MaxUint8
<1>11. readString(s) = Got(SubSeq(s, 1, (n + 1) - 1), SubSeq(s, (n + 1) + 1, Len(s)))
  <2>1. NulAt(s) = nul
    BY ONLY TRUE DEF nul
  <2> DEFINE e == CHOOSE i \in nul : \A j \in nul : i <= j
  <2>2. readString(s) = IF nul = {} THEN (IF Len(s) > MaxUint8 THEN Bad ELSE More)
                        ELSE IF e > MaxUint8 + 1 THEN Bad
                        ELSE Got(SubSeq(s, 1, e - 1), SubSeq(s, e + 1, Len(s)))
    BY ONLY TRUE, Zenon DEF readString, nul
  <2>3. e = n + 1
    BY ONLY <1>9
  <2> HIDE DEF e
  <2>4. readString(s) = Got(SubSeq(s, 1, e - 1), SubSeq(s, e + 1, Len(s)))
    BY ONLY <2>2, <2>3, <1>10, Zenon
  <2> QED BY ONLY <2>3, <2>4, Zenon
<1>12. readString(s) = Got(u, q)
  BY ONLY <1>4, <1>5, <1>10, <1>11, Zenon
<1> QED BY ONLY <1>2, <1>12, Zenon DEF s, zq, z

LEMMA NulNone == readString(<<>>) = More
<1>1. Len(<<>>) = 0 /\ ~(0 > MaxUint8)
  BY EmptySeq DEF MaxUint8
<1>2. NulAt(<<>>) = {}
  <2> DEFINE n == Len(<<>>)
  <2>1. n = 0
    BY <1>1
  <2> HIDE DEF n
  <2>2. 1 .. n = {}
    BY ONLY <2>1
  <2>3. NulAt(<<>>) = {i \in 1 .. n : <<>>[i] = 0}
    BY ONLY TRUE, Zenon DEF NulAt, n
  <2> QED BY ONLY <2>2, <2>3
<1> QED BY ONLY <1>1, <1>2, Zenon DEF readString

\* The host of a request of version 4, as the server parses it.
LEMMA HostParsed ==
  ASSUME NEW a \in Socksaddrs, IsValid(a), ~IsIPv4(a), NulAt(a.Fqdn) = {}
  PROVE  /\ AddrString(a) \in Stream /\ NulAt(AddrString(a)) = {}
         /\ ParseSocksaddrHostPort(AddrString(a), a.Port) = a
<1>1. /\ a \in [Addr : Seq(Byte), Port : 0 .. MaxUint16, Fqdn : Seq(Byte)]
      /\ Len(a.Addr) \in {0, 4, 16} /\ (a.Addr = <<>> \/ a.Fqdn = <<>>)
  BY DEF Socksaddrs
<1>2. CASE a.Addr = <<>>
  <2>1. AddrString(a) = a.Fqdn
    BY ONLY <1>2 DEF AddrString
  <2>2. a.Fqdn \in Seq(Byte)
    BY ONLY <1>1
  <2>3. a = Domain(a.Fqdn, a.Port)
    BY ONLY <1>1, <1>2 DEF Domain
  <2>4. a.Fqdn \in Stream
    BY ONLY <2>2, BytesAreNumbers DEF Stream
  <2>5. ParseSocksaddrHostPort(a.Fqdn, a.Port) = Domain(a.Fqdn, a.Port)
    BY ONLY <2>2, NameParsed
  <2> QED BY <2>1, <2>3, <2>4, <2>5, Zenon
<1>3. CASE a.Addr # <<>>
  <2> DEFINE b == a.Addr
             h == AddrText(b)
  <2>1. b \in Seq(Byte) /\ Len(b) = 16 /\ a = IP(b, a.Port)
    <3>1. Len(a.Addr) # 0
      BY ONLY <1>1, <1>3
    <3>2. Len(a.Addr) = 16
      BY ONLY <1>1, <3>1, ~IsIPv4(a) DEF IsIPv4
    <3>3. a.Fqdn = <<>>
      BY ONLY <1>1, <1>3
    <3> QED BY ONLY <1>1, <3>2, <3>3 DEF IP
  <2>2. AddrString(a) = h
    BY ONLY <1>3 DEF AddrString
  <2> HIDE DEF b
  <2>3. \A i \in 1 .. 16 : b[i] \in Nat
    <3>1. b \in Seq(Nat)
      BY ONLY <2>1, BytesAreNumbers
    <3>2. \A i \in 1 .. Len(b) : b[i] \in Nat
      BY ONLY <3>1
    <3> DEFINE n == Len(b)
    <3>3. n = 16
      BY ONLY <2>1
    <3> HIDE DEF n
    <3>4. \A i \in 1 .. n : b[i] \in Nat
      BY ONLY <3>2 DEF n
    <3> QED BY ONLY <3>3, <3>4
  <2>4. h = [i \in 1 .. 16 |-> 256 + b[i]]
    BY ONLY <2>1, Zenon DEF AddrText
  <2> HIDE DEF h
  <2>5. h \in Stream /\ Len(h) = 16 /\ \A i \in 1 .. 16 : h[i] = 256 + b[i]
    BY ONLY <2>3, <2>4 DEF Stream
  <2>6. \A i \in 1 .. Len(h) : h[i] # 0 /\ h[i] # 91 /\ h[i] > 255 /\ h[i] - 256 = b[i]
    BY ONLY <2>3, <2>5
  <2>7. NulAt(h) = {}
    BY ONLY <2>6 DEF NulAt
  <2>8. unwrapIPv6Address(h) = h
    <3>1. h[1] # LeftBracket
      BY ONLY <2>5, <2>6 DEF LeftBracket
    <3> QED BY ONLY <3>1 DEF unwrapIPv6Address
  <2>9. IsAddrText(h)
    BY ONLY <2>5, <2>6 DEF IsAddrText, MaxUint8
  <2>10. ParsedAddr(h) = b
    <3>1. ParsedAddr(h) = [i \in 1 .. 16 |-> h[i] - 256]
      BY ONLY <2>5, Zenon DEF ParsedAddr
    <3>2. b = [i \in 1 .. 16 |-> b[i]]
      BY ONLY <2>1
    <3> QED BY ONLY <3>1, <3>2, <2>5, <2>6
  <2>11. ParseSocksaddrHostPort(h, a.Port) = IP(b, a.Port)
    BY ONLY <2>8, <2>9, <2>10, Zenon DEF ParseSocksaddrHostPort
  <2> QED BY ONLY <2>1, <2>2, <2>5, <2>7, <2>11, Zenon
<1> QED BY <1>2, <1>3

\* A request of version 4 behind its version, step by step.
ZeroNet(ip) == ip[1] = 0 /\ ip[2] = 0 /\ ip[3] = 0 /\ ip[4] # 0
Named4(c, port, user, r) ==
  CHOOSE y \in {IF x.st = "ok"
                THEN Got([Command |-> c, Username |-> user,
                          Destination |-> Unwrap(ParseSocksaddrHostPort(x.v, port))], x.rest)
                ELSE x : x \in {r}} : TRUE
After4(c, port, ip, user, s) ==
  IF ZeroNet(ip) THEN Named4(c, port, user, readString(s))
  ELSE Got([Command |-> c, Username |-> user, Destination |-> IP(ip, port)], s)
User4(c, port, ip, r) == CHOOSE y \in {IF x.st = "ok" THEN After4(c, port, ip, x.v, x.rest) ELSE x : x \in {r}} : TRUE
Ip4(c, port, r) == CHOOSE y \in {IF x.st = "ok" THEN User4(c, port, x.v, readString(x.rest)) ELSE x : x \in {r}} : TRUE
Port4(c, r) == CHOOSE y \in {IF x.st = "ok" THEN Ip4(c, x.v, ReadFull(x.rest, 4)) ELSE x : x \in {r}} : TRUE
Command4(r) == CHOOSE y \in {IF x.st = "ok" THEN Port4(x.v, ReadUint16(x.rest)) ELSE x : x \in {r}} : TRUE

LEMMA ReadRequest4Is == ASSUME NEW s PROVE ReadRequest4(s) = Command4(ReadByte(s))
BY Zenon DEF ReadRequest4, Then, Command4, Port4, Ip4, User4, After4, Named4, ZeroNet

LEMMA Command4Step ==
  ASSUME NEW r, NEW v, NEW q, r = Got(v, q)
  PROVE  Command4(r) = Port4(v, ReadUint16(q))
<1>1. r.st = "ok" /\ r.v = v /\ r.rest = q
  BY GotFields
<1>2. {IF x.st = "ok" THEN Port4(x.v, ReadUint16(x.rest)) ELSE x : x \in {r}} = {Port4(v, ReadUint16(q))}
  BY ONLY <1>1
<1> QED BY ONLY <1>2, ChosenIs DEF Command4

LEMMA Port4Step ==
  ASSUME NEW r, NEW v, NEW q, r = Got(v, q), NEW c
  PROVE  Port4(c, r) = Ip4(c, v, ReadFull(q, 4))
<1>1. r.st = "ok" /\ r.v = v /\ r.rest = q
  BY GotFields
<1>2. {IF x.st = "ok" THEN Ip4(c, x.v, ReadFull(x.rest, 4)) ELSE x : x \in {r}} = {Ip4(c, v, ReadFull(q, 4))}
  BY ONLY <1>1
<1> QED BY ONLY <1>2, ChosenIs DEF Port4

LEMMA Ip4Step ==
  ASSUME NEW r, NEW v, NEW q, r = Got(v, q), NEW c, NEW port
  PROVE  Ip4(c, port, r) = User4(c, port, v, readString(q))
<1>1. r.st = "ok" /\ r.v = v /\ r.rest = q
  BY GotFields
<1>2. {IF x.st = "ok" THEN User4(c, port, x.v, readString(x.rest)) ELSE x : x \in {r}} = {User4(c, port, v, readString(q))}
  BY ONLY <1>1
<1> QED BY ONLY <1>2, ChosenIs DEF Ip4

LEMMA User4Step ==
  ASSUME NEW r, NEW v, NEW q, r = Got(v, q), NEW c, NEW port, NEW ip
  PROVE  User4(c, port, ip, r) = After4(c, port, ip, v, q)
<1>1. r.st = "ok" /\ r.v = v /\ r.rest = q
  BY GotFields
<1>2. {IF x.st = "ok" THEN After4(c, port, ip, x.v, x.rest) ELSE x : x \in {r}} = {After4(c, port, ip, v, q)}
  BY ONLY <1>1
<1> QED BY ONLY <1>2, ChosenIs DEF User4

LEMMA Named4Step ==
  ASSUME NEW r, NEW v, NEW q, r = Got(v, q), NEW c, NEW port, NEW user
  PROVE  Named4(c, port, user, r)
           = Got([Command |-> c, Username |-> user, Destination |-> Unwrap(ParseSocksaddrHostPort(v, port))], q)
<1> DEFINE N(a, b) == Got([Command |-> c, Username |-> user, Destination |-> Unwrap(ParseSocksaddrHostPort(a, port))], b)
           S == {IF x.st = "ok" THEN N(x.v, x.rest) ELSE x : x \in {r}}
<1>1. r.st = "ok" /\ r.v = v /\ r.rest = q
  BY GotFields
<1>2. Named4(c, port, user, r) = CHOOSE y \in S : TRUE
  BY ONLY TRUE, Zenon DEF Named4
<1> HIDE DEF N
<1>3. S = {N(v, q)}
  BY ONLY <1>1
<1> HIDE DEF S
<1>4. Named4(c, port, user, r) = N(v, q)
  BY ONLY <1>2, <1>3, ChosenIs
<1> QED BY ONLY <1>4, Zenon DEF N

LEMMA NamedNone == ASSUME NEW c, NEW port, NEW user PROVE Named4(c, port, user, More) = More
<1> DEFINE N(a, b) == Got([Command |-> c, Username |-> user, Destination |-> Unwrap(ParseSocksaddrHostPort(a, port))], b)
           S == {IF x.st = "ok" THEN N(x.v, x.rest) ELSE x : x \in {More}}
<1>1. Named4(c, port, user, More) = CHOOSE y \in S : TRUE
  BY ONLY TRUE, Zenon DEF Named4
<1>2. S = {More}
  <2> HIDE DEF N
  <2> QED BY ONLY MoreIs
<1> HIDE DEF S
<1> QED BY ONLY <1>1, <1>2, ChosenIs

LEMMA Request4Parse ==
  ASSUME NEW c \in Nat, NEW port \in 0 .. MaxUint16, NEW ip \in Stream, Len(ip) = 4,
         NEW u \in Stream, NulAt(u) = {}, Len(u) <= MaxUint8, NEW t \in Stream
  PROVE  /\ Cat(<<c>>, Cat(Uint16(port), Cat(ip, Cat(u, Cat(<<0>>, t))))) \in Stream
         /\ ReadRequest4(Cat(<<c>>, Cat(Uint16(port), Cat(ip, Cat(u, Cat(<<0>>, t)))))) = After4(c, port, ip, u, t)
<1> DEFINE w4 == Cat(u, Cat(<<0>>, t))
           w3 == Cat(ip, w4)
           w2 == Cat(Uint16(port), w3)
           w1 == Cat(<<c>>, w2)
<1>1. w4 \in Stream /\ readString(w4) = Got(u, t)
  BY NulString
<1> HIDE DEF w4
<1>2. w3 \in Stream
  BY ONLY <1>1, ip \in Stream, CatStream
<1>3. ReadFull(w3, 4) = Got(ip, w4)
  BY ONLY <1>1, ip \in Stream, Len(ip) = 4, FullRead DEF Stream, Cat
<1> HIDE DEF w3
<1>4. Uint16(port) \in Stream /\ ReadUint16(w2) = Got(port, w3)
  BY ONLY <1>2, Uint16Read, port \in 0 .. MaxUint16 DEF Stream, Cat
<1>5. w2 \in Stream
  BY ONLY <1>2, <1>4, CatStream
<1> HIDE DEF w2
<1>6. ReadByte(w1) = Got(c, w2) /\ w1 \in Stream
  BY ONLY <1>5, ByteOff, CatStream, Pieces, c \in Nat
<1> HIDE DEF w1
<1>7. ReadRequest4(w1) = Command4(ReadByte(w1))
  BY ONLY ReadRequest4Is
<1>8. Command4(ReadByte(w1)) = Port4(c, ReadUint16(w2))
  BY ONLY <1>6, Command4Step
<1>9. Port4(c, ReadUint16(w2)) = Ip4(c, port, ReadFull(w3, 4))
  BY ONLY <1>4, Port4Step
<1>10. Ip4(c, port, ReadFull(w3, 4)) = User4(c, port, ip, readString(w4))
  BY ONLY <1>3, Ip4Step
<1>11. User4(c, port, ip, readString(w4)) = After4(c, port, ip, u, t)
  BY ONLY <1>1, User4Step
<1>12. ReadRequest4(w1) = After4(c, port, ip, u, t)
  BY ONLY <1>7, <1>8, <1>9, <1>10, <1>11, Zenon
<1> QED BY ONLY <1>6, <1>12, Zenon DEF w1, w2, w3, w4

LEMMA CatFive ==
  ASSUME NEW a \in Stream, NEW b \in Stream, NEW c \in Stream, NEW d \in Stream, NEW e \in Stream, NEW f \in Stream
  PROVE  Cat(Cat(Cat(Cat(Cat(a, b), c), d), e), f) = Cat(a, Cat(b, Cat(c, Cat(d, Cat(e, f)))))
<1>1. Cat(a, b) \in Stream /\ Cat(Cat(a, b), c) \in Stream /\ Cat(Cat(Cat(a, b), c), d) \in Stream
  BY CatStream
<1>2. Cat(e, f) \in Stream /\ Cat(d, Cat(e, f)) \in Stream /\ Cat(c, Cat(d, Cat(e, f))) \in Stream
  BY CatStream
<1> DEFINE p == Cat(a, b)
           q == Cat(p, c)
           r == Cat(q, d)
           x == Cat(e, f)
           y == Cat(d, x)
           z == Cat(c, y)
<1>3. Cat(Cat(r, e), f) = Cat(r, x)
  BY ONLY <1>1, e \in Stream, f \in Stream, CatTwo
<1>4. Cat(r, x) = Cat(q, y)
  <2> HIDE DEF q, x
  <2> QED BY ONLY <1>1, <1>2, d \in Stream, CatTwo DEF q, x
<1>5. Cat(q, y) = Cat(p, z)
  <2> HIDE DEF p, y
  <2> QED BY ONLY <1>1, <1>2, c \in Stream, CatTwo DEF p, y
<1>6. Cat(p, z) = Cat(a, Cat(b, z))
  <2> HIDE DEF z
  <2> QED BY ONLY <1>1, <1>2, a \in Stream, b \in Stream, CatTwo DEF z
<1> QED BY ONLY <1>3, <1>4, <1>5, <1>6, Zenon

\* A request of version 4 is read as what was written; an address 0.0.0.x is the
\* mark of a name, which the server then waits for.
LEMMA Hello4Read ==
  ASSUME NEW c \in Nat, NEW a \in Socksaddrs, IsValid(a), NulAt(a.Fqdn) = {},
         NEW u \in Seq(Byte), NulAt(u) = {},
         NEW r, r = [Command |-> c, Destination |-> a, Username |-> u], CanWriteRequest4(r)
  PROVE  /\ WriteRequest4(r) \in Stream
         /\ ParseHello(WriteRequest4(r))
              \in {More, Got([version |-> 4, request |-> [Command |-> c, Username |-> u, Destination |-> Unwrap(a)]], <<>>)}
<1> DEFINE x == IF IsIPv4(a) THEN a.Addr ELSE <<0, 0, 0, 1>>
           h == AddrString(a)
           y == IF IsIPv4(a) THEN <<>> ELSE Cat(h, <<0>>)
           p == Uint16(a.Port)
           z == <<0>>
           v == <<4, c>>
           w == Cat(p, Cat(x, Cat(u, Cat(z, y))))
           answer == [Command |-> c, Username |-> u, Destination |-> Unwrap(a)]
           s == WriteRequest4(r)
<1>1. r.Command = c /\ r.Destination = a /\ r.Username = u
  OBVIOUS
<1>2. Len(u) <= MaxUint8 /\ (~IsIPv4(a) => Len(h) <= MaxUint8)
  BY ONLY <1>1, CanWriteRequest4(r), Zenon DEF CanWriteRequest4
<1>3. s = Cat(Cat(Cat(Cat(Cat(v, p), x), u), z), y)
  BY ONLY <1>1, Zenon DEF WriteRequest4, Cat, Version4
<1>4. /\ a \in [Addr : Seq(Byte), Port : 0 .. MaxUint16, Fqdn : Seq(Byte)]
      /\ Len(a.Addr) \in {0, 4, 16} /\ (a.Addr = <<>> \/ a.Fqdn = <<>>)
  BY DEF Socksaddrs
<1>5. a.Port \in 0 .. MaxUint16 /\ u \in Stream /\ p \in Stream /\ z \in Stream /\ v \in Stream /\ <<>> \in Stream
  <2>1. a.Port \in 0 .. MaxUint16 /\ <<>> \in Seq(Nat)
    BY ONLY <1>4, EmptySeq
  <2>2. p \in Stream
    BY ONLY <2>1, Uint16Read DEF Stream
  <2>3. z \in Stream /\ v \in Stream /\ <<>> \in Stream
    BY Pieces
  <2>4. u \in Stream
    BY BytesAreNumbers DEF Stream
  <2> QED BY ONLY <2>1, <2>2, <2>3, <2>4
<1>6. x \in Stream /\ Len(x) = 4 /\ y \in Stream /\ (After4(c, a.Port, x, u, y) \in {More, Got(answer, <<>>)})
  <2>1. CASE IsIPv4(a)
    <3> DEFINE b == a.Addr
    <3>1. b \in Stream /\ Len(b) = 4
      BY ONLY <1>4, <2>1, BytesAreNumbers DEF Stream, IsIPv4
    <3>2. a = IP(b, a.Port)
      <4>1. a.Addr # <<>>
        <5>1. Len(b) \in Nat /\ Len(b) # 0
          <6> HIDE DEF b
          <6> QED BY ONLY <3>1
        <5> HIDE DEF b
        <5>2. b # <<>>
          BY ONLY <5>1, NonEmpty
        <5> QED BY ONLY <5>2 DEF b
      <4>2. a.Fqdn = <<>>
        BY ONLY <1>4, <4>1
      <4> QED BY ONLY <1>4, <4>2 DEF IP
    <3>3. Unwrap(a) = a
      <4>1. ~Is4In6(a)
        BY ONLY <2>1 DEF IsIPv4, IsIPv6, Is4In6
      <4> QED BY ONLY <4>1, Zenon DEF Unwrap
    <3>4. x = b /\ y = <<>>
      BY ONLY <2>1
    <3>5. answer = [Command |-> c, Username |-> u, Destination |-> IP(b, a.Port)]
      BY ONLY <3>2, <3>3, Zenon
    <3> HIDE DEF b, answer, x, y
    <3>6. After4(c, a.Port, b, u, <<>>) \in {More, Got(answer, <<>>)}
      <4>1. CASE ZeroNet(b)
        <5>1. After4(c, a.Port, b, u, <<>>) = Named4(c, a.Port, u, More)
          BY ONLY <4>1, NulNone, Zenon DEF After4
        <5> QED BY ONLY <5>1, NamedNone
      <4>2. CASE ~ZeroNet(b)
        <5>1. After4(c, a.Port, b, u, <<>>) = Got(answer, <<>>)
          BY ONLY <4>2, <3>5, Zenon DEF After4
        <5> QED BY ONLY <5>1
      <4> QED BY ONLY <4>1, <4>2
    <3>7. b \in Stream /\ Len(b) = 4 /\ <<>> \in Stream
      BY ONLY <3>1, <1>5
    <3> QED BY ONLY <3>4, <3>6, <3>7, Zenon
  <2>2. CASE ~IsIPv4(a)
    <3> DEFINE b == <<0, 0, 0, 1>>
    <3>1. h \in Stream /\ NulAt(h) = {} /\ ParseSocksaddrHostPort(h, a.Port) = a
      BY <2>2, HostParsed
    <3>2. b \in Stream /\ Len(b) = 4 /\ ZeroNet(b)
      BY DEF ZeroNet, Stream
    <3>3. x = b /\ y = Cat(h, z)
      BY ONLY <2>2
    <3> HIDE DEF b, h, x, y, z
    <3>4. Cat(z, <<>>) = z /\ Cat(h, z) \in Stream
      BY ONLY <1>5, <3>1, EmptyCat, CatStream
    <3>5. Len(h) <= MaxUint8
      BY ONLY <1>2, <2>2
    <3>6. readString(Cat(h, Cat(<<0>>, <<>>))) = Got(h, <<>>)
      BY ONLY <1>5, <3>1, <3>5, NulString
    <3>7. readString(Cat(h, z)) = Got(h, <<>>)
      BY ONLY <3>4, <3>6, Zenon DEF z
    <3>8. Named4(c, a.Port, u, readString(Cat(h, z))) = Got(answer, <<>>)
      <4> DEFINE rs == readString(Cat(h, z))
      <4>1. rs = Got(h, <<>>)
        BY ONLY <3>7
      <4> HIDE DEF rs
      <4>2. Named4(c, a.Port, u, rs)
              = Got([Command |-> c, Username |-> u, Destination |-> Unwrap(ParseSocksaddrHostPort(h, a.Port))], <<>>)
        BY ONLY <4>1, Named4Step
      <4> QED BY ONLY <4>2, <3>1, Zenon DEF rs
    <3> HIDE DEF answer
    <3>9. After4(c, a.Port, b, u, Cat(h, z)) = Got(answer, <<>>)
      BY ONLY <3>2, <3>8, Zenon DEF After4
    <3>10. After4(c, a.Port, b, u, Cat(h, z)) \in {More, Got(answer, <<>>)}
      BY ONLY <3>9
    <3> QED BY ONLY <3>2, <3>3, <3>4, <3>10, Zenon
  <2> QED BY <2>1, <2>2
<1> HIDE DEF x, y, p, v, answer
<1>7. s = Cat(v, w)
  <2> HIDE DEF z, s
  <2>1. v \in Stream /\ p \in Stream /\ x \in Stream /\ u \in Stream /\ z \in Stream /\ y \in Stream
    BY ONLY <1>5, <1>6
  <2>2. Cat(Cat(Cat(Cat(Cat(v, p), x), u), z), y) = Cat(v, w)
    BY ONLY <2>1, CatFive
  <2> QED BY ONLY <1>3, <2>2
<1>8. Cat(<<c>>, w) \in Stream /\ ReadRequest4(Cat(<<c>>, w)) = After4(c, a.Port, x, u, y)
  BY ONLY <1>2, <1>5, <1>6, c \in Nat, NulAt(u) = {}, Request4Parse DEF p
<1>9. w \in Stream
  <2> HIDE DEF z
  <2>1. Cat(z, y) \in Stream
    BY ONLY <1>5, <1>6, CatStream
  <2>2. Cat(u, Cat(z, y)) \in Stream
    BY ONLY <1>5, <2>1, CatStream
  <2>3. Cat(x, Cat(u, Cat(z, y))) \in Stream
    BY ONLY <1>6, <2>2, CatStream
  <2> QED BY ONLY <1>5, <2>3, CatStream
<1> HIDE DEF w, s
<1>10. s = Cat(<<4>>, Cat(<<c>>, w)) /\ s \in Stream
  <2>1. Cat(<<4, c>>, w) = Cat(<<4>>, Cat(<<c>>, w)) /\ Cat(<<4, c>>, w) \in Stream
    BY ONLY <1>9, c \in Nat, PairFront
  <2> QED BY ONLY <1>7, <2>1, Zenon DEF v
<1>11. ParseHello(s) = HelloOf(4, Cat(<<c>>, w))
  BY ONLY <1>8, <1>10, HelloRead
<1>12. HelloOf(4, Cat(<<c>>, w)) = Request4Of(ReadRequest4(Cat(<<c>>, w)))
  BY ONLY TRUE DEF HelloOf
<1>13. ParseHello(s) = Request4Of(After4(c, a.Port, x, u, y))
  BY ONLY <1>8, <1>11, <1>12, Zenon
<1>14. ParseHello(s) \in {More, Got([version |-> 4, request |-> answer], <<>>)}
  <2>1. Request4Of(More) = More /\ Request4Of(Got(answer, <<>>)) = Got([version |-> 4, request |-> answer], <<>>)
    BY ONLY OfResults
  <2> QED BY ONLY <1>6, <1>13, <2>1
<1> QED BY ONLY <1>10, <1>14, Zenon DEF s, answer

-----------------------------------------------------------------------------
\* A reply of version 4, step by step.
Address4Of(code, port, r) ==
  CHOOSE y \in {IF x.st = "ok" THEN Got([ReplyCode |-> code, Destination |-> IP(x.v, port)], x.rest) ELSE x : x \in {r}} : TRUE
ReplyPort4(code, r) == CHOOSE y \in {IF x.st = "ok" THEN Address4Of(code, x.v, ReadFull(x.rest, 4)) ELSE x : x \in {r}} : TRUE
Code4(r) == CHOOSE y \in {IF x.st = "ok" THEN ReplyPort4(x.v, ReadUint16(x.rest)) ELSE x : x \in {r}} : TRUE
Reply4(r) == CHOOSE y \in {IF x.st = "ok" THEN (IF x.v # 0 THEN Bad ELSE Code4(ReadByte(x.rest))) ELSE x : x \in {r}} : TRUE

LEMMA ReadResponse4Is == ASSUME NEW s PROVE ReadResponse4(s) = Reply4(ReadByte(s))
BY Zenon DEF ReadResponse4, Then, Reply4, Code4, ReplyPort4, Address4Of

LEMMA Reply4Step == ASSUME NEW r, NEW q, r = Got(0, q) PROVE Reply4(r) = Code4(ReadByte(q))
<1>1. r.st = "ok" /\ r.v = 0 /\ r.rest = q
  BY GotFields
<1>2. {IF x.st = "ok" THEN (IF x.v # 0 THEN Bad ELSE Code4(ReadByte(x.rest))) ELSE x : x \in {r}} = {Code4(ReadByte(q))}
  BY ONLY <1>1
<1> QED BY ONLY <1>2, ChosenIs DEF Reply4

LEMMA Code4Step == ASSUME NEW r, NEW v, NEW q, r = Got(v, q) PROVE Code4(r) = ReplyPort4(v, ReadUint16(q))
<1>1. r.st = "ok" /\ r.v = v /\ r.rest = q
  BY GotFields
<1>2. {IF x.st = "ok" THEN ReplyPort4(x.v, ReadUint16(x.rest)) ELSE x : x \in {r}} = {ReplyPort4(v, ReadUint16(q))}
  BY ONLY <1>1
<1> QED BY ONLY <1>2, ChosenIs DEF Code4

LEMMA ReplyPort4Step ==
  ASSUME NEW r, NEW v, NEW q, r = Got(v, q), NEW code
  PROVE  ReplyPort4(code, r) = Address4Of(code, v, ReadFull(q, 4))
<1>1. r.st = "ok" /\ r.v = v /\ r.rest = q
  BY GotFields
<1>2. {IF x.st = "ok" THEN Address4Of(code, x.v, ReadFull(x.rest, 4)) ELSE x : x \in {r}} = {Address4Of(code, v, ReadFull(q, 4))}
  BY ONLY <1>1
<1> QED BY ONLY <1>2, ChosenIs DEF ReplyPort4

LEMMA Address4Step ==
  ASSUME NEW r, NEW v, NEW q, r = Got(v, q), NEW code, NEW port
  PROVE  Address4Of(code, port, r) = Got([ReplyCode |-> code, Destination |-> IP(v, port)], q)
<1> DEFINE N(a, b) == Got([ReplyCode |-> code, Destination |-> IP(a, port)], b)
           S == {IF x.st = "ok" THEN N(x.v, x.rest) ELSE x : x \in {r}}
<1>1. r.st = "ok" /\ r.v = v /\ r.rest = q
  BY GotFields
<1>2. Address4Of(code, port, r) = CHOOSE y \in S : TRUE
  BY ONLY TRUE, Zenon DEF Address4Of
<1> HIDE DEF N
<1>3. S = {N(v, q)}
  BY ONLY <1>1
<1> HIDE DEF S
<1>4. Address4Of(code, port, r) = N(v, q)
  BY ONLY <1>2, <1>3, ChosenIs
<1> QED BY ONLY <1>4, Zenon DEF N

LEMMA Address4None == ASSUME NEW code, NEW port PROVE Address4Of(code, port, More) = More
<1> DEFINE N(a, b) == Got([ReplyCode |-> code, Destination |-> IP(a, port)], b)
           S == {IF x.st = "ok" THEN N(x.v, x.rest) ELSE x : x \in {More}}
<1>1. Address4Of(code, port, More) = CHOOSE y \in S : TRUE
  BY ONLY TRUE, Zenon DEF Address4Of
<1>2. S = {More}
  <2> HIDE DEF N
  <2> QED BY ONLY MoreIs
<1> HIDE DEF S
<1> QED BY ONLY <1>1, <1>2, ChosenIs

LEMMA EmptyResponse4 == ReadResponse4(<<>>) = More
<1> DEFINE N(a, b) == IF a # 0 THEN Bad ELSE Code4(ReadByte(b))
           S == {IF x.st = "ok" THEN N(x.v, x.rest) ELSE x : x \in {More}}
<1>1. ReadResponse4(<<>>) = Reply4(More)
  BY ONLY ReadResponse4Is, EmptyByte
<1>2. Reply4(More) = CHOOSE y \in S : TRUE
  BY ONLY TRUE, Zenon DEF Reply4
<1>3. S = {More}
  <2> HIDE DEF N
  <2> QED BY ONLY MoreIs
<1> HIDE DEF S
<1> QED BY ONLY <1>1, <1>2, <1>3, ChosenIs

\* Behind the code and the port there is an address of four bytes or none.
LEMMA Response4Parse ==
  ASSUME NEW c \in Nat, NEW port \in 0 .. MaxUint16, NEW w \in Stream
  PROVE  /\ Cat(<<0, c>>, Cat(Uint16(port), w)) \in Stream
         /\ ReadResponse4(Cat(<<0, c>>, Cat(Uint16(port), w))) = Address4Of(c, port, ReadFull(w, 4))
<1> DEFINE w2 == Cat(Uint16(port), w)
           w1 == Cat(<<c>>, w2)
           s == Cat(<<0, c>>, w2)
<1>1. Uint16(port) \in Stream /\ ReadUint16(w2) = Got(port, w)
  BY Uint16Read DEF Stream, Cat
<1>2. w2 \in Stream
  BY <1>1, CatStream
<1> HIDE DEF w2
<1>3. s = Cat(<<0>>, w1) /\ w1 \in Stream /\ s \in Stream
  BY ONLY <1>2, PairFront, c \in Nat
<1>4. ReadByte(w1) = Got(c, w2)
  BY ONLY <1>2, ByteOff, c \in Nat
<1> HIDE DEF w1, s
<1>5. ReadByte(s) = Got(0, w1)
  <2>1. ReadByte(Cat(<<0>>, w1)) = Got(0, w1)
    BY ONLY <1>3, ByteOff
  <2> QED BY ONLY <1>3, <2>1, Zenon
<1>6. ReadResponse4(s) = Reply4(ReadByte(s))
  BY ONLY ReadResponse4Is
<1>7. Reply4(ReadByte(s)) = Code4(ReadByte(w1))
  BY ONLY <1>5, Reply4Step
<1>8. Code4(ReadByte(w1)) = ReplyPort4(c, ReadUint16(w2))
  BY ONLY <1>4, Code4Step
<1>9. ReplyPort4(c, ReadUint16(w2)) = Address4Of(c, port, ReadFull(w, 4))
  BY ONLY <1>1, ReplyPort4Step
<1>10. ReadResponse4(s) = Address4Of(c, port, ReadFull(w, 4))
  BY ONLY <1>6, <1>7, <1>8, <1>9, Zenon
<1> QED BY ONLY <1>3, <1>10, Zenon DEF s, w2

\* The first n bytes of a stream and the others.
LEMMA CutAt ==
  ASSUME NEW s \in Stream, NEW n \in Nat, n <= Len(s)
  PROVE  \E v, t \in Stream : s = Cat(v, t) /\ Len(v) = n
<1> DEFINE v == SubSeq(s, 1, n)
           t == SubSeq(s, n + 1, Len(s))
           x == v \o t
<1>1. s \in Seq(Nat) /\ Len(s) \in Nat
  BY DEF Stream
<1>2. /\ v \in Seq(Nat) /\ Len(v) = n /\ \A i \in 1 .. n : v[i] = s[i]
      /\ t \in Seq(Nat) /\ Len(t) = Len(s) - n /\ \A i \in 1 .. Len(s) - n : t[i] = s[n + i]
  <2>1. v \in Seq(Nat) /\ Len(v) = n /\ \A i \in 1 .. n : v[i] = s[i]
    BY ONLY <1>1, n \in Nat, n <= Len(s)
  <2>2. t \in Seq(Nat)
    BY ONLY <1>1, n \in Nat, n <= Len(s)
  <2>3. Len(t) = Len(s) - n
    BY ONLY <1>1, n \in Nat, n <= Len(s)
  <2>4. \A i \in 1 .. Len(s) - n : t[i] = s[n + i]
    BY ONLY <1>1, n \in Nat, n <= Len(s)
  <2> QED BY ONLY <2>1, <2>2, <2>3, <2>4
<1> HIDE DEF v, t
<1>3. /\ x \in Seq(Nat) /\ Len(x) = Len(v) + Len(t)
      /\ \A i \in 1 .. Len(v) + Len(t) : x[i] = IF i <= Len(v) THEN v[i] ELSE t[i - Len(v)]
  BY ONLY <1>2, JoinIs
<1> HIDE DEF x
<1>4. Len(x) = Len(s) /\ \A i \in 1 .. Len(s) : x[i] = s[i]
  <2>1. Len(x) = Len(s)
    BY ONLY <1>1, <1>2, <1>3, n \in Nat
  <2>2. ASSUME NEW i \in 1 .. Len(s) PROVE x[i] = s[i]
    <3>1. CASE i <= n
      BY ONLY <1>1, <1>2, <1>3, <2>2, <3>1, n \in Nat
    <3>2. CASE ~(i <= n)
      <4>1. x[i] = t[i - n] /\ i - n \in 1 .. Len(s) - n /\ n + (i - n) = i
        BY ONLY <1>1, <1>2, <1>3, <2>2, <3>2, n \in Nat
      <4>2. t[i - n] = s[n + (i - n)]
        BY ONLY <1>2, <4>1
      <4> QED BY ONLY <4>1, <4>2
    <3> QED BY ONLY <3>1, <3>2
  <2> QED BY ONLY <2>1, <2>2
<1>5. s = x
  BY ONLY <1>1, <1>3, <1>4, SameSequence
<1>6. s = Cat(v, t) /\ v \in Stream /\ t \in Stream /\ Len(v) = n
  BY ONLY <1>2, <1>5, Zenon DEF x, Cat, Stream
<1> QED BY ONLY <1>6

\* What the client needs to know of a reply: its code, and what is behind it.
Replies(r, code, q) == r.st = "ok" /\ r.v.ReplyCode = code /\ r.rest = q

LEMMA Response4Read ==
  ASSUME NEW c \in Nat, NEW a, a.Addr \in Stream, Len(a.Addr) \in {4, 16}, a.Port \in 0 .. MaxUint16, NEW q \in Stream
  PROVE  /\ WriteResponse4(c, a) \in Stream
         /\ Replies(ReadResponse4(Cat(WriteResponse4(c, a), q)), c, q)
<1> DEFINE h == <<0, c>>
           p == Uint16(a.Port)
           s == WriteResponse4(c, a)
           bytes == Cat(Cat(h, p), a.Addr)
<1>1. PICK v \in Stream, t \in Stream : a.Addr = Cat(v, t) /\ Len(v) = 4
  <2> DEFINE n == Len(a.Addr)
  <2>0. n \in {4, 16}
    OBVIOUS
  <2> HIDE DEF n
  <2>2. 4 \in Nat /\ 4 <= n
    BY ONLY <2>0
  <2>1. 4 \in Nat /\ 4 <= Len(a.Addr)
    BY ONLY <2>2 DEF n
  <2> QED BY ONLY <2>1, a.Addr \in Stream, CutAt
<1>2. h \in Stream /\ Len(h) = 2
  BY Pieces
<1>3. p \in Stream /\ Len(p) = 2
  BY Uint16Read DEF Stream, Uint16
<1>4. s = SubSeq(bytes, 1, IF Len(bytes) > 8 THEN 8 ELSE Len(bytes))
  BY Zenon DEF WriteResponse4, Cat
<1> HIDE DEF h, p, s, bytes
<1> DEFINE hp == Cat(h, p)
           x == Cat(hp, v)
<1>5. hp \in Stream /\ Len(hp) = 4
  <2>1. hp \in Stream /\ Len(hp) = Len(h) + Len(p)
    BY ONLY <1>2, <1>3, PartsOf, CatStream
  <2> QED BY ONLY <1>2, <1>3, <2>1
<1> HIDE DEF hp
<1>6. x \in Stream /\ Len(x) = 8
  <2>1. x \in Stream /\ Len(x) = Len(hp) + Len(v)
    BY ONLY <1>1, <1>5, PartsOf, CatStream
  <2> QED BY ONLY <1>1, <1>5, <2>1
<1>7. bytes = Cat(x, t)
  <2>1. Cat(Cat(hp, v), t) = Cat(hp, Cat(v, t))
    BY ONLY <1>1, <1>5, CatTwo
  <2> QED BY ONLY <1>1, <2>1, Zenon DEF bytes, hp
<1>8. Len(bytes) \in Nat /\ Len(bytes) >= 8 /\ SubSeq(bytes, 1, 8) = x
  <2> HIDE DEF x
  <2>1. Len(Cat(x, t)) = Len(x) + Len(t) /\ Len(t) \in Nat /\ SubSeq(Cat(x, t), 1, Len(x)) = x
    BY ONLY <1>1, <1>6, PartsOf
  <2> QED BY ONLY <1>6, <1>7, <2>1
<1>9. s = x
  <2> DEFINE n == Len(bytes)
             m == IF n > 8 THEN 8 ELSE n
  <2>1. n \in Nat /\ n >= 8
    BY ONLY <1>8
  <2> HIDE DEF n
  <2>2. m = 8
    BY ONLY <2>1
  <2> QED BY ONLY <1>4, <1>8, <2>2, Zenon DEF n
<1>10. Cat(x, q) = Cat(h, Cat(p, Cat(v, q))) /\ Cat(v, q) \in Stream
  <2>1. Cat(Cat(Cat(h, p), v), q) = Cat(h, Cat(p, Cat(v, q)))
    BY ONLY <1>1, <1>2, <1>3, q \in Stream, CatThree
  <2>2. Cat(v, q) \in Stream
    BY ONLY <1>1, q \in Stream, CatStream
  <2> QED BY ONLY <2>1, <2>2, Zenon DEF hp
<1> DEFINE w == Cat(v, q)
           r == ReadFull(w, 4)
<1>11. r = Got(v, q)
  BY ONLY <1>1, q \in Stream, FullRead DEF Stream, Cat
<1> HIDE DEF x, w
<1>12. ReadResponse4(Cat(h, Cat(p, w))) = Address4Of(c, a.Port, r)
  <2>1. w \in Stream
    BY ONLY <1>10 DEF w
  <2> QED BY ONLY <2>1, Response4Parse, c \in Nat, a.Port \in 0 .. MaxUint16 DEF h, p
<1> HIDE DEF r
<1>13. Address4Of(c, a.Port, r) = Got([ReplyCode |-> c, Destination |-> IP(v, a.Port)], q)
  BY ONLY <1>11, Address4Step
<1>14. ReadResponse4(Cat(s, q)) = Got([ReplyCode |-> c, Destination |-> IP(v, a.Port)], q)
  BY ONLY <1>9, <1>10, <1>12, <1>13, Zenon DEF w
<1>15. Replies(ReadResponse4(Cat(s, q)), c, q)
  <2> DEFINE rr == ReadResponse4(Cat(s, q))
             value == [ReplyCode |-> c, Destination |-> IP(v, a.Port)]
  <2>1. rr = Got(value, q) /\ value.ReplyCode = c
    BY ONLY <1>14
  <2> HIDE DEF rr, value
  <2>2. rr.st = "ok" /\ rr.v = value /\ rr.rest = q
    BY ONLY <2>1, GotFields
  <2>3. Replies(rr, c, q)
    BY ONLY <2>1, <2>2 DEF Replies
  <2> QED BY ONLY <2>3 DEF rr
<1>16. s \in Stream
  BY ONLY <1>6, <1>9
<1> QED BY ONLY <1>15, <1>16, Zenon DEF s

LEMMA InvalidIs == Invalid.Addr = <<>> /\ Invalid.Port = 0 /\ ~IsValid(Invalid) /\ Invalid \in Socksaddrs
<1>1. Invalid.Addr = <<>> /\ Invalid.Port = 0 /\ Invalid.Fqdn = <<>>
  BY DEF Invalid
<1>2. ~IsValid(Invalid)
  BY ONLY <1>1 DEF IsValid, IsDomain
<1>3. 0 \in 0 .. MaxUint16 /\ <<>> \in Seq(Byte) /\ Len(<<>>) = 0
  <2>1. MaxUint16 \in Nat
    BY DEF MaxUint16
  <2> HIDE DEF MaxUint16
  <2> QED BY <2>1, EmptySeq
<1>4. Invalid \in [Addr : Seq(Byte), Port : 0 .. MaxUint16, Fqdn : Seq(Byte)]
  BY ONLY <1>3 DEF Invalid
<1>5. Invalid \in Socksaddrs
  BY ONLY <1>1, <1>3, <1>4 DEF Socksaddrs
<1> QED BY ONLY <1>1, <1>2, <1>5

\* The answer to a request that is refused has no address: it is cut short.
LEMMA Response4Short ==
  ASSUME NEW c \in Nat
  PROVE  WriteResponse4(c, Invalid) \in Stream /\ ReadResponse4(WriteResponse4(c, Invalid)) = More
<1> DEFINE h == <<0, c>>
           p == Uint16(0)
           s == WriteResponse4(c, Invalid)
           bytes == Cat(Cat(h, p), <<>>)
<1>1. s = SubSeq(bytes, 1, IF Len(bytes) > 8 THEN 8 ELSE Len(bytes))
  BY InvalidIs, Zenon DEF WriteResponse4, Cat
<1>2. 0 \in 0 .. MaxUint16
  BY InvalidIs DEF Socksaddrs
<1>3. h \in Stream /\ Len(h) = 2 /\ <<>> \in Stream /\ p \in Stream /\ Len(p) = 2
  BY <1>2, Pieces, Uint16Read DEF Stream, Uint16
<1> HIDE DEF h, p, s, bytes
<1>4. Cat(h, p) \in Stream /\ Len(Cat(h, p)) = 4
  <2>1. Cat(h, p) \in Stream /\ Len(Cat(h, p)) = Len(h) + Len(p)
    BY ONLY <1>3, PartsOf, CatStream
  <2> QED BY ONLY <1>3, <2>1
<1>5. bytes = Cat(h, p) /\ Cat(p, <<>>) = p
  BY ONLY <1>3, <1>4, EmptyCat DEF bytes
<1>6. s = bytes
  <2>1. s = SubSeq(bytes, 1, Len(bytes)) /\ Len(bytes) = 4 /\ bytes \in Seq(Nat)
    BY ONLY <1>1, <1>4, <1>5 DEF Stream
  <2> QED BY ONLY <2>1
<1>7. ReadResponse4(Cat(h, Cat(p, <<>>))) = Address4Of(c, 0, ReadFull(<<>>, 4))
  BY ONLY <1>2, <1>3, c \in Nat, Response4Parse DEF h, p
<1>8. ReadFull(<<>>, 4) = More
  BY ONLY EmptyRead
<1>9. ReadResponse4(s) = Address4Of(c, 0, More)
  BY ONLY <1>5, <1>6, <1>7, <1>8, Zenon
<1>10. ReadResponse4(s) = More
  BY ONLY <1>9, Address4None
<1> QED BY ONLY <1>4, <1>5, <1>6, <1>10, Zenon DEF s

\* Version 5: the header, and an address behind it.
LEMMA SerializerIs == SocksaddrSerializer \in Serializers
BY DEF Serializers

LEMMA AddressBytes5 ==
  ASSUME NEW a \in Socksaddrs, CanWriteAddress(SocksaddrSerializer, a), NEW q \in Stream
  PROVE  /\ WriteAddrPort(SocksaddrSerializer, a) \in Stream
         /\ ReadAddrPort(SocksaddrSerializer, Cat(WriteAddrPort(SocksaddrSerializer, a), q)) = Got(Unwrap(a), q)
BY SocksaddrRead, SerializerIs, Zenon DEF Stream, Cat

LEMMA Request5Read ==
  ASSUME NEW c \in Nat, NEW a \in Socksaddrs, CanWriteAddress(SocksaddrSerializer, a),
         NEW r, r = [Command |-> c, Destination |-> a]
  PROVE  /\ WriteRequest5(r) \in Stream
         /\ ReadRequest5(WriteRequest5(r)) = Got([Command |-> c, Destination |-> Unwrap(a)], <<>>)
<1> DEFINE w == WriteAddrPort(SocksaddrSerializer, a)
           rr == ReadAddrPort(SocksaddrSerializer, w)
           h == <<Version5, c, 0>>
<1>1. r.Command = c /\ r.Destination = a
  OBVIOUS
<1>2. WriteRequest5(r) = Cat(h, w)
  BY ONLY <1>1, Zenon DEF WriteRequest5, Cat
<1>3. w \in Stream /\ rr = Got(Unwrap(a), <<>>)
  <2>1. <<>> \in Stream
    BY Pieces
  <2>2. w \in Stream /\ ReadAddrPort(SocksaddrSerializer, Cat(w, <<>>)) = Got(Unwrap(a), <<>>)
    BY <2>1, AddressBytes5
  <2> HIDE DEF w
  <2>3. Cat(w, <<>>) = w
    BY ONLY <2>2, EmptyCat
  <2> QED BY ONLY <2>2, <2>3, Zenon
<1>4. h \in Stream
  BY Pieces DEF Version5
<1> HIDE DEF w, rr
<1>5. ReadRequest5(Cat(h, w)) = IF rr.st = "ok" THEN Got([Command |-> c, Destination |-> rr.v], rr.rest) ELSE rr
  BY ONLY <1>3, c \in Nat, Request5Parse DEF rr
<1>6. rr.st = "ok" /\ rr.v = Unwrap(a) /\ rr.rest = <<>>
  BY ONLY <1>3, GotFields
<1> HIDE DEF h
<1>7. Cat(h, w) \in Stream
  BY ONLY <1>3, <1>4, CatStream
<1>8. ReadRequest5(Cat(h, w)) = Got([Command |-> c, Destination |-> Unwrap(a)], <<>>)
  BY ONLY <1>5, <1>6
<1> QED BY ONLY <1>2, <1>7, <1>8, Zenon

\* What is no TCP connection is at least read as the command that it is.
LEMMA CommandRead ==
  ASSUME NEW c \in Nat, NEW a, WriteAddrPort(SocksaddrSerializer, a) \in Stream,
         NEW r, r = [Command |-> c, Destination |-> a], NEW x, x = ReadRequest5(WriteRequest5(r)), x.st = "ok"
  PROVE  x.v.Command = c
<1> DEFINE w == WriteAddrPort(SocksaddrSerializer, a)
           rr == ReadAddrPort(SocksaddrSerializer, w)
           h == <<Version5, c, 0>>
           value == [Command |-> c, Destination |-> rr.v]
<1>1. r.Command = c /\ r.Destination = a
  OBVIOUS
<1>2. WriteRequest5(r) = Cat(h, w)
  BY ONLY <1>1, Zenon DEF WriteRequest5, Cat
<1>3. value.Command = c /\ w \in Stream
  OBVIOUS
<1> HIDE DEF w, rr
<1>5. ReadRequest5(Cat(h, w)) = IF rr.st = "ok" THEN Got(value, rr.rest) ELSE rr
  BY ONLY <1>3, c \in Nat, Request5Parse DEF rr
<1> HIDE DEF h, value
<1>6. x = IF rr.st = "ok" THEN Got(value, rr.rest) ELSE rr
  BY ONLY <1>2, <1>5, x = ReadRequest5(WriteRequest5(r)), Zenon
<1>7. CASE rr.st = "ok"
  <2>1. x.v = value
    BY ONLY <1>6, <1>7, GotFields
  <2> QED BY ONLY <1>3, <2>1
<1>8. CASE rr.st # "ok"
  BY ONLY <1>6, <1>8, x.st = "ok"
<1> QED BY ONLY <1>7, <1>8

LEMMA ZeroAddress == IP(Zeros(4), 0) \in Socksaddrs /\ CanWriteAddress(SocksaddrSerializer, IP(Zeros(4), 0))
<1> DEFINE a == IP(Zeros(4), 0)
<1>1. Zeros(4) \in Seq(Byte) /\ Len(Zeros(4)) = 4
  BY DEF Zeros, Byte, MaxUint8
<1>2. a.Addr = Zeros(4) /\ a.Port = 0 /\ a.Fqdn = <<>>
  BY DEF IP
<1>3. a.Addr # <<>>
  <2>1. Zeros(4) # <<>>
    BY ONLY <1>1, NonEmpty
  <2> QED BY ONLY <1>2, <2>1
<1>4. 0 \in 0 .. MaxUint16 /\ <<>> \in Seq(Byte) /\ Len(<<>>) = 0
  BY InvalidIs, EmptySeq DEF Socksaddrs
<1>5. a \in [Addr : Seq(Byte), Port : 0 .. MaxUint16, Fqdn : Seq(Byte)]
  BY ONLY <1>1, <1>4 DEF IP
<1> HIDE DEF a
<1>6. a \in Socksaddrs
  BY ONLY <1>1, <1>2, <1>5 DEF Socksaddrs
<1>7. Family(a) = "IPv4"
  BY ONLY <1>1, <1>2, <1>3 DEF Family, IsValid, IsIPv4
<1>8. SocksStringFits(a.Fqdn)
  BY ONLY <1>2, <1>4 DEF SocksStringFits, MaxUint8
<1>9. CanWriteAddress(SocksaddrSerializer, a)
  BY ONLY <1>7, <1>8, SerializerBytes, SerializerIs DEF CanWriteAddress
<1> QED BY ONLY <1>6, <1>9 DEF a

LEMMA Response5Read ==
  ASSUME NEW c \in Nat, NEW a \in Socksaddrs, IsValid(a) => CanWriteAddress(SocksaddrSerializer, a), NEW q \in Stream
  PROVE  /\ WriteResponse5(c, a) \in Stream
         /\ Replies(ReadResponse5(Cat(WriteResponse5(c, a), q)), c, q)
<1> DEFINE b == IF IsValid(a) THEN a ELSE IP(Zeros(4), 0)
           wb == WriteAddrPort(SocksaddrSerializer, b)
           w == Cat(wb, q)
           rr == ReadAddrPort(SocksaddrSerializer, w)
           h == <<Version5, c, 0>>
           s == WriteResponse5(c, a)
           value == [ReplyCode |-> c, Bind |-> rr.v]
<1>1. s = Cat(h, wb)
  BY ONLY TRUE, Zenon DEF WriteResponse5, Cat
<1>2. b \in Socksaddrs /\ CanWriteAddress(SocksaddrSerializer, b)
  BY ZeroAddress
<1> HIDE DEF b
<1>3. wb \in Stream /\ rr = Got(Unwrap(b), q)
  BY ONLY <1>2, q \in Stream, AddressBytes5
<1> HIDE DEF wb
<1>4. h \in Stream /\ w \in Stream /\ value.ReplyCode = c
  BY <1>3, CatStream, Pieces DEF Version5
<1> HIDE DEF w, rr
<1>5. ReadResponse5(Cat(h, w)) = IF rr.st = "ok" THEN Got(value, rr.rest) ELSE rr
  BY ONLY <1>4, c \in Nat, Response5Parse DEF rr
<1> HIDE DEF h, value, s
<1>6. Cat(s, q) = Cat(h, w) /\ s \in Stream
  <2>1. Cat(Cat(h, wb), q) = Cat(h, Cat(wb, q)) /\ Cat(h, wb) \in Stream
    BY ONLY <1>3, <1>4, q \in Stream, CatTwo, CatStream
  <2> QED BY ONLY <1>1, <2>1, Zenon DEF w
<1>7. rr.st = "ok" /\ rr.rest = q
  BY ONLY <1>3, GotFields
<1> DEFINE x == ReadResponse5(Cat(s, q))
<1>8. x = Got(value, q)
  BY ONLY <1>5, <1>6, <1>7
<1> HIDE DEF x
<1>9. x.st = "ok" /\ x.v = value /\ x.rest = q
  BY ONLY <1>8, GotFields
<1>10. Replies(x, c, q)
  BY ONLY <1>4, <1>9 DEF Replies
<1> QED BY ONLY <1>6, <1>10, Zenon DEF x, s

\* What the client asks an association for is written as an IP address.
LEMMA IPBytes ==
  ASSUME NEW a, a.Addr \in Stream, Len(a.Addr) \in {4, 16}, a.Port \in 0 .. MaxUint16
  PROVE  WriteAddrPort(SocksaddrSerializer, a) \in Stream
<1> DEFINE f == Family(a)
           b == SocksaddrSerializer.familyByteMap[f]
           hd == <<b>>
           p == Uint16(a.Port)
<1>1. a.Addr # <<>> /\ (IsIPv4(a) \/ IsIPv6(a))
  <2> DEFINE n == Len(a.Addr)
  <2>0. n \in {4, 16}
    OBVIOUS
  <2> HIDE DEF n
  <2>3. n \in Nat /\ n # 0
    BY ONLY <2>0
  <2>1. Len(a.Addr) \in Nat /\ Len(a.Addr) # 0
    BY ONLY <2>3 DEF n
  <2>2. a.Addr # <<>>
    BY ONLY <2>1, NonEmpty
  <2> QED BY <2>2 DEF IsIPv4, IsIPv6
<1>2. IsValid(a) /\ f \in {"IPv4", "IPv6"}
  BY ONLY <1>1 DEF Family, IsValid
<1>3. b \in Nat /\ ~SocksaddrSerializer.portFirst
  BY ONLY <1>2, SerializerBytes, SerializerIs
<1>4. hd \in Stream /\ p \in Stream
  BY <1>3, Pieces, Uint16Read DEF Stream
<1>5. WriteAddrPort(SocksaddrSerializer, a) = Cat(Cat(hd, a.Addr), p)
  BY <1>2, <1>3 DEF WriteAddrPort, WriteAddress, Cat
<1> HIDE DEF hd, p
<1>6. Cat(hd, a.Addr) \in Stream
  BY ONLY <1>4, a.Addr \in Stream, CatStream
<1>7. Cat(Cat(hd, a.Addr), p) \in Stream
  BY ONLY <1>4, <1>6, CatStream
<1> QED BY ONLY <1>5, <1>7, Zenon

LEMMA ZerosStream == ASSUME NEW n \in Nat PROVE Zeros(n) \in Stream /\ Len(Zeros(n)) = n
BY DEF Zeros, Stream

LEMMA AssociateBytes ==
  ASSUME NEW a \in Socksaddrs
  PROVE  /\ WriteAddrPort(SocksaddrSerializer, AssociateAddr(a)) \in Stream
         /\ AssociateAddr(a).Fqdn = a.Fqdn
<1> DEFINE t == AssociateAddr(a)
           l6 == Cat(Zeros(15), <<1>>)
           l4 == <<127, 0, 0, 1>>
<1>1. /\ a \in [Addr : Seq(Byte), Port : 0 .. MaxUint16, Fqdn : Seq(Byte)]
      /\ Len(a.Addr) \in {0, 4, 16}
  BY DEF Socksaddrs
<1>2. t.Port = 0 /\ t.Fqdn = a.Fqdn
  BY ONLY <1>1 DEF AssociateAddr
<1>3. \/ t.Addr = l4 \/ t.Addr = l6 \/ t.Addr = Zeros(16)
      \/ a.Addr # <<>> /\ t.Addr = Zeros(Len(a.Addr))
  BY ONLY <1>1 DEF AssociateAddr, IsGlobalUnicast, Cat
<1>4. l4 \in Stream /\ Len(l4) = 4
  BY DEF Stream
<1>5. l6 \in Stream /\ Len(l6) = 16
  <2> DEFINE z == Zeros(15)
             o == <<1>>
  <2>1. z \in Stream /\ Len(z) = 15
    BY ZerosStream
  <2>2. o \in Stream /\ Len(o) = 1
    BY Pieces
  <2> HIDE DEF z, o
  <2>3. Cat(z, o) \in Stream /\ Len(Cat(z, o)) = Len(z) + Len(o)
    BY ONLY <2>1, <2>2, PartsOf, CatStream
  <2>4. Cat(z, o) \in Stream /\ Len(Cat(z, o)) = 16
    BY ONLY <2>1, <2>2, <2>3
  <2> QED BY ONLY <2>4, Zenon DEF z, o
<1>6. Zeros(16) \in Stream /\ Len(Zeros(16)) = 16
  BY ZerosStream
<1>7. a.Addr # <<>> => Zeros(Len(a.Addr)) \in Stream /\ Len(Zeros(Len(a.Addr))) \in {4, 16}
  <2>1. ASSUME a.Addr # <<>> PROVE Len(a.Addr) \in Nat /\ Len(a.Addr) \in {4, 16}
    BY ONLY <1>1, <2>1
  <2> QED BY ONLY <2>1, ZerosStream
<1> HIDE DEF t, l4, l6
<1>8. t.Addr \in Stream /\ Len(t.Addr) \in {4, 16}
  BY ONLY <1>3, <1>4, <1>5, <1>6, <1>7
<1>9. t.Port \in 0 .. MaxUint16
  <2>1. 0 \in 0 .. MaxUint16
    BY InvalidIs DEF Socksaddrs
  <2> QED BY ONLY <1>2, <2>1
<1>10. WriteAddrPort(SocksaddrSerializer, t) \in Stream
  BY ONLY <1>8, <1>9, IPBytes
<1> QED BY ONLY <1>2, <1>10 DEF t

\* A datagram is read as the packet that was written.
LEMMA PacketRead ==
  ASSUME NEW a \in Socksaddrs, CanWriteAddress(SocksaddrSerializer, a), NEW data \in Stream
  PROVE  ReadPacket(WritePacket(a, data)) = Got(Unwrap(a), data)
<1> DEFINE z == Zeros(3)
           w == WriteAddrPort(SocksaddrSerializer, a)
           wd == Cat(w, data)
           s == WritePacket(a, data)
           r == ReadAddrPort(SocksaddrSerializer, SubSeq(s, 4, Len(s)))
<1>1. s = Cat(Cat(z, w), data)
  BY ONLY TRUE, Zenon DEF WritePacket, Cat
<1>2. w \in Stream /\ ReadAddrPort(SocksaddrSerializer, wd) = Got(Unwrap(a), data)
  BY AddressBytes5
<1>3. z \in Stream /\ Len(z) = 3
  BY ZerosStream
<1>0. ReadPacket(s) = IF Len(s) < 3 THEN Bad ELSE IF r.st = "ok" THEN r ELSE Bad
  BY ONLY TRUE, Zenon DEF ReadPacket
<1> HIDE DEF z, w, s
<1>4. s = Cat(z, wd) /\ wd \in Stream
  BY ONLY <1>1, <1>2, <1>3, data \in Stream, CatTwo, CatStream
<1> HIDE DEF wd
<1>5. /\ SubSeq(Cat(z, wd), Len(z) + 1, Len(Cat(z, wd))) = wd
      /\ Len(Cat(z, wd)) = Len(z) + Len(wd) /\ Len(wd) \in Nat
  BY ONLY <1>3, <1>4, PartsOf
<1>6. SubSeq(s, 4, Len(s)) = wd
  <2>1. Len(z) + 1 = 4
    BY ONLY <1>3
  <2> QED BY ONLY <1>4, <1>5, <2>1, Zenon
<1>7. ~(Len(s) < 3)
  <2> DEFINE n == Len(s)
             m == Len(wd)
  <2>1. n = 3 + m /\ m \in Nat
    BY ONLY <1>3, <1>4, <1>5
  <2> HIDE DEF n, m
  <2>2. ~(n < 3)
    BY ONLY <2>1
  <2> QED BY ONLY <2>2 DEF n
<1>8. r = Got(Unwrap(a), data)
  BY ONLY <1>2, <1>6, Zenon
<1> HIDE DEF r
<1>9. r.st = "ok"
  BY ONLY <1>8, GotFields
<1>10. ReadPacket(s) = Got(Unwrap(a), data)
  BY ONLY <1>0, <1>7, <1>8, <1>9, Zenon
<1> QED BY ONLY <1>10 DEF s

-----------------------------------------------------------------------------
\* The two ends of SOCKS.
\* What the client says first, and what follows it in version 5.
Version5Is == conf.version = "5"
Address4 ==
  IF conf.version = "4" /\ conf.op # "bind" /\ IsDomain(conf.destination)
  THEN IP(Resolved, conf.destination.Port) ELSE conf.destination
Request4 == [Command |-> Command, Destination |-> Address4, Username |-> username]
Method == IF username = <<>> THEN AuthTypeNotRequired ELSE AuthTypeUsernamePassword
Hello == IF Version5Is THEN WriteAuthRequest(<<Method>>) ELSE WriteRequest4(Request4)
HelloPc == IF Version5Is THEN "method" ELSE "reply4"
ReplyPc == IF Version5Is THEN "reply5" ELSE "reply4"
Password == WriteUsernamePasswordAuthRequest(username, password)

\* Nothing is on its way to the server, or one message is, whole, either in
\* the connection or in the server's buffer.
Idle == rbuf = <<>> /\ up = <<>>
Sent(m) == (rbuf = m /\ up = <<>>) \/ (rbuf = <<>> /\ up = m)

\* What the server says to the methods, when it asks for a password.
Offer ==
  IF Method = AuthTypeUsernamePassword THEN WriteAuthResponse(AuthTypeUsernamePassword)
  ELSE Cat(WriteAuthResponse(AuthTypeNoAcceptedMethods), WriteAuthResponse(AuthTypeUsernamePassword))

\* The authenticator knows the client's user.
Known == Verify(username, IF Version5Is THEN password ELSE <<>>)

AllIdle == \A t \in Directions : tpc[t] = "idle"

SocksState ==
  /\ conf \in Configurations
  /\ cpc \in {"start", "method", "status", "reply5", "reply4", "dialudp", "ok", "sent", "failed"}
  /\ spc \in {"version", "auth", "request", "handler", "serving", "packet", "associated", "error", "closed"}
  /\ sconn = "closed" => spc = "closed"
  /\ tpc \in [Directions -> {"idle", "check", "respond", "io", "end"}]
  /\ handled.kind \in {"none", "stream", "packet"}
  /\ cpc = "start" => cconn = "none"
  /\ cpc = "failed" => cconn \in {"none", "closed"}
  /\ cconn = "closed" => cpc = "failed"
  /\ cpc \in {"method", "status", "reply5", "dialudp"} => Version5Is
  /\ cpc = "reply4" => ~Version5Is
  /\ cpc \notin {"ok", "sent"} => cgot = <<>>
  /\ cpc = "dialudp" => conf.op = "udp"

\* The phases of the handshake, by what the server waits for.
AtVersion ==
  spc = "version" =>
    /\ down = <<>>
    /\ \/ cpc \in {"start", "failed"} /\ Idle
       \/ cpc = HelloPc /\ Sent(Hello) /\ (~Version5Is => CanWriteRequest4(Request4))

AtAuth ==
  spc = "auth" =>
    /\ Version5Is /\ conf.users # {}
    /\ \/ cpc = "method" /\ Idle /\ down = Offer
       \/ cpc = "status" /\ Sent(Password) /\ down = <<>>
       \/ cpc = "failed" /\ Idle

AtRequest5 ==
  spc = "request" =>
    /\ Version5Is /\ (conf.users # {} => suser = username /\ Known)
    /\ \/ cpc = "method" /\ Idle /\ down = WriteAuthResponse(AuthTypeNotRequired)
       \/ cpc = "status" /\ Idle /\ down = WriteUsernamePasswordAuthResponse(UsernamePasswordStatusSuccess)
       \/ cpc = "reply5" /\ Sent(WriteRequest5(Request5)) /\ down = <<>> /\ CanWriteRequest5(Request5)
       \/ cpc = "failed" /\ Idle

\* The server gave up before there was a handler.
Refused ==
  spc \in {"error", "closed"} /\ handled.kind # "stream" =>
    \/ cpc = "failed"
    \/ cpc = "status" /\ down = WriteUsernamePasswordAuthResponse(UsernamePasswordStatusFailure)
    \/ cpc = "reply4" /\ (down = <<>> \/ down = WriteResponse4(ReplyCodeRejectedOrFailed, Invalid))
    \/ cpc = "reply5" /\ (down = <<>> \/ down = WriteResponse5(ReplyCodeUnsupported, Invalid))
    \/ conf.op = "udp" /\ cpc \in {"reply5", "dialudp", "ok"}

\* A UDP association.
Associating ==
  spc \in {"packet", "associated"} =>
    /\ conf.op = "udp" /\ cpc \in {"reply5", "dialudp", "ok", "failed"}
    /\ SocksStringFits(conf.destination.Fqdn)

\* Before and without a handler no application sees the connection.
NoHandler ==
  handled.kind # "stream" =>
    /\ spc \notin {"handler", "serving"} /\ sgot = <<>> /\ cgot = <<>> /\ AllIdle
    /\ cpc \in {"ok", "sent"} => cpc = "ok" /\ conf.op = "udp"

\* The handler was called, for whom and what the client asked.
Written == IF tpc["write"] = "end" THEN Data ELSE <<>>
Served ==
  handled.kind = "stream" =>
    /\ conf.op = "tcp" /\ handled.destination = Wanted
    /\ handled.version = IF Version5Is THEN 5 ELSE 4
    /\ conf.users # {} => handled.user = username /\ Known
    /\ rbuf = <<>>
    /\ \/ sgot = <<>> /\ up = IF cpc = "sent" THEN Payload ELSE <<>>
       \/ sgot = Payload /\ up = <<>> /\ cpc = "sent"
    /\ spc \in {"handler", "serving", "closed"}

\* Where the connection stands then.
Calling ==
  spc = "handler" => cpc = ReplyPc /\ down = <<>> /\ AllIdle
Failing ==
  handled.kind = "stream" /\ spc = "closed" =>
    /\ conf.plan[1] = "failure" /\ cpc \in {ReplyPc, "failed"}
    /\ AllIdle
    /\ cpc = ReplyPc => down = FailureReply(conf.plan[2])
Serving ==
  spc = "serving" =>
    /\ conf.plan[1] \in {"success", "lazy"} /\ cpc \in {ReplyPc, "ok", "sent", "failed"}
    /\ conf.plan[1] = "success" =>
         /\ responseWritten /\ \A t \in Directions : tpc[t] \in {"check", "io", "end"}
         /\ cpc \in {ReplyPc, "ok", "sent"}
         /\ \/ cpc = ReplyPc /\ down = Cat(SuccessReply(conf.bind), Written)
            \/ cpc # ReplyPc /\ cgot = <<>> /\ down = Written
            \/ cpc # ReplyPc /\ cgot = Data /\ down = <<>> /\ tpc["write"] = "end"

\* Datagrams carry what was written, to addresses that can be written.
Packets5 ==
  /\ remoteAddr \in Socksaddrs
  /\ \A p \in udp : \E w \in wrote : p = WritePacket(w[1], w[2])
  /\ \A w \in wrote : w[1] \in Socksaddrs /\ CanWriteAddress(SocksaddrSerializer, w[1]) /\ w[2] = Payload
  /\ \A p \in back : \E a \in {conf.destination, conf.bind} :
       p = WritePacket(a, Data) /\ CanWriteAddress(SocksaddrSerializer, a)
  /\ PacketsAsWritten

Stages ==
  /\ AtVersion /\ AtAuth /\ AtRequest5 /\ Refused /\ Associating /\ NoHandler
  /\ Served /\ Calling /\ Failing /\ Serving
SocksIInv == SocksState /\ Stages /\ Packets5

\* Nothing that depends on the configuration alone changes.
LEMMA SameTerms ==
  ASSUME UNCHANGED conf
  PROVE  /\ (Version5Is' <=> Version5Is) /\ Hello' = Hello /\ HelloPc' = HelloPc /\ ReplyPc' = ReplyPc
         /\ Password' = Password /\ Offer' = Offer /\ (Known' <=> Known) /\ Request4' = Request4
         /\ Request5' = Request5 /\ username' = username /\ Wanted' = Wanted
<1>1. (Version5Is' <=> Version5Is) /\ username' = username /\ password' = password /\ Wanted' = Wanted
  BY DEF Version5Is, username, password, Wanted
<1>2. HelloPc' = HelloPc /\ ReplyPc' = ReplyPc
  BY <1>1 DEF HelloPc, ReplyPc
<1>3. Command' = Command /\ Address4' = Address4
  BY DEF Command, Address4
<1>4. Request4' = Request4
  BY ONLY <1>1, <1>3 DEF Request4
<1>5. Request5' = Request5
  BY ONLY <1>3, UNCHANGED conf DEF Request5
<1>6. Method' = Method
  BY ONLY <1>1 DEF Method
<1>7. Hello' = Hello
  BY ONLY <1>1, <1>4, <1>6 DEF Hello
<1>8. Offer' = Offer /\ Password' = Password
  BY ONLY <1>1, <1>6 DEF Offer, Password
<1>9. Known' <=> Known
  BY ONLY <1>1, UNCHANGED conf DEF Known, Verify
<1> QED BY ONLY <1>1, <1>2, <1>4, <1>5, <1>7, <1>8, <1>9

\* What a configuration is.
LEMMA ConfIs ==
  ASSUME conf \in Configurations
  PROVE  /\ conf.version \in {"4", "4a", "5"} /\ conf.op \in {"tcp", "udp", "bind"}
         /\ conf.destination \in Socksaddrs /\ IsValid(conf.destination)
         /\ conf.bind \in Socksaddrs /\ conf.bind.Addr # <<>>
         /\ username \in Seq(Byte) /\ password \in Seq(Byte)
         /\ username \in Stream /\ password \in Stream
         /\ ~Version5Is => NulAt(username) = {} /\ NulAt(conf.destination.Fqdn) = {}
         /\ conf.plan[1] \in {"success", "lazy", "failure"}
<1>1. /\ conf.version \in {"4", "4a", "5"} /\ conf.op \in {"tcp", "udp", "bind"}
      /\ conf.destination \in Socksaddrs /\ IsValid(conf.destination)
      /\ conf.bind \in Socksaddrs /\ conf.bind.Addr # <<>>
      /\ conf.plan[1] \in {"success", "lazy", "failure"}
      /\ conf.credentials \in Seq(Byte) \X Seq(Byte)
      /\ ~Version5Is => NulAt(username) = {} /\ NulAt(conf.destination.Fqdn) = {}
  BY SocksAssumption DEF Version5Is, username
<1>2. username \in Seq(Byte) /\ password \in Seq(Byte)
  BY ONLY <1>1 DEF username, password
<1>3. username \in Stream /\ password \in Stream
  BY ONLY <1>2, BytesAreNumbers DEF Stream
<1> QED BY ONLY <1>1, <1>2, <1>3

LEMMA CommandIs ==
  ASSUME conf \in Configurations
  PROVE  /\ Command \in Nat
         /\ Command = CommandConnect <=> conf.op = "tcp"
         /\ Command = CommandUDPAssociate <=> conf.op = "udp"
BY ConfIs DEF Command, CommandConnect, CommandBind, CommandUDPAssociate

\* Every destination and every bind address that is an IP can be written.
LEMMA CanWriteValid ==
  ASSUME NEW a \in Socksaddrs, IsValid(a), SocksStringFits(a.Fqdn)
  PROVE  CanWriteAddress(SocksaddrSerializer, a)
<1>1. Family(a) \in {"IPv4", "IPv6", "Fqdn"}
  BY DEF Family
<1> QED BY <1>1, SerializerBytes, SerializerIs DEF CanWriteAddress

LEMMA BindIs ==
  ASSUME NEW a \in Socksaddrs, a.Addr # <<>>
  PROVE  /\ CanWriteAddress(SocksaddrSerializer, a)
         /\ Unwrap(a) \in Socksaddrs /\ Unwrap(a).Addr \in Stream /\ Len(Unwrap(a).Addr) \in {4, 16}
         /\ Unwrap(a).Port \in 0 .. MaxUint16 /\ CanWriteAddress(SocksaddrSerializer, Unwrap(a))
<1>1. ASSUME NEW b \in Socksaddrs, b.Addr # <<>>
      PROVE  /\ CanWriteAddress(SocksaddrSerializer, b) /\ b.Addr \in Stream
             /\ Len(b.Addr) \in {4, 16} /\ b.Port \in 0 .. MaxUint16
  <2>1. /\ b \in [Addr : Seq(Byte), Port : 0 .. MaxUint16, Fqdn : Seq(Byte)]
        /\ Len(b.Addr) \in {0, 4, 16} /\ b.Fqdn = <<>>
    BY <1>1 DEF Socksaddrs
  <2>2. b.Addr \in Stream /\ b.Port \in 0 .. MaxUint16
    BY ONLY <2>1, BytesAreNumbers DEF Stream
  <2>3. Len(b.Addr) \in {4, 16}
    BY ONLY <2>1, <1>1
  <2>4. SocksStringFits(b.Fqdn)
    <3>1. SocksStringFits(<<>>)
      BY DEF SocksStringFits, MaxUint8
    <3> QED BY ONLY <2>1, <3>1
  <2>5. IsValid(b)
    BY ONLY <1>1 DEF IsValid
  <2>6. CanWriteAddress(SocksaddrSerializer, b)
    BY ONLY <1>1, <2>4, <2>5, CanWriteValid
  <2> QED BY ONLY <2>2, <2>3, <2>6
<1>2. Unwrap(a) \in Socksaddrs
  BY UnwrapAddress
<1>3. Unwrap(a).Addr # <<>>
  <2>1. CASE Is4In6(a)
    <3>1. a.Addr \in Seq(Byte) /\ Len(a.Addr) = 16
      BY <2>1 DEF Socksaddrs, Is4In6, IsIPv6
    <3>2. Unwrap(a).Addr = SubSeq(a.Addr, 13, 16)
      BY ONLY <2>1 DEF Unwrap, IP
    <3> DEFINE t == SubSeq(a.Addr, 13, 16)
    <3>3. Len(t) \in Nat /\ Len(t) # 0
      BY ONLY <3>1
    <3> HIDE DEF t
    <3>4. t # <<>>
      BY ONLY <3>3, NonEmpty
    <3> QED BY ONLY <3>2, <3>4 DEF t
  <2>2. CASE ~Is4In6(a)
    BY <2>2 DEF Unwrap
  <2> QED BY <2>1, <2>2
<1> QED BY <1>1, <1>2, <1>3

\* The messages of a configuration are read as what they are.
LEMMA ResolvedIs ==
  ASSUME NEW port \in 0 .. MaxUint16
  PROVE  /\ IP(Resolved, port) \in Socksaddrs /\ IsValid(IP(Resolved, port))
         /\ IP(Resolved, port).Fqdn = <<>> /\ Unwrap(IP(Resolved, port)) = IP(Resolved, port)
<1> DEFINE a == IP(Resolved, port)
<1>1. Resolved \in Seq(Byte) /\ Len(Resolved) = 4
  BY SocksAssumption
<1>2. a.Addr = Resolved /\ a.Port = port /\ a.Fqdn = <<>>
  BY DEF IP
<1>3. Resolved # <<>>
  <2>1. Len(Resolved) \in Nat /\ Len(Resolved) # 0
    BY ONLY <1>1
  <2> QED BY ONLY <2>1, NonEmpty
<1>4. a \in [Addr : Seq(Byte), Port : 0 .. MaxUint16, Fqdn : Seq(Byte)]
  <2>1. <<>> \in Seq(Byte)
    BY EmptySeq
  <2> QED BY ONLY <1>1, <2>1, port \in 0 .. MaxUint16 DEF IP
<1> HIDE DEF a
<1>5. a \in Socksaddrs
  <2>1. Len(a.Addr) \in {0, 4, 16}
    BY ONLY <1>1, <1>2
  <2> QED BY ONLY <1>2, <1>4, <2>1 DEF Socksaddrs
<1>6. IsValid(a) /\ ~Is4In6(a)
  <2>1. a.Addr # <<>>
    BY ONLY <1>2, <1>3
  <2>2. Len(a.Addr) # 16
    <3>1. a.Addr = Resolved
      BY ONLY <1>2
    <3>2. Len(a.Addr) = 4
      BY ONLY <1>1, <3>1, Zenon
    <3> QED BY ONLY <3>2
  <2> QED BY ONLY <2>1, <2>2 DEF IsValid, Is4In6, IsIPv6
<1>7. Unwrap(a) = a
  BY ONLY <1>6 DEF Unwrap
<1> QED BY ONLY <1>2, <1>5, <1>6, <1>7 DEF a

LEMMA Address4Is ==
  ASSUME conf \in Configurations, ~Version5Is
  PROVE  /\ Address4 \in Socksaddrs /\ IsValid(Address4) /\ NulAt(Address4.Fqdn) = {}
         /\ conf.op = "tcp" => Unwrap(Address4) = Wanted
<1>1. /\ conf.destination \in Socksaddrs /\ IsValid(conf.destination) /\ NulAt(conf.destination.Fqdn) = {}
      /\ conf.destination.Port \in 0 .. MaxUint16
  BY ConfIs DEF Socksaddrs
<1>2. NulAt(<<>>) = {}
  BY DEF NulAt
<1>3. CASE conf.version = "4" /\ conf.op # "bind" /\ IsDomain(conf.destination)
  <2>1. Address4 = IP(Resolved, conf.destination.Port)
    BY ONLY <1>3 DEF Address4
  <2>2. conf.op = "tcp" => Wanted = IP(Resolved, conf.destination.Port)
    BY ONLY <1>3 DEF Wanted
  <2> QED BY ONLY <1>1, <1>2, <2>1, <2>2, ResolvedIs
<1>4. CASE ~(conf.version = "4" /\ conf.op # "bind" /\ IsDomain(conf.destination))
  <2>1. Address4 = conf.destination
    BY ONLY <1>4 DEF Address4
  <2>2. conf.op = "tcp" => Wanted = Unwrap(conf.destination)
    BY ONLY <1>4 DEF Wanted
  <2> QED BY ONLY <1>1, <2>1, <2>2
<1> QED BY ONLY <1>3, <1>4

LEMMA Hello5Is ==
  ASSUME Version5Is
  PROVE  Hello \in Stream /\ ParseHello(Hello) = Got([version |-> 5, methods |-> <<Method>>], <<>>)
<1>1. Method \in Nat /\ Hello = WriteAuthRequest(<<Method>>)
  BY DEF Method, Hello, AuthTypeNotRequired, AuthTypeUsernamePassword
<1> QED BY ONLY <1>1, MethodsRead

LEMMA Hello4Is ==
  ASSUME conf \in Configurations, ~Version5Is, CanWriteRequest4(Request4)
  PROVE  /\ Hello \in Stream
         /\ ParseHello(Hello) \in {More, Got([version |-> 4, request |-> [Command |-> Command, Username |-> username,
                                              Destination |-> Unwrap(Address4)]], <<>>)}
<1>1. Hello = WriteRequest4(Request4) /\ Request4 = [Command |-> Command, Destination |-> Address4, Username |-> username]
  BY DEF Hello, Request4
<1>2. Command \in Nat /\ username \in Seq(Byte) /\ NulAt(username) = {}
  BY CommandIs, ConfIs
<1>3. Address4 \in Socksaddrs /\ IsValid(Address4) /\ NulAt(Address4.Fqdn) = {}
  BY Address4Is
<1> QED BY ONLY <1>1, <1>2, <1>3, CanWriteRequest4(Request4), Hello4Read

LEMMA NoHello == ParseHello(<<>>) = More
<1>1. 0 \in Nat /\ <<>> \in Stream
  BY Pieces
<1> QED BY ONLY <1>1, HelloRead

LEMMA PasswordIs ==
  ASSUME conf \in Configurations
  PROVE  /\ Password \in Stream
         /\ ReadUsernamePasswordAuthRequest(Password) = Got([Username |-> username, Password |-> password], <<>>)
BY ConfIs, PasswordRead, Zenon DEF Password

LEMMA Request5Is ==
  ASSUME conf \in Configurations, CanWriteRequest5(Request5)
  PROVE  /\ WriteRequest5(Request5) \in Stream /\ SocksStringFits(conf.destination.Fqdn)
         /\ conf.op # "udp" => ReadRequest5(WriteRequest5(Request5))
                                 = Got([Command |-> Command, Destination |-> Unwrap(conf.destination)], <<>>)
         /\ ReadRequest5(WriteRequest5(Request5)).st = "ok"
              => ReadRequest5(WriteRequest5(Request5)).v.Command = Command
<1> DEFINE d == IF conf.op = "udp" THEN AssociateAddr(conf.destination) ELSE conf.destination
           h == <<Version5, Command, 0>>
           w == WriteAddrPort(SocksaddrSerializer, d)
<1>1. Request5 = [Command |-> Command, Destination |-> d] /\ Request5.Command = Command /\ Request5.Destination = d
  BY DEF Request5
<1>2. Command \in Nat /\ conf.destination \in Socksaddrs
  BY CommandIs, ConfIs
<1>3. CanWriteAddress(SocksaddrSerializer, d)
  BY ONLY <1>1, CanWriteRequest5(Request5) DEF CanWriteRequest5
<1>4. conf.op # "udp" => /\ ReadRequest5(WriteRequest5(Request5))
                              = Got([Command |-> Command, Destination |-> Unwrap(conf.destination)], <<>>)
  <2> SUFFICES ASSUME conf.op # "udp"
               PROVE  ReadRequest5(WriteRequest5(Request5))
                        = Got([Command |-> Command, Destination |-> Unwrap(conf.destination)], <<>>)
    OBVIOUS
  <2>1. d = conf.destination
    OBVIOUS
  <2> HIDE DEF d
  <2> QED BY ONLY <1>1, <1>2, <1>3, <2>1, Request5Read
<1>5. w \in Stream /\ d.Fqdn = conf.destination.Fqdn
  <2>1. CASE conf.op = "udp"
    BY <1>2, <2>1, AssociateBytes
  <2>2. CASE conf.op # "udp"
    <3>1. d = conf.destination /\ <<>> \in Stream
      BY <2>2, Pieces
    <3> HIDE DEF d
    <3> QED BY ONLY <1>2, <1>3, <3>1, AddressBytes5
  <2> QED BY ONLY <2>1, <2>2
<1> HIDE DEF d
<1>6. SocksStringFits(conf.destination.Fqdn)
  BY ONLY <1>3, <1>5 DEF CanWriteAddress
<1>7. WriteRequest5(Request5) = Cat(h, w)
  BY ONLY <1>1, Zenon DEF WriteRequest5, Cat
<1>8. h \in Stream
  BY <1>2, Pieces DEF Version5
<1>9. Cat(h, w) \in Stream
  <2> HIDE DEF h, w
  <2> QED BY ONLY <1>5, <1>8, CatStream
<1> DEFINE x == ReadRequest5(WriteRequest5(Request5))
<1>10. x.st = "ok" => x.v.Command = Command
  BY ONLY <1>1, <1>2, <1>5, CommandRead
<1> QED BY ONLY <1>4, <1>6, <1>7, <1>9, <1>10, Zenon

\* What the server says to the client.
LEMMA MethodIs ==
  ASSUME NEW m \in {AuthTypeNotRequired, AuthTypeUsernamePassword}
  PROVE  /\ m \in Nat /\ ReadAuthResponse(WriteAuthResponse(m)) = Got(m, <<>>)
         /\ AuthTypeNotRequired # AuthTypeUsernamePassword
<1>1. m \in Nat /\ AuthTypeNotRequired # AuthTypeUsernamePassword
  BY DEF AuthTypeNotRequired, AuthTypeUsernamePassword
<1>2. <<>> \in Stream
  BY Pieces
<1> DEFINE w == WriteAuthResponse(m)
<1>3. w \in Stream /\ ReadAuthResponse(Cat(w, <<>>)) = Got(m, <<>>)
  BY ONLY <1>1, <1>2, AuthResponseRead
<1> HIDE DEF w
<1>4. Cat(w, <<>>) = w
  BY ONLY <1>3, EmptyCat
<1> QED BY ONLY <1>1, <1>3, <1>4, Zenon DEF w

LEMMA StatusIs ==
  ASSUME NEW m \in {UsernamePasswordStatusSuccess, UsernamePasswordStatusFailure}
  PROVE  /\ ReadUsernamePasswordAuthResponse(WriteUsernamePasswordAuthResponse(m)) = Got(m, <<>>)
         /\ UsernamePasswordStatusSuccess # UsernamePasswordStatusFailure
<1>1. m \in Nat /\ UsernamePasswordStatusSuccess # UsernamePasswordStatusFailure
  BY DEF UsernamePasswordStatusSuccess, UsernamePasswordStatusFailure
<1>2. <<>> \in Stream
  BY Pieces
<1> DEFINE w == WriteUsernamePasswordAuthResponse(m)
<1>3. w \in Stream /\ ReadUsernamePasswordAuthResponse(Cat(w, <<>>)) = Got(m, <<>>)
  BY ONLY <1>1, <1>2, StatusRead
<1> HIDE DEF w
<1>4. Cat(w, <<>>) = w
  BY ONLY <1>3, EmptyCat
<1> QED BY ONLY <1>1, <1>3, <1>4, Zenon DEF w

LEMMA OfferIs ==
  LET r == ReadAuthResponse(Offer)
  IN  /\ r.st = "ok"
      /\ \/ r.v = AuthTypeUsernamePassword /\ r.rest = <<>>
         \/ r.v # AuthTypeUsernamePassword /\ r.v # AuthTypeNotRequired
<1> DEFINE r == ReadAuthResponse(Offer)
           u == WriteAuthResponse(AuthTypeUsernamePassword)
           n == WriteAuthResponse(AuthTypeNoAcceptedMethods)
<1>1. CASE Method = AuthTypeUsernamePassword
  <2>1. r = Got(AuthTypeUsernamePassword, <<>>)
    BY <1>1, MethodIs DEF Offer
  <2> HIDE DEF r
  <2>2. r.st = "ok" /\ r.v = AuthTypeUsernamePassword /\ r.rest = <<>>
    BY ONLY <2>1, GotFields
  <2> QED BY ONLY <2>2 DEF r
<1>2. CASE Method # AuthTypeUsernamePassword
  <2>1. AuthTypeNoAcceptedMethods \in Nat /\ AuthTypeUsernamePassword \in Nat /\ <<>> \in Stream
    BY Pieces DEF AuthTypeNoAcceptedMethods, AuthTypeUsernamePassword
  <2>2. u \in Stream
    BY ONLY <2>1, AuthResponseRead
  <2> HIDE DEF u
  <2>3. ReadAuthResponse(Cat(n, u)) = Got(AuthTypeNoAcceptedMethods, u)
    BY ONLY <2>1, <2>2, AuthResponseRead
  <2>4. r = Got(AuthTypeNoAcceptedMethods, u)
    BY ONLY <1>2, <2>3, Zenon DEF Offer, u
  <2> HIDE DEF r
  <2>5. r.st = "ok" /\ r.v = AuthTypeNoAcceptedMethods
    BY ONLY <2>4, GotFields
  <2>6. AuthTypeNoAcceptedMethods # AuthTypeUsernamePassword /\ AuthTypeNoAcceptedMethods # AuthTypeNotRequired
    BY DEF AuthTypeNoAcceptedMethods, AuthTypeUsernamePassword, AuthTypeNotRequired
  <2>7. r.v # AuthTypeUsernamePassword /\ r.v # AuthTypeNotRequired
    BY ONLY <2>5, <2>6
  <2> QED BY ONLY <2>5, <2>7 DEF r
<1> QED BY ONLY <1>1, <1>2

LEMMA Refusals ==
  /\ Replies(ReadResponse5(WriteResponse5(ReplyCodeUnsupported, Invalid)), ReplyCodeUnsupported, <<>>)
  /\ ReplyCodeUnsupported # ReplyCodeSuccess
  /\ ReadResponse4(WriteResponse4(ReplyCodeRejectedOrFailed, Invalid)) = More
  /\ \A err : /\ Replies(ReadResponse5(WriteResponse5(ReplyCodeForError(err), Invalid)), ReplyCodeForError(err), <<>>)
              /\ ReplyCodeForError(err) # ReplyCodeSuccess
<1>1. ReplyCodeUnsupported \in Nat /\ ReplyCodeUnsupported # ReplyCodeSuccess /\ ReplyCodeRejectedOrFailed \in Nat
  BY DEF ReplyCodeUnsupported, ReplyCodeSuccess, ReplyCodeRejectedOrFailed
<1>2. ASSUME NEW err PROVE ReplyCodeForError(err) \in Nat /\ ReplyCodeForError(err) # ReplyCodeSuccess
  BY DEF ReplyCodeForError, ReplyCodeSuccess
<1>3. ASSUME NEW c \in Nat PROVE Replies(ReadResponse5(WriteResponse5(c, Invalid)), c, <<>>)
  <2> DEFINE w == WriteResponse5(c, Invalid)
  <2>0. <<>> \in Stream
    BY Pieces
  <2>1. w \in Stream /\ Replies(ReadResponse5(Cat(w, <<>>)), c, <<>>)
    BY ONLY <1>3, <2>0, InvalidIs, Response5Read
  <2> HIDE DEF w
  <2>2. Cat(w, <<>>) = w
    BY ONLY <2>1, EmptyCat
  <2>3. Replies(ReadResponse5(w), c, <<>>)
    BY ONLY <2>1, <2>2
  <2> QED BY ONLY <2>3 DEF w
<1>4. ReadResponse4(WriteResponse4(ReplyCodeRejectedOrFailed, Invalid)) = More
  BY ONLY <1>1, Response4Short
<1> QED BY ONLY <1>1, <1>2, <1>3, <1>4

LEMMA SuccessIs ==
  ASSUME conf \in Configurations, NEW q \in Stream, handled.version = IF Version5Is THEN 5 ELSE 4
  PROVE  /\ SuccessReply(conf.bind) \in Stream
         /\ Version5Is => Replies(ReadResponse5(Cat(SuccessReply(conf.bind), q)), ReplyCodeSuccess, q)
         /\ ~Version5Is => Replies(ReadResponse4(Cat(SuccessReply(conf.bind), q)), ReplyCodeGranted, q)
<1> DEFINE b == Unwrap(conf.bind)
<1>1. conf.bind \in Socksaddrs /\ conf.bind.Addr # <<>>
  BY ConfIs
<1>2. /\ b \in Socksaddrs /\ b.Addr \in Stream /\ Len(b.Addr) \in {4, 16}
      /\ b.Port \in 0 .. MaxUint16 /\ CanWriteAddress(SocksaddrSerializer, b)
  BY ONLY <1>1, BindIs
<1> HIDE DEF b
<1>3. ReplyCodeSuccess \in Nat /\ ReplyCodeGranted \in Nat
  BY DEF ReplyCodeSuccess, ReplyCodeGranted
<1>4. CASE Version5Is
  <2>1. SuccessReply(conf.bind) = WriteResponse5(ReplyCodeSuccess, b)
    BY <1>4 DEF SuccessReply, b
  <2>2. /\ WriteResponse5(ReplyCodeSuccess, b) \in Stream
        /\ Replies(ReadResponse5(Cat(WriteResponse5(ReplyCodeSuccess, b), q)), ReplyCodeSuccess, q)
    BY ONLY <1>2, <1>3, q \in Stream, Response5Read
  <2> QED BY ONLY <1>4, <2>1, <2>2
<1>5. CASE ~Version5Is
  <2>1. SuccessReply(conf.bind) = WriteResponse4(ReplyCodeGranted, b)
    BY <1>5 DEF SuccessReply, b
  <2>2. /\ WriteResponse4(ReplyCodeGranted, b) \in Stream
        /\ Replies(ReadResponse4(Cat(WriteResponse4(ReplyCodeGranted, b), q)), ReplyCodeGranted, q)
    BY ONLY <1>2, <1>3, q \in Stream, Response4Read
  <2> QED BY ONLY <1>5, <2>1, <2>2
<1> QED BY ONLY <1>4, <1>5

LEMMA FailureIs ==
  ASSUME handled.version = IF Version5Is THEN 5 ELSE 4, NEW err
  PROVE  /\ Version5Is => /\ Replies(ReadResponse5(FailureReply(err)), ReplyCodeForError(err), <<>>)
                          /\ ReplyCodeForError(err) # ReplyCodeSuccess
         /\ ~Version5Is => ReadResponse4(FailureReply(err)) = More
<1>1. Version5Is => FailureReply(err) = WriteResponse5(ReplyCodeForError(err), Invalid)
  BY DEF FailureReply
<1>2. ~Version5Is => FailureReply(err) = WriteResponse4(ReplyCodeRejectedOrFailed, Invalid)
  BY DEF FailureReply
<1> QED BY ONLY <1>1, <1>2, Refusals

\* A step changes some of the state; what the rest says stays.
LEMMA SameReplies ==
  ASSUME UNCHANGED <<conf, handled>>
  PROVE  SuccessReply(conf.bind)' = SuccessReply(conf.bind) /\ FailureReply(conf.plan[2])' = FailureReply(conf.plan[2])
BY DEF SuccessReply, FailureReply

LEMMA PacketsKept ==
  ASSUME Packets5, UNCHANGED <<conf, packetVars>>
  PROVE  Packets5'
BY DEF Packets5, packetVars, PacketsAsWritten

LEMMA StagesKept ==
  ASSUME SocksState, Stages, UNCHANGED <<conf, cpc, cconn, cgot, up, down, serverVars>>
  PROVE  SocksState' /\ Stages'
<1>1. UNCHANGED <<conf, cpc, cconn, cgot, up, down, spc, sconn, rbuf, suser, handled, tpc, responseWritten, sgot>>
  BY DEF serverVars
<1>2. /\ (Version5Is' <=> Version5Is) /\ Hello' = Hello /\ HelloPc' = HelloPc /\ ReplyPc' = ReplyPc
      /\ Password' = Password /\ Offer' = Offer /\ (Known' <=> Known) /\ Request4' = Request4
      /\ Request5' = Request5 /\ username' = username /\ Wanted' = Wanted
  BY ONLY <1>1, SameTerms
<1>3. SuccessReply(conf.bind)' = SuccessReply(conf.bind) /\ FailureReply(conf.plan[2])' = FailureReply(conf.plan[2])
  BY ONLY <1>1, SameReplies
<1>4. (Idle' <=> Idle) /\ (AllIdle' <=> AllIdle) /\ Written' = Written
  BY ONLY <1>1 DEF Idle, AllIdle, Written
<1>5. SocksState'
  BY ONLY <1>1, <1>2, SocksState DEF SocksState
<1>6. AtVersion' /\ AtAuth' /\ AtRequest5'
  BY ONLY <1>1, <1>2, <1>4, Stages DEF Stages, AtVersion, AtAuth, AtRequest5, Sent
<1>7. Refused' /\ Associating' /\ NoHandler' /\ Served' /\ Calling'
  BY ONLY <1>1, <1>2, <1>4, Stages DEF Stages, Refused, Associating, NoHandler, Served, Calling
<1>8. Failing' /\ Serving'
  BY ONLY <1>1, <1>2, <1>3, <1>4, Stages DEF Stages, Failing, Serving
<1> QED BY ONLY <1>5, <1>6, <1>7, <1>8 DEF Stages

-----------------------------------------------------------------------------
\* The client's steps.
LEMMA AtStart ==
  ASSUME SocksState, Stages, cpc = "start"
  PROVE  spc = "version" /\ Idle /\ down = <<>> /\ handled.kind # "stream" /\ cconn = "none"
<1>1. ReplyPc # "start" /\ HelloPc # "start"
  BY DEF ReplyPc, HelloPc
<1>2. spc = "version" => Idle /\ down = <<>>
  BY <1>1 DEF Stages, AtVersion
<1>3. spc \notin {"auth", "request", "packet", "associated"}
  BY DEF Stages, AtAuth, AtRequest5, Associating
<1>4. handled.kind # "stream"
  BY <1>1 DEF Stages, Served, Calling, Failing, Serving
<1>5. spc \notin {"error", "closed", "handler", "serving"}
  BY <1>4 DEF Stages, Refused, NoHandler
<1> QED BY ONLY <1>2, <1>3, <1>4, <1>5, SocksState, cpc = "start" DEF SocksState

LEMMA DialContextStep ==
  ASSUME SocksIInv, DialContext
  PROVE  SocksIInv'
<1>0. SocksState /\ Stages /\ Packets5 /\ cpc = "start"
  BY DEF SocksIInv, DialContext
<1>1. spc = "version" /\ rbuf = <<>> /\ up = <<>> /\ down = <<>> /\ handled.kind # "stream" /\ cconn = "none"
  BY <1>0, AtStart DEF Idle
<1>2. /\ conf' = conf /\ down' = down /\ cgot' = cgot /\ UNCHANGED packetVars
      /\ UNCHANGED <<spc, sconn, rbuf, suser, handled, tpc, responseWritten, sgot>>
  BY DEF DialContext, serverVars
<1>3. \/ cpc' = "failed" /\ cconn' \in {"none", "closed"} /\ up' = up
      \/ cpc' = HelloPc /\ cconn' = "open" /\ up' = Hello /\ (~Version5Is => CanWriteRequest4(Request4))
  <2>1. ASSUME FirstMessage(Address4) PROVE cpc' = HelloPc /\ up' = Hello /\ (~Version5Is => CanWriteRequest4(Request4))
    <3>1. cpc' = HelloPc /\ (~Version5Is => CanWriteRequest4(Request4)) /\ up' = Cat(up, Hello)
      BY <2>1 DEF FirstMessage, HelloPc, Version5Is, Hello, Method, Request4, Cat
    <3>2. Hello \in Stream
      BY ONLY <1>0, <3>1, Hello5Is, Hello4Is DEF SocksState
    <3>3. Cat(<<>>, Hello) = Hello
      BY ONLY <3>2, EmptyCat
    <3> QED BY ONLY <1>1, <3>1, <3>3
  <2>2. \/ cpc' = "failed" /\ UNCHANGED <<cconn, up>>
        \/ cpc' = "failed" /\ cconn' = "closed" /\ UNCHANGED up
        \/ FirstMessage(Address4) /\ cconn' = "open"
    BY Zenon DEF DialContext, Address4
  <2> QED BY ONLY <1>1, <2>1, <2>2
<1>4. /\ (Version5Is' <=> Version5Is) /\ Hello' = Hello /\ HelloPc' = HelloPc /\ Request4' = Request4
  BY ONLY <1>2, SameTerms
<1>5. SocksState'
  <2>1. cgot = <<>> /\ HelloPc = IF Version5Is THEN "method" ELSE "reply4"
    BY <1>0 DEF SocksState, HelloPc
  <2> QED BY ONLY <1>0, <1>1, <1>2, <1>3, <1>4, <2>1 DEF SocksState
<1>6. AtVersion'
  BY ONLY <1>1, <1>2, <1>3, <1>4 DEF AtVersion, Idle, Sent
<1>7. NoHandler'
  <2>1. HelloPc \notin {"ok", "sent"}
    BY DEF HelloPc
  <2> QED BY ONLY <1>0, <1>1, <1>2, <1>3, <2>1 DEF Stages, NoHandler, AllIdle
<1>8. AtAuth' /\ AtRequest5' /\ Refused' /\ Associating' /\ Served' /\ Calling' /\ Failing' /\ Serving'
  BY ONLY <1>1, <1>2 DEF AtAuth, AtRequest5, Refused, Associating, Served, Calling, Failing, Serving
<1>9. Packets5'
  BY ONLY <1>0, <1>2, PacketsKept
<1> QED BY ONLY <1>5, <1>6, <1>7, <1>8, <1>9 DEF SocksIInv, Stages

\* The client gives up, where the server waits for nothing of it.
LEMMA GaveUp ==
  ASSUME SocksState, Stages, cpc \notin {"ok", "sent"},
         cpc' = "failed", cconn' = "closed", UNCHANGED <<conf, up, cgot, serverVars>>,
         spc \notin {"version", "handler"}, spc \in {"auth", "request"} => Idle,
         spc = "serving" => conf.plan[1] = "lazy"
  PROVE  SocksState' /\ Stages'
<1>1. UNCHANGED <<conf, cgot, up, spc, sconn, rbuf, suser, handled, tpc, responseWritten, sgot>>
  BY DEF serverVars
<1>2. /\ (Version5Is' <=> Version5Is) /\ ReplyPc' = ReplyPc /\ (Known' <=> Known)
      /\ username' = username /\ Wanted' = Wanted
  BY ONLY <1>1, SameTerms
<1>3. (Idle' <=> Idle) /\ (AllIdle' <=> AllIdle)
  BY ONLY <1>1 DEF Idle, AllIdle
<1>4. ReplyPc \in {"reply4", "reply5"}
  BY DEF ReplyPc
<1>5. SocksState'
  BY ONLY <1>1, <1>2, SocksState, cpc \notin {"ok", "sent"}, cpc' = "failed", cconn' = "closed" DEF SocksState
<1>6. AtVersion' /\ AtAuth' /\ AtRequest5' /\ Calling'
  BY ONLY <1>1, <1>2, <1>3, Stages, cpc' = "failed", spc \notin {"version", "handler"},
          spc \in {"auth", "request"} => Idle DEF Stages, AtVersion, AtAuth, AtRequest5, Calling
<1>7. Refused' /\ Associating' /\ NoHandler'
  BY ONLY <1>1, <1>2, <1>3, Stages, cpc' = "failed" DEF Stages, Refused, Associating, NoHandler
<1>8. Served'
  BY ONLY <1>1, <1>2, Stages, cpc' = "failed", cpc \notin {"ok", "sent"} DEF Stages, Served
<1>9. Failing' /\ Serving'
  BY ONLY <1>1, <1>2, <1>3, <1>4, Stages, cpc' = "failed", spc = "serving" => conf.plan[1] = "lazy"
     DEF Stages, Failing, Serving
<1> QED BY ONLY <1>5, <1>6, <1>7, <1>8, <1>9 DEF Stages

\* The client asks for what it wants.
LEMMA Asked ==
  ASSUME SocksState, Stages, spc = "request", Idle, cpc \in {"method", "status"}, AskFor5,
         down' = <<>>, UNCHANGED <<conf, cgot, serverVars>>
  PROVE  SocksState' /\ Stages'
<1>1. UNCHANGED <<conf, cgot, spc, sconn, rbuf, suser, handled, tpc, responseWritten, sgot>>
  BY DEF serverVars
<1>2. CASE ~CanWriteRequest5(Request5)
  <2>1. cpc' = "failed" /\ cconn' = "closed" /\ up' = up
    BY <1>2 DEF AskFor5, GiveUp
  <2> QED BY <1>1, <2>1, GaveUp
<1>3. CASE CanWriteRequest5(Request5)
  <2> DEFINE m == WriteRequest5(Request5)
  <2>1. cpc' = "reply5" /\ cconn' = cconn /\ up' = Cat(up, m)
    BY <1>3 DEF AskFor5, Proceed, Cat
  <2>2. m \in Stream
    BY <1>3, Request5Is DEF SocksState
  <2> HIDE DEF m
  <2>3. up' = m /\ rbuf = <<>>
    <3>1. Cat(<<>>, m) = m
      BY ONLY <2>2, EmptyCat
    <3> QED BY ONLY <2>1, <3>1, Idle DEF Idle
  <2>4. (Version5Is' <=> Version5Is) /\ (Known' <=> Known) /\ username' = username /\ Request5' = Request5
    BY ONLY <1>1, SameTerms
  <2>5. SocksState'
    BY ONLY <1>1, <2>1, <2>4, SocksState, cpc \in {"method", "status"} DEF SocksState
  <2>6. AtRequest5'
    BY ONLY <1>1, <1>3, <2>1, <2>3, <2>4, Stages, spc = "request", down' = <<>> DEF Stages, AtRequest5, Sent, m
  <2>7. handled.kind # "stream"
    BY DEF Stages, Served
  <2>8. NoHandler'
    BY ONLY <1>1, <2>1, <2>7, Stages DEF Stages, NoHandler, AllIdle
  <2>9. AtVersion' /\ AtAuth' /\ Refused' /\ Associating' /\ Served' /\ Calling' /\ Failing' /\ Serving'
    BY ONLY <1>1, <2>7, spc = "request" DEF AtVersion, AtAuth, Refused, Associating, Served, Calling, Failing, Serving
  <2> QED BY ONLY <2>5, <2>6, <2>8, <2>9 DEF Stages
<1> QED BY ONLY <1>2, <1>3

\* One read of the client: a message, or nothing is coming any more.
Ended(r) == r.st = "bad" \/ (r.st = "more" /\ sconn = "closed")

LEMMA ClientMethodStep ==
  ASSUME SocksIInv, ClientMethod
  PROVE  SocksIInv'
<1> DEFINE r == ReadAuthResponse(down)
<1>0. SocksState /\ Stages /\ Packets5 /\ cpc = "method"
  BY DEF SocksIInv, ClientMethod, ClientReads
<1>1. UNCHANGED <<conf, cgot, serverVars>> /\ UNCHANGED packetVars /\ down' = r.rest
  BY DEF ClientMethod, ClientReads
<1>2. \/ r.st = "ok" /\ IF r.v = AuthTypeUsernamePassword THEN Proceed(Password, "status")
                        ELSE IF r.v = AuthTypeNotRequired THEN AskFor5 ELSE GiveUp
      \/ Ended(r) /\ GiveUp
  BY DEF ClientMethod, ClientReads, Ended, GiveUp, Password
<1>3. \/ spc = "version" /\ down = <<>>
      \/ spc = "auth" /\ Idle /\ down = Offer
      \/ spc = "request" /\ Idle /\ down = WriteAuthResponse(AuthTypeNotRequired)
  <2>1. ReplyPc # "method"
    BY DEF ReplyPc
  <2>2. handled.kind # "stream"
    BY <1>0, <2>1 DEF Stages, Served, Calling, Failing, Serving
  <2>3. spc \in {"version", "auth", "request"}
    BY <1>0, <2>2 DEF Stages, Refused, Associating, NoHandler, SocksState
  <2> QED BY <1>0, <2>3 DEF Stages, AtVersion, AtAuth, AtRequest5
<1>4. sconn # "closed"
  BY ONLY <1>0, <1>3 DEF SocksState
<1>5. SocksState' /\ Stages'
  <2>1. CASE spc = "version" /\ down = <<>>
    <3>1. r = More
      <4>1. 0 \in Nat /\ <<>> \in Stream
        BY Pieces
      <4>2. ReadAuthResponse(<<>>) = More
        BY ONLY <4>1, AuthResponseRead
      <4> QED BY ONLY <2>1, <4>2
    <3> HIDE DEF r
    <3>2. ~(r.st = "ok") /\ ~Ended(r)
      BY ONLY <1>4, <3>1, MoreIs DEF Ended, More
    <3> QED BY ONLY <1>2, <3>2
  <2>2. CASE spc = "auth" /\ Idle /\ down = Offer
    <3>1. /\ r.st = "ok"
          /\ \/ r.v = AuthTypeUsernamePassword /\ r.rest = <<>>
             \/ r.v # AuthTypeUsernamePassword /\ r.v # AuthTypeNotRequired
      BY <2>2, OfferIs
    <3> HIDE DEF r
    <3>2. CASE r.v = AuthTypeUsernamePassword /\ r.rest = <<>>
      <4>1. cpc' = "status" /\ cconn' = cconn /\ up' = Cat(up, Password) /\ down' = <<>>
        BY ONLY <1>1, <1>2, <3>1, <3>2 DEF Proceed, Cat, Ended
      <4>2. UNCHANGED <<conf, cgot, spc, sconn, rbuf, suser, handled, tpc, responseWritten, sgot>>
        BY ONLY <1>1 DEF serverVars
      <4>3. up' = Password /\ rbuf = <<>>
        <5>1. Password \in Stream
          BY ONLY <1>0, PasswordIs DEF SocksState
        <5>2. Cat(<<>>, Password) = Password
          BY ONLY <5>1, EmptyCat
        <5> QED BY ONLY <2>2, <4>1, <5>2 DEF Idle
      <4>4. (Version5Is' <=> Version5Is) /\ Password' = Password
        BY ONLY <4>2, SameTerms
      <4>5. SocksState'
        BY ONLY <1>0, <4>1, <4>2, <4>4 DEF SocksState
      <4>6. AtAuth'
        BY ONLY <1>0, <2>2, <4>1, <4>2, <4>3, <4>4 DEF Stages, AtAuth, Sent
      <4>7. handled.kind # "stream"
        BY ONLY <1>0, <2>2 DEF Stages, Served
      <4>8. NoHandler'
        BY ONLY <1>0, <4>1, <4>2, <4>7 DEF Stages, NoHandler, AllIdle
      <4>9. AtVersion' /\ AtRequest5' /\ Refused' /\ Associating' /\ Served' /\ Calling' /\ Failing' /\ Serving'
        BY ONLY <2>2, <4>2, <4>7 DEF AtVersion, AtRequest5, Refused, Associating, Served, Calling, Failing, Serving
      <4> QED BY ONLY <4>5, <4>6, <4>8, <4>9 DEF Stages
    <3>3. CASE r.v # AuthTypeUsernamePassword /\ r.v # AuthTypeNotRequired
      <4>1. cpc' = "failed" /\ cconn' = "closed" /\ up' = up
        BY ONLY <1>2, <3>1, <3>3 DEF GiveUp
      <4> QED BY ONLY <1>0, <1>1, <2>2, <4>1, GaveUp
    <3> QED BY ONLY <3>1, <3>2, <3>3
  <2>3. CASE spc = "request" /\ Idle /\ down = WriteAuthResponse(AuthTypeNotRequired)
    <3>1. r = Got(AuthTypeNotRequired, <<>>) /\ AuthTypeNotRequired # AuthTypeUsernamePassword
      BY <2>3, MethodIs
    <3> HIDE DEF r
    <3>2. r.st = "ok" /\ r.v = AuthTypeNotRequired /\ r.rest = <<>>
      BY ONLY <3>1, GotFields
    <3>3. AskFor5 /\ down' = <<>>
      BY ONLY <1>1, <1>2, <3>1, <3>2 DEF Ended
    <3> QED BY ONLY <1>0, <1>1, <2>3, <3>3, Asked
  <2> QED BY ONLY <1>3, <2>1, <2>2, <2>3
<1>6. Packets5'
  BY ONLY <1>0, <1>1, PacketsKept
<1> QED BY ONLY <1>5, <1>6 DEF SocksIInv

LEMMA ClientStatusStep ==
  ASSUME SocksIInv, ClientStatus
  PROVE  SocksIInv'
<1> DEFINE r == ReadUsernamePasswordAuthResponse(down)
<1>0. SocksState /\ Stages /\ Packets5 /\ cpc = "status"
  BY DEF SocksIInv, ClientStatus, ClientReads
<1>1. UNCHANGED <<conf, cgot, serverVars>> /\ UNCHANGED packetVars /\ down' = r.rest
  BY DEF ClientStatus, ClientReads
<1>2. \/ r.st = "ok" /\ IF r.v = UsernamePasswordStatusSuccess THEN AskFor5 ELSE GiveUp
      \/ Ended(r) /\ GiveUp
  BY DEF ClientStatus, ClientReads, Ended, GiveUp
<1>3. \/ spc = "auth" /\ down = <<>>
      \/ spc = "request" /\ Idle /\ down = WriteUsernamePasswordAuthResponse(UsernamePasswordStatusSuccess)
      \/ spc \in {"error", "closed"} /\ down = WriteUsernamePasswordAuthResponse(UsernamePasswordStatusFailure)
  <2>1. ReplyPc # "status" /\ HelloPc # "status"
    BY DEF ReplyPc, HelloPc
  <2>2. handled.kind # "stream"
    BY <1>0, <2>1 DEF Stages, Served, Calling, Failing, Serving
  <2>3. spc \in {"auth", "request", "error", "closed"}
    BY <1>0, <2>1, <2>2 DEF Stages, AtVersion, Associating, NoHandler, SocksState
  <2> QED BY <1>0, <2>2, <2>3 DEF Stages, AtAuth, AtRequest5, Refused
<1>5. SocksState' /\ Stages'
  <2>1. CASE spc = "auth" /\ down = <<>>
    <3>1. r = More
      <4>1. 0 \in Nat /\ <<>> \in Stream
        BY Pieces
      <4>2. ReadUsernamePasswordAuthResponse(<<>>) = More
        BY ONLY <4>1, StatusRead
      <4> QED BY ONLY <2>1, <4>2
    <3> HIDE DEF r
    <3>2. ~(r.st = "ok") /\ ~Ended(r)
      BY ONLY <1>0, <2>1, <3>1, MoreIs DEF Ended, More, SocksState
    <3> QED BY ONLY <1>2, <3>2
  <2>2. CASE spc = "request" /\ Idle /\ down = WriteUsernamePasswordAuthResponse(UsernamePasswordStatusSuccess)
    <3>1. r = Got(UsernamePasswordStatusSuccess, <<>>)
      BY <2>2, StatusIs
    <3> HIDE DEF r
    <3>2. r.st = "ok" /\ r.v = UsernamePasswordStatusSuccess /\ r.rest = <<>>
      BY ONLY <3>1, GotFields
    <3>3. AskFor5 /\ down' = <<>>
      BY ONLY <1>1, <1>2, <3>2 DEF Ended
    <3> QED BY ONLY <1>0, <1>1, <2>2, <3>3, Asked
  <2>3. CASE spc \in {"error", "closed"} /\ down = WriteUsernamePasswordAuthResponse(UsernamePasswordStatusFailure)
    <3>1. r = Got(UsernamePasswordStatusFailure, <<>>) /\ UsernamePasswordStatusFailure # UsernamePasswordStatusSuccess
      BY <2>3, StatusIs
    <3> HIDE DEF r
    <3>2. r.st = "ok" /\ r.v # UsernamePasswordStatusSuccess
      BY ONLY <3>1, GotFields
    <3>3. cpc' = "failed" /\ cconn' = "closed" /\ up' = up
      BY ONLY <1>2, <3>2 DEF Ended, GiveUp
    <3> QED BY ONLY <1>0, <1>1, <2>3, <3>3, GaveUp
  <2> QED BY ONLY <1>3, <2>1, <2>2, <2>3
<1>6. Packets5'
  BY ONLY <1>0, <1>1, PacketsKept
<1> QED BY ONLY <1>5, <1>6 DEF SocksIInv

\* An association goes on without the server.
LEMMA Dialled ==
  ASSUME SocksState, Stages, conf.op = "udp", cpc \in {"reply5", "dialudp"}, handled.kind # "stream",
         spc \in {"error", "closed", "packet", "associated"},
         cpc' \in {"dialudp", "ok"}, cconn' = cconn, UNCHANGED <<conf, cgot, serverVars>>
  PROVE  SocksState' /\ Stages'
<1>1. UNCHANGED <<conf, cgot, spc, sconn, rbuf, suser, handled, tpc, responseWritten, sgot>>
  BY DEF serverVars
<1>2. (Version5Is' <=> Version5Is)
  BY ONLY <1>1, SameTerms
<1>3. SocksState'
  BY ONLY <1>1, <1>2, SocksState, conf.op = "udp", cpc \in {"reply5", "dialudp"}, cpc' \in {"dialudp", "ok"},
          cconn' = cconn DEF SocksState
<1>4. Refused' /\ Associating' /\ NoHandler'
  BY ONLY <1>1, Stages, conf.op = "udp", handled.kind # "stream", cpc' \in {"dialudp", "ok"}
     DEF Stages, Refused, Associating, NoHandler, AllIdle
<1>5. AtVersion' /\ AtAuth' /\ AtRequest5' /\ Served' /\ Calling' /\ Failing' /\ Serving'
  BY ONLY <1>1, handled.kind # "stream", spc \in {"error", "closed", "packet", "associated"}
     DEF AtVersion, AtAuth, AtRequest5, Served, Calling, Failing, Serving
<1> QED BY ONLY <1>3, <1>4, <1>5 DEF Stages

\* The client has its connection.
LEMMA Connected ==
  ASSUME SocksState, Stages, spc = "serving", cpc = ReplyPc, cpc' = "ok", cconn' = cconn, up' = Cat(up, <<>>),
         conf.plan[1] = "success" => down' = Written, UNCHANGED <<conf, cgot, serverVars>>
  PROVE  SocksState' /\ Stages'
<1>1. UNCHANGED <<conf, cgot, spc, sconn, rbuf, suser, handled, tpc, responseWritten, sgot>>
  BY DEF serverVars
<1>2. (Version5Is' <=> Version5Is) /\ ReplyPc' = ReplyPc /\ (Known' <=> Known) /\ username' = username /\ Wanted' = Wanted
  BY ONLY <1>1, SameTerms
<1>3. Written' = Written /\ ReplyPc \in {"reply4", "reply5"}
  BY ONLY <1>1 DEF Written, ReplyPc
<1>4. handled.kind = "stream"
  BY DEF Stages, NoHandler
<1>5. up = <<>> /\ sgot = <<>> /\ cgot = <<>>
  BY ONLY <1>3, <1>4, SocksState, Stages, cpc = ReplyPc DEF SocksState, Stages, Served
<1>6. up' = <<>>
  BY ONLY <1>5, Pieces, EmptyCat, up' = Cat(up, <<>>)
<1>7. SocksState'
  BY ONLY <1>1, <1>2, <1>3, SocksState, cpc = ReplyPc, cpc' = "ok", cconn' = cconn DEF SocksState
<1>8. Served'
  BY ONLY <1>1, <1>2, <1>4, <1>5, <1>6, Stages, cpc' = "ok" DEF Stages, Served
<1>9. Serving'
  BY ONLY <1>1, <1>2, <1>3, <1>5, Stages, spc = "serving", cpc' = "ok", conf.plan[1] = "success" => down' = Written
     DEF Stages, Serving
<1>10. AtVersion' /\ AtAuth' /\ AtRequest5' /\ Refused' /\ Associating' /\ NoHandler' /\ Calling' /\ Failing'
  BY ONLY <1>1, <1>4, spc = "serving" DEF AtVersion, AtAuth, AtRequest5, Refused, Associating, NoHandler, Calling, Failing
<1> QED BY ONLY <1>7, <1>8, <1>9, <1>10 DEF Stages

\* What is behind the reply of a handler that reported.
LEMMA WrittenIs == Written \in Stream /\ Written \in {<<>>, Data} /\ Data \in Stream /\ Data # <<>>
<1>1. Data \in Stream /\ <<>> \in Stream
  BY Pieces DEF Data
<1>2. Data # <<>>
  BY DEF Data
<1> QED BY <1>1, <1>2 DEF Written

LEMMA ClientReply5Step ==
  ASSUME SocksIInv, ClientReply5
  PROVE  SocksIInv'
<1> DEFINE r == ReadResponse5(down)
<1>0. SocksState /\ Stages /\ Packets5 /\ cpc = "reply5" /\ Version5Is /\ conf \in Configurations
  BY DEF SocksIInv, ClientReply5, ClientReads, SocksState
<1>1. UNCHANGED <<conf, cgot, serverVars>> /\ UNCHANGED packetVars /\ down' = r.rest
  BY DEF ClientReply5, ClientReads
<1>2. \/ /\ r.st = "ok"
         /\ IF r.v.ReplyCode # ReplyCodeSuccess THEN GiveUp
            ELSE IF conf.op = "udp" THEN Proceed(<<>>, "dialudp") ELSE Proceed(<<>>, "ok")
      \/ Ended(r) /\ GiveUp
  BY DEF ClientReply5, ClientReads, Ended, GiveUp
<1>3. ReplyPc = "reply5" /\ HelloPc = "method"
  BY <1>0 DEF ReplyPc, HelloPc
<1>4. spc \notin {"version", "auth"}
  BY ONLY <1>0, <1>3 DEF Stages, AtVersion, AtAuth
<1>5. GiveUp => cpc' = "failed" /\ cconn' = "closed" /\ up' = up
  BY DEF GiveUp
<1>6. SocksState' /\ Stages'
  <2>1. CASE spc \in {"request", "handler"}
    <3>1. down = <<>>
      BY ONLY <1>0, <2>1 DEF Stages, AtRequest5, Calling
    <3>2. r = More
      BY ONLY <3>1, EmptyResponse5
    <3> HIDE DEF r
    <3>3. ~(r.st = "ok") /\ ~Ended(r)
      BY ONLY <1>0, <2>1, <3>2, MoreIs DEF Ended, More, SocksState
    <3> QED BY ONLY <1>2, <3>3
  <2>2. CASE spc = "serving"
    <3>1. handled.kind = "stream"
      BY ONLY <1>0, <2>2 DEF Stages, NoHandler
    <3>2. conf.op = "tcp" /\ handled.version = (IF Version5Is THEN 5 ELSE 4)
      BY ONLY <1>0, <3>1 DEF Stages, Served
    <3>3. conf.plan[1] = "success" => Replies(r, ReplyCodeSuccess, Written)
      <4>1. conf.plan[1] = "success" => down = Cat(SuccessReply(conf.bind), Written)
        BY ONLY <1>0, <1>3, <2>2 DEF Stages, Serving
      <4>2. Replies(ReadResponse5(Cat(SuccessReply(conf.bind), Written)), ReplyCodeSuccess, Written)
        BY ONLY <1>0, <3>2, WrittenIs, SuccessIs
      <4> QED BY ONLY <4>1, <4>2
    <3> HIDE DEF r
    <3>4. CASE GiveUp /\ (Ended(r) \/ r.v.ReplyCode # ReplyCodeSuccess)
      <4>1. conf.plan[1] # "success"
        BY ONLY <3>3, <3>4 DEF Replies, Ended
      <4>2. conf.plan[1] = "lazy"
        BY ONLY <1>0, <2>2, <4>1 DEF Stages, Serving
      <4> QED BY ONLY <1>0, <1>1, <1>5, <2>2, <3>4, <4>2, GaveUp
    <3>5. CASE Proceed(<<>>, "ok")
      <4>1. cpc' = "ok" /\ cconn' = cconn /\ up' = Cat(up, <<>>)
        BY ONLY <3>5 DEF Proceed, Cat
      <4>2. conf.plan[1] = "success" => down' = Written
        BY ONLY <1>1, <3>3 DEF Replies
      <4> QED BY ONLY <1>0, <1>1, <1>3, <2>2, <4>1, <4>2, Connected
    <3> QED BY ONLY <1>2, <3>2, <3>4, <3>5
  <2>3. CASE spc = "closed" /\ handled.kind = "stream"
    <3>1. handled.version = (IF Version5Is THEN 5 ELSE 4) /\ down = FailureReply(conf.plan[2])
      BY ONLY <1>0, <1>3, <2>3 DEF Stages, Served, Failing
    <3>2. Replies(r, ReplyCodeForError(conf.plan[2]), <<>>) /\ ReplyCodeForError(conf.plan[2]) # ReplyCodeSuccess
      BY ONLY <1>0, <3>1, FailureIs
    <3> HIDE DEF r
    <3>3. GiveUp
      BY ONLY <1>2, <3>2 DEF Replies
    <3> QED BY ONLY <1>0, <1>1, <1>5, <2>3, <3>3, GaveUp
  <2>4. CASE spc \in {"error", "closed", "packet", "associated"} /\ handled.kind # "stream" /\ conf.op = "udp"
    <3>1. GiveUp \/ Proceed(<<>>, "dialudp")
      BY ONLY <1>2, <2>4
    <3>2. CASE GiveUp
      BY ONLY <1>0, <1>1, <1>5, <2>4, <3>2, GaveUp
    <3>3. CASE Proceed(<<>>, "dialudp")
      <4>1. cpc' = "dialudp" /\ cconn' = cconn
        BY ONLY <3>3 DEF Proceed
      <4> QED BY ONLY <1>0, <1>1, <2>4, <4>1, Dialled
    <3> QED BY ONLY <3>1, <3>2, <3>3
  <2>5. CASE spc \in {"error", "closed"} /\ handled.kind # "stream" /\ conf.op # "udp"
    <3>1. down = <<>> \/ down = WriteResponse5(ReplyCodeUnsupported, Invalid)
      BY ONLY <1>0, <2>5 DEF Stages, Refused
    <3>2. r = More \/ Replies(r, ReplyCodeUnsupported, <<>>)
      BY ONLY <3>1, EmptyResponse5, Refusals
    <3> HIDE DEF r
    <3>3. GiveUp
      BY ONLY <1>2, <3>2, MoreIs, Refusals DEF Replies
    <3> QED BY ONLY <1>0, <1>1, <1>5, <2>5, <3>3, GaveUp
  <2>6. \/ spc \in {"request", "handler", "serving"}
        \/ spc = "closed" /\ handled.kind = "stream"
        \/ spc \in {"error", "closed", "packet", "associated"} /\ handled.kind # "stream" /\ conf.op = "udp"
        \/ spc \in {"error", "closed"} /\ handled.kind # "stream" /\ conf.op # "udp"
    <3>1. spc \in {"packet", "associated"} => conf.op = "udp"
      BY ONLY <1>0 DEF Stages, Associating
    <3>2. handled.kind = "stream" => spc \in {"handler", "serving", "closed"}
      BY ONLY <1>0 DEF Stages, Served
    <3>3. spc \in {"request", "handler", "serving", "packet", "associated", "error", "closed"}
      BY ONLY <1>0, <1>4 DEF SocksState
    <3> QED BY ONLY <3>1, <3>2, <3>3
  <2> QED BY ONLY <2>1, <2>2, <2>3, <2>4, <2>5, <2>6
<1>7. Packets5'
  BY ONLY <1>0, <1>1, PacketsKept
<1> QED BY ONLY <1>6, <1>7 DEF SocksIInv

LEMMA ClientReply4Step ==
  ASSUME SocksIInv, ClientReply4
  PROVE  SocksIInv'
<1> DEFINE r == ReadResponse4(down)
<1>0. SocksState /\ Stages /\ Packets5 /\ cpc = "reply4" /\ ~Version5Is /\ conf \in Configurations
  BY DEF SocksIInv, ClientReply4, ClientReads, SocksState
<1>1. UNCHANGED <<conf, cgot, serverVars>> /\ UNCHANGED packetVars /\ down' = r.rest
  BY DEF ClientReply4, ClientReads
<1>2. \/ r.st = "ok" /\ IF r.v.ReplyCode # ReplyCodeGranted THEN GiveUp ELSE Proceed(<<>>, "ok")
      \/ Ended(r) /\ GiveUp
  BY DEF ClientReply4, ClientReads, Ended, GiveUp
<1>3. ReplyPc = "reply4"
  BY <1>0 DEF ReplyPc
<1>4. spc \notin {"auth", "request", "packet", "associated"}
  BY ONLY <1>0 DEF Stages, AtAuth, AtRequest5, Associating
<1>5. GiveUp => cpc' = "failed" /\ cconn' = "closed" /\ up' = up
  BY DEF GiveUp
<1>6. SocksState' /\ Stages'
  <2>1. CASE spc \in {"version", "handler"}
    <3>1. down = <<>>
      BY ONLY <1>0, <2>1 DEF Stages, AtVersion, Calling
    <3>2. r = More
      BY ONLY <3>1, EmptyResponse4
    <3> HIDE DEF r
    <3>3. ~(r.st = "ok") /\ ~Ended(r)
      BY ONLY <1>0, <2>1, <3>2, MoreIs DEF Ended, More, SocksState
    <3> QED BY ONLY <1>2, <3>3
  <2>2. CASE spc = "serving"
    <3>1. handled.kind = "stream"
      BY ONLY <1>0, <2>2 DEF Stages, NoHandler
    <3>2. handled.version = (IF Version5Is THEN 5 ELSE 4)
      BY ONLY <1>0, <3>1 DEF Stages, Served
    <3>3. conf.plan[1] = "success" => Replies(r, ReplyCodeGranted, Written)
      <4>1. conf.plan[1] = "success" => down = Cat(SuccessReply(conf.bind), Written)
        BY ONLY <1>0, <1>3, <2>2 DEF Stages, Serving
      <4>2. Replies(ReadResponse4(Cat(SuccessReply(conf.bind), Written)), ReplyCodeGranted, Written)
        BY ONLY <1>0, <3>2, WrittenIs, SuccessIs
      <4> QED BY ONLY <4>1, <4>2
    <3> HIDE DEF r
    <3>4. CASE GiveUp /\ (Ended(r) \/ r.v.ReplyCode # ReplyCodeGranted)
      <4>1. conf.plan[1] # "success"
        BY ONLY <3>3, <3>4 DEF Replies, Ended
      <4>2. conf.plan[1] = "lazy"
        BY ONLY <1>0, <2>2, <4>1 DEF Stages, Serving
      <4> QED BY ONLY <1>0, <1>1, <1>5, <2>2, <3>4, <4>2, GaveUp
    <3>5. CASE Proceed(<<>>, "ok")
      <4>1. cpc' = "ok" /\ cconn' = cconn /\ up' = Cat(up, <<>>)
        BY ONLY <3>5 DEF Proceed, Cat
      <4>2. conf.plan[1] = "success" => down' = Written
        BY ONLY <1>1, <3>3 DEF Replies
      <4> QED BY ONLY <1>0, <1>1, <1>3, <2>2, <4>1, <4>2, Connected
    <3> QED BY ONLY <1>2, <3>4, <3>5
  <2>3. CASE spc \in {"error", "closed"}
    <3>1. r = More
      <4>1. CASE handled.kind = "stream"
        <5>1. spc = "closed" /\ handled.version = (IF Version5Is THEN 5 ELSE 4)
          BY ONLY <1>0, <2>3, <4>1 DEF Stages, Served
        <5>2. down = FailureReply(conf.plan[2])
          BY ONLY <1>0, <1>3, <4>1, <5>1 DEF Stages, Failing
        <5> QED BY ONLY <1>0, <5>1, <5>2, FailureIs
      <4>2. CASE handled.kind # "stream"
        <5>1. down = <<>> \/ down = WriteResponse4(ReplyCodeRejectedOrFailed, Invalid)
          BY ONLY <1>0, <2>3, <4>2 DEF Stages, Refused
        <5> QED BY ONLY <5>1, EmptyResponse4, Refusals
      <4> QED BY ONLY <4>1, <4>2
    <3> HIDE DEF r
    <3>2. GiveUp
      BY ONLY <1>2, <3>1, MoreIs
    <3> QED BY ONLY <1>0, <1>1, <1>5, <2>3, <3>2, GaveUp
  <2> QED BY ONLY <1>0, <1>4, <2>1, <2>2, <2>3 DEF SocksState
<1>7. Packets5'
  BY ONLY <1>0, <1>1, PacketsKept
<1> QED BY ONLY <1>6, <1>7 DEF SocksIInv

LEMMA DialUDPStep ==
  ASSUME SocksIInv, DialUDP
  PROVE  SocksIInv'
<1>0. SocksState /\ Stages /\ Packets5 /\ cpc = "dialudp" /\ conf.op = "udp" /\ conf \in Configurations
  BY DEF SocksIInv, DialUDP, SocksState
<1>1. UNCHANGED <<conf, up, cgot, serverVars>> /\ UNCHANGED <<udp, back, peer, wrote, received>>
  BY DEF DialUDP
<1>2. \/ cpc' = "ok" /\ cconn' = cconn /\ remoteAddr' = conf.destination
      \/ cpc' = "failed" /\ cconn' = "closed" /\ remoteAddr' = remoteAddr
  BY DEF DialUDP
<1>3. handled.kind # "stream"
  BY ONLY <1>0 DEF Stages, Served
<1>4. spc \in {"error", "closed", "packet", "associated"}
  <2>1. HelloPc # "dialudp"
    BY DEF HelloPc
  <2> QED BY ONLY <1>0, <1>3, <2>1 DEF SocksState, Stages, AtVersion, AtAuth, AtRequest5, NoHandler
<1>5. SocksState' /\ Stages'
  <2>1. CASE cpc' = "ok" /\ cconn' = cconn
    BY ONLY <1>0, <1>1, <1>3, <1>4, <2>1, Dialled
  <2>2. CASE cpc' = "failed" /\ cconn' = "closed"
    BY ONLY <1>0, <1>1, <1>4, <2>2, GaveUp
  <2> QED BY ONLY <1>2, <2>1, <2>2
<1>6. Packets5'
  <2>1. remoteAddr' \in Socksaddrs
    BY ONLY <1>0, <1>2, ConfIs DEF Packets5
  <2> QED BY ONLY <1>0, <1>1, <2>1 DEF Packets5, PacketsAsWritten
<1> QED BY ONLY <1>5, <1>6 DEF SocksIInv

\* The application behind the client.
LEMMA AtServing ==
  ASSUME SocksState, Stages, cpc \in {"ok", "sent"}, conf.op = "tcp"
  PROVE  handled.kind = "stream" /\ spc = "serving" /\ cpc # ReplyPc
<1>1. ReplyPc \notin {"ok", "sent", "failed"}
  BY DEF ReplyPc
<1>2. handled.kind = "stream"
  BY DEF Stages, NoHandler
<1>3. spc \in {"handler", "serving", "closed"}
  BY ONLY <1>2, Stages DEF Stages, Served
<1> QED BY ONLY <1>1, <1>2, <1>3, Stages, cpc \in {"ok", "sent"} DEF Stages, Calling, Failing

LEMMA ClientSendsPayloadStep ==
  ASSUME SocksIInv, ClientSendsPayload
  PROVE  SocksIInv'
<1>0. SocksState /\ Stages /\ Packets5 /\ cpc = "ok" /\ conf.op = "tcp"
  BY DEF SocksIInv, ClientSendsPayload
<1>1. /\ UNCHANGED <<conf, cconn, down, cgot>> /\ UNCHANGED packetVars /\ cpc' = "sent" /\ up' = Cat(up, Payload)
      /\ UNCHANGED <<spc, sconn, rbuf, suser, handled, tpc, responseWritten, sgot>>
  BY DEF ClientSendsPayload, serverVars, Cat
<1>2. handled.kind = "stream" /\ spc = "serving" /\ cpc # ReplyPc
  BY ONLY <1>0, AtServing
<1>3. sgot = <<>> /\ up = <<>>
  BY ONLY <1>0, <1>2 DEF Stages, Served
<1>4. up' = Payload
  <2>1. Payload \in Stream
    BY Pieces DEF Payload
  <2>2. Cat(<<>>, Payload) = Payload
    BY ONLY <2>1, EmptyCat
  <2> QED BY ONLY <1>1, <1>3, <2>2
<1>5. (Version5Is' <=> Version5Is) /\ ReplyPc' = ReplyPc /\ (Known' <=> Known) /\ username' = username /\ Wanted' = Wanted
  BY ONLY <1>1, SameTerms
<1>6. SocksState'
  BY ONLY <1>0, <1>1, <1>5 DEF SocksState
<1>7. Served'
  BY ONLY <1>0, <1>1, <1>2, <1>3, <1>4, <1>5 DEF Stages, Served
<1>8. Serving'
  <2>1. Written' = Written /\ ReplyPc \in {"reply4", "reply5"}
    BY ONLY <1>1 DEF Written, ReplyPc
  <2> QED BY ONLY <1>0, <1>1, <1>2, <1>5, <2>1 DEF Stages, Serving
<1>9. AtVersion' /\ AtAuth' /\ AtRequest5' /\ Refused' /\ Associating' /\ NoHandler' /\ Calling' /\ Failing'
  BY ONLY <1>1, <1>2 DEF AtVersion, AtAuth, AtRequest5, Refused, Associating, NoHandler, Calling, Failing
<1>10. Packets5'
  BY ONLY <1>0, <1>1, PacketsKept
<1> QED BY ONLY <1>6, <1>7, <1>8, <1>9, <1>10 DEF SocksIInv, Stages

LEMMA ClientGetsPayloadStep ==
  ASSUME SocksIInv, ClientGetsPayload
  PROVE  SocksIInv'
<1>0. SocksState /\ Stages /\ Packets5 /\ cpc \in {"ok", "sent"} /\ conf.op = "tcp"
  BY DEF SocksIInv, ClientGetsPayload
<1>1. /\ UNCHANGED <<conf, cpc, cconn, up>> /\ UNCHANGED packetVars /\ cgot' = Cat(cgot, down) /\ down' = <<>> /\ down # <<>>
      /\ UNCHANGED <<spc, sconn, rbuf, suser, handled, tpc, responseWritten, sgot>>
  BY DEF ClientGetsPayload, serverVars, Cat
<1>2. handled.kind = "stream" /\ spc = "serving" /\ cpc # ReplyPc
  BY ONLY <1>0, AtServing
<1>3. conf.plan[1] = "success" => cgot' = Data /\ tpc["write"] = "end"
  <2> SUFFICES ASSUME conf.plan[1] = "success" PROVE cgot' = Data /\ tpc["write"] = "end"
    OBVIOUS
  <2>1. cgot = <<>> /\ down = Written
    BY ONLY <1>0, <1>1, <1>2, conf.plan[1] = "success" DEF Stages, Serving
  <2>2. Written = Data /\ tpc["write"] = "end"
    BY ONLY <1>1, <2>1 DEF Written
  <2>3. Cat(<<>>, Data) = Data
    BY ONLY WrittenIs, EmptyCat
  <2> QED BY ONLY <1>1, <2>1, <2>2, <2>3
<1>5. (Version5Is' <=> Version5Is) /\ ReplyPc' = ReplyPc /\ (Known' <=> Known) /\ username' = username /\ Wanted' = Wanted
  BY ONLY <1>1, SameTerms
<1>6. SocksState'
  BY ONLY <1>0, <1>1, <1>5 DEF SocksState
<1>7. Served'
  BY ONLY <1>0, <1>1, <1>2, <1>5 DEF Stages, Served
<1>8. Serving'
  BY ONLY <1>0, <1>1, <1>2, <1>3, <1>5 DEF Stages, Serving
<1>9. AtVersion' /\ AtAuth' /\ AtRequest5' /\ Refused' /\ Associating' /\ NoHandler' /\ Calling' /\ Failing'
  BY ONLY <1>1, <1>2 DEF AtVersion, AtAuth, AtRequest5, Refused, Associating, NoHandler, Calling, Failing
<1>10. Packets5'
  BY ONLY <1>0, <1>1, PacketsKept
<1> QED BY ONLY <1>6, <1>7, <1>8, <1>9, <1>10 DEF SocksIInv, Stages

-----------------------------------------------------------------------------
\* The server's steps.
LEMMA NotHandled ==
  ASSUME Stages, spc \in {"version", "auth", "request", "packet", "associated", "error"}
  PROVE  handled.kind # "stream"
BY DEF Stages, Served

\* The server gives up, or the caller closes the connection after that.
LEMMA Rejected ==
  ASSUME SocksState, Stages, handled.kind # "stream", spc' \in {"error", "closed"}, sconn' = "closed" => spc' = "closed",
         UNCHANGED <<conf, cpc, cconn, cgot, handled, tpc, sgot>>, Refused'
  PROVE  SocksState' /\ Stages'
<1>1. (Version5Is' <=> Version5Is)
  BY SameTerms
<1>2. SocksState'
  BY <1>1 DEF SocksState
<1>3. NoHandler'
  BY DEF Stages, NoHandler, AllIdle
<1>4. AtVersion' /\ AtAuth' /\ AtRequest5' /\ Associating' /\ Served' /\ Calling' /\ Failing' /\ Serving'
  BY DEF AtVersion, AtAuth, AtRequest5, Associating, Served, Calling, Failing, Serving
<1> QED BY ONLY <1>2, <1>3, <1>4, Refused' DEF Stages

\* What the server has read when it has read all that was sent.
LEMMA ParsedIs ==
  ASSUME SocksState, Stages, Parsing
  PROVE  /\ spc = "version" /\ ServerParse.st # "more" => cpc = HelloPc /\ rbuf = Hello /\ up = <<>>
         /\ spc = "auth" /\ ServerParse.st # "more" => cpc = "status" /\ rbuf = Password /\ up = <<>>
         /\ spc = "request" /\ ServerParse.st # "more" => cpc = "reply5" /\ rbuf = WriteRequest5(Request5) /\ up = <<>>
<1>0. More.st = "more"
  BY MoreIs
<1>1. ASSUME spc = "version", ServerParse.st # "more" PROVE cpc = HelloPc /\ rbuf = Hello /\ up = <<>>
  <2>1. rbuf # <<>>
    BY ONLY <1>0, <1>1, ServerParseIs, NoHello
  <2> QED BY ONLY <1>1, <2>1, Stages DEF Stages, AtVersion, Idle, Sent
<1>2. ASSUME spc = "auth", ServerParse.st # "more" PROVE cpc = "status" /\ rbuf = Password /\ up = <<>>
  <2>1. rbuf # <<>>
    BY ONLY <1>0, <1>2, ServerParseIs, EmptyPassword
  <2> QED BY ONLY <1>2, <2>1, Stages DEF Stages, AtAuth, Idle, Sent
<1>3. ASSUME spc = "request", ServerParse.st # "more"
      PROVE  cpc = "reply5" /\ rbuf = WriteRequest5(Request5) /\ up = <<>>
  <2>1. rbuf # <<>>
    BY ONLY <1>0, <1>3, ServerParseIs, EmptyRequest5
  <2> QED BY ONLY <1>3, <2>1, Stages DEF Stages, AtRequest5, Idle, Sent
<1> QED BY ONLY <1>1, <1>2, <1>3

LEMMA FillStep ==
  ASSUME SocksIInv, Fill
  PROVE  SocksIInv'
<1>0. SocksState /\ Stages /\ Packets5 /\ spc \in {"version", "auth", "request"} /\ conf \in Configurations
  BY DEF SocksIInv, Fill, Parsing, SocksState
<1>1. /\ UNCHANGED <<conf, cpc, cconn, cgot, down, spc, sconn, suser, handled, tpc, responseWritten, sgot>>
      /\ UNCHANGED packetVars /\ up # <<>> /\ rbuf' = Cat(rbuf, up) /\ up' = <<>>
  BY DEF Fill, clientVars, Cat
<1>2. handled.kind # "stream"
  BY ONLY <1>0, NotHandled
<1>3. /\ (Version5Is' <=> Version5Is) /\ Hello' = Hello /\ HelloPc' = HelloPc
      /\ Password' = Password /\ Offer' = Offer /\ (Known' <=> Known) /\ Request4' = Request4
      /\ Request5' = Request5 /\ username' = username
  BY ONLY <1>1, SameTerms
<1>4. ASSUME up \in Stream, rbuf = <<>> PROVE rbuf' = up
  <2>1. Cat(<<>>, up) = up
    BY ONLY <1>4, EmptyCat
  <2> QED BY ONLY <1>1, <1>4, <2>1
<1>5. SocksState'
  BY ONLY <1>0, <1>1, <1>3 DEF SocksState
<1>6. AtVersion'
  <2> SUFFICES ASSUME spc = "version" PROVE AtVersion'
    BY <1>1 DEF AtVersion
  <2>1. down = <<>> /\ cpc = HelloPc /\ rbuf = <<>> /\ up = Hello /\ (~Version5Is => CanWriteRequest4(Request4))
    BY ONLY <1>0, <1>1, spc = "version" DEF Stages, AtVersion, Idle, Sent
  <2>2. Hello \in Stream
    BY ONLY <1>0, <2>1, Hello5Is, Hello4Is
  <2> QED BY ONLY <1>1, <1>3, <1>4, <2>1, <2>2 DEF AtVersion, Sent
<1>7. AtAuth'
  <2> SUFFICES ASSUME spc = "auth" PROVE AtAuth'
    BY <1>1 DEF AtAuth
  <2>1. Version5Is /\ conf.users # {} /\ down = <<>> /\ cpc = "status" /\ rbuf = <<>> /\ up = Password
    BY ONLY <1>0, <1>1, spc = "auth" DEF Stages, AtAuth, Idle, Sent
  <2>2. Password \in Stream
    BY ONLY <1>0, PasswordIs
  <2> QED BY ONLY <1>1, <1>3, <1>4, <2>1, <2>2 DEF AtAuth, Sent
<1>8. AtRequest5'
  <2> SUFFICES ASSUME spc = "request" PROVE AtRequest5'
    BY <1>1 DEF AtRequest5
  <2>1. /\ Version5Is /\ (conf.users # {} => suser = username /\ Known) /\ down = <<>> /\ cpc = "reply5"
        /\ rbuf = <<>> /\ up = WriteRequest5(Request5) /\ CanWriteRequest5(Request5)
    BY ONLY <1>0, <1>1, spc = "request" DEF Stages, AtRequest5, Idle, Sent
  <2>2. WriteRequest5(Request5) \in Stream
    BY ONLY <1>0, <2>1, Request5Is
  <2> QED BY ONLY <1>1, <1>3, <1>4, <2>1, <2>2 DEF AtRequest5, Sent
<1>9. NoHandler'
  BY ONLY <1>0, <1>1, <1>2 DEF Stages, NoHandler, AllIdle
<1>10. Refused' /\ Associating' /\ Served' /\ Calling' /\ Failing' /\ Serving'
  BY ONLY <1>0, <1>1, <1>2 DEF Refused, Associating, Served, Calling, Failing, Serving
<1>11. Packets5'
  BY ONLY <1>0, <1>1, PacketsKept
<1> QED BY ONLY <1>5, <1>6, <1>7, <1>8, <1>9, <1>10, <1>11 DEF SocksIInv, Stages

LEMMA ServerReadFailsStep ==
  ASSUME SocksIInv, ServerReadFails
  PROVE  SocksIInv'
<1>0. /\ SocksState /\ Stages /\ Packets5 /\ spc \in {"version", "auth", "request"} /\ conf \in Configurations
      /\ Parsing /\ handled.kind # "stream"
  BY NotHandled DEF SocksIInv, ServerReadFails, Parsing, SocksState
<1>1. /\ UNCHANGED <<conf, cpc, cconn, cgot, down, up, rbuf, sconn, suser, handled, tpc, responseWritten, sgot>>
      /\ UNCHANGED packetVars /\ spc' = "error"
      /\ ServerParse.st = "bad" \/ (ServerParse.st = "more" /\ cconn = "closed")
  BY DEF ServerReadFails, clientVars
<1>2. cpc = "failed" \/ (cpc = "reply5" /\ conf.op = "udp")
  <2>1. CASE cconn = "closed"
    BY ONLY <1>0, <2>1 DEF SocksState
  <2>2. CASE cconn # "closed"
    <3>1. ServerParse.st = "bad" /\ ServerParse.st # "more" /\ ServerParse.st # "ok"
      BY ONLY <1>1, <2>2
    <3>2. CASE spc = "version"
      <4>1. rbuf = Hello /\ cpc = HelloPc
        BY ONLY <1>0, <3>1, <3>2, ParsedIs
      <4>2. ~Version5Is => CanWriteRequest4(Request4)
        <5>1. HelloPc \notin {"start", "failed"}
          BY DEF HelloPc
        <5> QED BY ONLY <1>0, <3>2, <4>1, <5>1 DEF Stages, AtVersion
      <4>3. ParseHello(Hello) = More \/ ParseHello(Hello).st = "ok"
        <5>1. CASE Version5Is
          BY ONLY <5>1, Hello5Is, GotFields
        <5>2. CASE ~Version5Is
          BY ONLY <1>0, <4>2, <5>2, Hello4Is, GotFields
        <5> QED BY ONLY <5>1, <5>2
      <4> QED BY ONLY <3>1, <3>2, <4>1, <4>3, ServerParseIs, MoreIs
    <3>3. CASE spc = "auth"
      <4>1. ServerParse = ReadUsernamePasswordAuthRequest(Password)
        BY ONLY <1>0, <3>1, <3>3, ParsedIs, ServerParseIs
      <4>2. ServerParse.st = "ok"
        BY ONLY <1>0, <4>1, PasswordIs, GotFields
      <4> QED BY ONLY <3>1, <4>2
    <3>4. CASE spc = "request"
      <4>1. ServerParse = ReadRequest5(WriteRequest5(Request5)) /\ cpc = "reply5"
        BY ONLY <1>0, <3>1, <3>4, ParsedIs, ServerParseIs
      <4>2. CanWriteRequest5(Request5)
        BY ONLY <1>0, <3>4, <4>1 DEF Stages, AtRequest5
      <4>3. conf.op # "udp" => ServerParse.st = "ok"
        BY ONLY <1>0, <4>1, <4>2, Request5Is, GotFields
      <4> QED BY ONLY <3>1, <4>1, <4>3
    <3> QED BY ONLY <1>0, <3>2, <3>3, <3>4
  <2> QED BY ONLY <2>1, <2>2
<1>3. Refused'
  BY ONLY <1>1, <1>2 DEF Refused
<1>4. SocksState' /\ Stages'
  <2>1. sconn' # "closed"
    BY ONLY <1>0, <1>1 DEF SocksState
  <2> QED BY ONLY <1>0, <1>1, <1>3, <2>1, Rejected
<1>5. Packets5'
  BY ONLY <1>0, <1>1, PacketsKept
<1> QED BY ONLY <1>4, <1>5 DEF SocksIInv

LEMMA CallerClosesStep ==
  ASSUME SocksIInv, CallerCloses
  PROVE  SocksIInv'
<1>0. SocksState /\ Stages /\ Packets5 /\ spc = "error" /\ handled.kind # "stream"
  BY NotHandled DEF SocksIInv, CallerCloses
<1>1. /\ UNCHANGED <<conf, cpc, cconn, cgot, down, handled, tpc, sgot>>
      /\ UNCHANGED packetVars /\ spc' = "closed" /\ sconn' = "closed"
  BY DEF CallerCloses, clientVars
<1>2. Refused'
  BY ONLY <1>0, <1>1 DEF Stages, Refused
<1>3. SocksState' /\ Stages'
  BY ONLY <1>0, <1>1, <1>2, Rejected
<1>4. Packets5'
  BY ONLY <1>0, <1>1, PacketsKept
<1> QED BY ONLY <1>3, <1>4 DEF SocksIInv

\* What goes on after a message, with nothing on the way to the client.
LEMMA GoesOn ==
  ASSUME NEW pc, NEW user, NEW bytes \in Stream, ServerGoesOn(pc, user, bytes), down = <<>>
  PROVE  /\ spc' = pc /\ suser' = user /\ down' = bytes /\ rbuf' = ServerParse.rest
         /\ UNCHANGED <<conf, cpc, cconn, cgot, up, sconn, tpc, responseWritten, sgot>> /\ UNCHANGED packetVars
<1>1. /\ spc' = pc /\ suser' = user /\ down' = Cat(down, bytes) /\ rbuf' = ServerParse.rest
      /\ UNCHANGED <<conf, cpc, cconn, cgot, up, sconn, tpc, responseWritten, sgot>> /\ UNCHANGED packetVars
  BY DEF ServerGoesOn, clientVars, Cat
<1>2. Cat(<<>>, bytes) = bytes
  BY EmptyCat
<1> QED BY ONLY <1>1, <1>2, down = <<>>

\* The handler is called.
LEMMA Called ==
  ASSUME SocksState, Stages, handled.kind # "stream", conf.op = "tcp", NEW u, conf.users # {} => u = username /\ Known,
         handled' = [kind |-> "stream", version |-> IF Version5Is THEN 5 ELSE 4, user |-> u, destination |-> Wanted],
         spc' = "handler", down' = <<>>, rbuf' = <<>>, up' = <<>>, cpc = ReplyPc, sconn # "closed",
         UNCHANGED <<conf, cpc, cconn, cgot, sconn, tpc, sgot>>
  PROVE  SocksState' /\ Stages'
<1>1. (Version5Is' <=> Version5Is) /\ ReplyPc' = ReplyPc /\ (Known' <=> Known) /\ username' = username /\ Wanted' = Wanted
  BY SameTerms
<1>2. /\ handled'.kind = "stream" /\ handled'.version = (IF Version5Is THEN 5 ELSE 4)
      /\ handled'.user = u /\ handled'.destination = Wanted
  BY Zenon
<1>3. ReplyPc \in {"reply4", "reply5"}
  BY DEF ReplyPc
<1>4. SocksState'
  BY ONLY <1>1, <1>2, SocksState, spc' = "handler", sconn # "closed",
          UNCHANGED <<conf, cpc, cconn, cgot, sconn, tpc, sgot>> DEF SocksState
<1>5. sgot = <<>> /\ AllIdle
  BY DEF Stages, NoHandler
<1>6. AllIdle'
  BY ONLY <1>5, UNCHANGED <<conf, cpc, cconn, cgot, sconn, tpc, sgot>> DEF AllIdle
<1>7. Served'
  BY ONLY <1>1, <1>2, <1>3, <1>5, conf.op = "tcp", conf.users # {} => u = username /\ Known, spc' = "handler",
          rbuf' = <<>>, up' = <<>>, cpc = ReplyPc, UNCHANGED <<conf, cpc, cconn, cgot, sconn, tpc, sgot>> DEF Served
<1>8. Calling'
  BY ONLY <1>1, <1>6, down' = <<>>, cpc = ReplyPc, UNCHANGED <<conf, cpc, cconn, cgot, sconn, tpc, sgot>> DEF Calling
<1>9. AtVersion' /\ AtAuth' /\ AtRequest5' /\ Refused' /\ Associating' /\ NoHandler' /\ Failing' /\ Serving'
  BY ONLY <1>2, spc' = "handler" DEF AtVersion, AtAuth, AtRequest5, Refused, Associating, NoHandler, Failing, Serving
<1> QED BY ONLY <1>4, <1>7, <1>8, <1>9 DEF Stages

LEMMA HandleSocks4Step ==
  ASSUME SocksIInv, HandleSocks4
  PROVE  SocksIInv'
<1> DEFINE R == [Command |-> Command, Username |-> username, Destination |-> Unwrap(Address4)]
           request4 == ServerParse.v.request
           verified == conf.users # {} => Verify(request4.Username, <<>>)
<1>0. /\ SocksState /\ Stages /\ Packets5 /\ spc = "version" /\ conf \in Configurations
      /\ Parsing /\ handled.kind # "stream" /\ ServerParse.st = "ok" /\ ServerParse.v.version = 4
  BY NotHandled DEF SocksIInv, HandleSocks4, Parsing, SocksState
<1>1. cpc = HelloPc /\ rbuf = Hello /\ up = <<>> /\ down = <<>> /\ (~Version5Is => CanWriteRequest4(Request4))
  <2>1. cpc = HelloPc /\ rbuf = Hello /\ up = <<>>
    BY ONLY <1>0, ParsedIs
  <2>2. HelloPc \notin {"start", "failed"}
    BY DEF HelloPc
  <2> QED BY ONLY <1>0, <2>1, <2>2 DEF Stages, AtVersion
<1>2. ServerParse = ParseHello(Hello)
  BY ONLY <1>0, <1>1, ServerParseIs
<1>3. ~Version5Is
  <2>1. ASSUME Version5Is PROVE FALSE
    <3>1. ServerParse.v = [version |-> 5, methods |-> <<Method>>]
      BY ONLY <1>2, <2>1, Hello5Is, GotFields
    <3>2. ServerParse.v.version = 5
      BY ONLY <3>1
    <3> QED BY ONLY <1>0, <3>2
  <2> QED BY ONLY <2>1
<1>4. ServerParse.v = [version |-> 4, request |-> R] /\ ServerParse.rest = <<>>
  <2> HIDE DEF R
  <2>1. ServerParse \in {More, Got([version |-> 4, request |-> R], <<>>)}
    BY ONLY <1>0, <1>1, <1>2, <1>3, Hello4Is DEF R
  <2>2. ServerParse = Got([version |-> 4, request |-> R], <<>>)
    BY ONLY <1>0, <2>1, MoreIs
  <2> QED BY ONLY <2>2, GotFields
<1>5. request4.Command = Command /\ request4.Username = username /\ request4.Destination = Unwrap(Address4)
  <2>1. ServerParse.v.request = R
    BY ONLY <1>4
  <2> QED BY ONLY <2>1
<1>6. verified <=> (conf.users # {} => Known)
  BY ONLY <1>3, <1>5 DEF Known
<1>7. sconn # "closed" /\ cpc = "reply4" /\ ReplyPc = "reply4"
  BY ONLY <1>0, <1>1, <1>3 DEF SocksState, HelloPc, ReplyPc
<1>8. IF request4.Command = CommandConnect /\ verified
      THEN /\ Handler(4, request4.Username, request4.Destination)
           /\ ServerGoesOn("handler", request4.Username, <<>>)
      ELSE /\ ServerGoesOn("error", suser, WriteResponse4(ReplyCodeRejectedOrFailed, Invalid))
           /\ UNCHANGED handled
  BY DEF HandleSocks4
<1> HIDE DEF request4, verified, R
<1>9. CASE request4.Command = CommandConnect /\ verified
  <2>1. conf.op = "tcp" /\ (conf.users # {} => Known) /\ <<>> \in Stream
    BY ONLY <1>0, <1>5, <1>6, <1>9, CommandIs, Pieces
  <2>2. Wanted = Unwrap(Address4)
    BY ONLY <1>0, <1>3, <2>1, Address4Is
  <2>3. handled' = [kind |-> "stream", version |-> IF Version5Is THEN 5 ELSE 4, user |-> username, destination |-> Wanted]
    BY ONLY <1>3, <1>5, <1>8, <1>9, <2>2 DEF Handler
  <2>4. ServerGoesOn("handler", username, <<>>)
    BY ONLY <1>5, <1>8, <1>9
  <2>5. /\ spc' = "handler" /\ down' = <<>> /\ rbuf' = <<>> /\ up' = <<>>
        /\ UNCHANGED <<conf, cpc, cconn, cgot, sconn, tpc, sgot>> /\ UNCHANGED packetVars
    <3>1. /\ spc' = "handler" /\ down' = <<>> /\ rbuf' = ServerParse.rest
          /\ UNCHANGED <<conf, cpc, cconn, cgot, up, sconn, tpc, responseWritten, sgot>> /\ UNCHANGED packetVars
      BY ONLY <1>1, <2>1, <2>4, GoesOn
    <3> QED BY ONLY <1>1, <1>4, <3>1
  <2>6. SocksState' /\ Stages'
    BY ONLY <1>0, <1>7, <2>1, <2>3, <2>5, Called
  <2>7. Packets5'
    BY ONLY <1>0, <2>5, PacketsKept
  <2> QED BY ONLY <2>6, <2>7 DEF SocksIInv
<1>10. CASE ~(request4.Command = CommandConnect /\ verified)
  <2> DEFINE w == WriteResponse4(ReplyCodeRejectedOrFailed, Invalid)
  <2>1. w \in Stream
    <3>1. ReplyCodeRejectedOrFailed \in Nat
      BY DEF ReplyCodeRejectedOrFailed
    <3> QED BY ONLY <3>1, Response4Short
  <2>2. ServerGoesOn("error", suser, w) /\ handled' = handled
    BY ONLY <1>8, <1>10
  <2> HIDE DEF w
  <2>3. /\ spc' = "error" /\ down' = w
        /\ UNCHANGED <<conf, cpc, cconn, cgot, up, sconn, tpc, responseWritten, sgot>> /\ UNCHANGED packetVars
    BY ONLY <1>1, <2>1, <2>2, GoesOn
  <2>4. Refused'
    BY ONLY <1>7, <2>3 DEF Refused, w
  <2>5. SocksState' /\ Stages'
    BY ONLY <1>0, <1>7, <2>2, <2>3, <2>4, Rejected
  <2>6. Packets5'
    BY ONLY <1>0, <2>3, PacketsKept
  <2> QED BY ONLY <2>5, <2>6 DEF SocksIInv
<1> QED BY ONLY <1>9, <1>10

LEMMA HandleMethodsStep ==
  ASSUME SocksIInv, HandleMethods
  PROVE  SocksIInv'
<1> DEFINE ms == ServerParse.v.methods
           offered == {ms[i] : i \in 1 .. Len(ms)}
           no == WriteAuthResponse(AuthTypeNoAcceptedMethods)
           pw == WriteAuthResponse(AuthTypeUsernamePassword)
           free == WriteAuthResponse(AuthTypeNotRequired)
           both == (IF AuthTypeUsernamePassword \in offered THEN <<>> ELSE no) \o pw
<1>0. /\ SocksState /\ Stages /\ Packets5 /\ spc = "version" /\ conf \in Configurations /\ handled' = handled
      /\ Parsing /\ handled.kind # "stream" /\ ServerParse.st = "ok" /\ ServerParse.v.version = 5
  BY NotHandled DEF SocksIInv, HandleMethods, Parsing, SocksState
<1>1. cpc = HelloPc /\ rbuf = Hello /\ up = <<>> /\ down = <<>> /\ (~Version5Is => CanWriteRequest4(Request4))
  <2>1. cpc = HelloPc /\ rbuf = Hello /\ up = <<>>
    BY ONLY <1>0, ParsedIs
  <2>2. HelloPc \notin {"start", "failed"}
    BY DEF HelloPc
  <2> QED BY ONLY <1>0, <2>1, <2>2 DEF Stages, AtVersion
<1>2. ServerParse = ParseHello(Hello)
  BY ONLY <1>0, <1>1, ServerParseIs
<1>3. Version5Is
  <2>1. ASSUME ~Version5Is PROVE FALSE
    <3> DEFINE R == [Command |-> Command, Username |-> username, Destination |-> Unwrap(Address4)]
    <3> HIDE DEF R
    <3>1. ServerParse \in {More, Got([version |-> 4, request |-> R], <<>>)}
      BY ONLY <1>0, <1>1, <1>2, <2>1, Hello4Is DEF R
    <3>2. ServerParse = Got([version |-> 4, request |-> R], <<>>)
      BY ONLY <1>0, <3>1, MoreIs
    <3>3. ServerParse.v = [version |-> 4, request |-> R]
      BY ONLY <3>2, GotFields
    <3>4. ServerParse.v.version = 4
      BY ONLY <3>3
    <3> QED BY ONLY <1>0, <3>4
  <2> QED BY ONLY <2>1
<1>4. ServerParse.v = [version |-> 5, methods |-> <<Method>>] /\ ServerParse.rest = <<>>
  BY ONLY <1>2, <1>3, Hello5Is, GotFields
<1>5. offered = {Method}
  <2>1. ms = <<Method>>
    BY ONLY <1>4
  <2> HIDE DEF ms
  <2> QED BY ONLY <2>1
<1>6. pw \in Stream /\ no \in Stream /\ free \in Stream /\ <<>> \in Stream
  <2>1. AuthTypeNoAcceptedMethods \in Nat /\ AuthTypeUsernamePassword \in Nat /\ AuthTypeNotRequired \in Nat /\ <<>> \in Stream
    BY Pieces DEF AuthTypeNoAcceptedMethods, AuthTypeUsernamePassword, AuthTypeNotRequired
  <2> QED BY ONLY <2>1, AuthResponseRead
<1>7. both = Offer /\ Offer \in Stream
  <2> HIDE DEF offered
  <2>1. CASE Method = AuthTypeUsernamePassword
    <3>1. both = Cat(<<>>, pw) /\ Offer = pw
      BY ONLY <1>5, <2>1 DEF Offer, Cat
    <3> HIDE DEF both, pw
    <3> QED BY ONLY <1>6, <3>1, EmptyCat
  <2>2. CASE Method # AuthTypeUsernamePassword
    <3>1. both = Cat(no, pw) /\ Offer = Cat(no, pw)
      BY ONLY <1>5, <2>2 DEF Offer, Cat
    <3> HIDE DEF both, pw, no
    <3> QED BY ONLY <1>6, <3>1, CatStream
  <2> QED BY ONLY <2>1, <2>2
<1>8. IF conf.users # {} THEN ServerGoesOn("auth", suser, both) ELSE ServerGoesOn("request", suser, free)
  BY Zenon DEF HandleMethods
<1> HIDE DEF both, free
<1>9. /\ IF conf.users # {} THEN spc' = "auth" /\ down' = Offer ELSE spc' = "request" /\ down' = free
      /\ suser' = suser /\ rbuf' = <<>>
      /\ UNCHANGED <<conf, cpc, cconn, cgot, up, sconn, tpc, responseWritten, sgot>> /\ UNCHANGED packetVars
  <2>1. CASE conf.users # {}
    <3>1. ServerGoesOn("auth", suser, both) /\ both \in Stream
      BY ONLY <1>7, <1>8, <2>1
    <3> QED BY ONLY <1>1, <1>4, <1>7, <2>1, <3>1, GoesOn
  <2>2. CASE ~(conf.users # {})
    <3>1. ServerGoesOn("request", suser, free)
      BY ONLY <1>8, <2>2
    <3> QED BY ONLY <1>1, <1>4, <1>6, <2>2, <3>1, GoesOn
  <2> QED BY ONLY <2>1, <2>2
<1>10. (Version5Is' <=> Version5Is) /\ Offer' = Offer /\ cpc = "method"
  BY ONLY <1>1, <1>3, <1>9, SameTerms DEF HelloPc
<1>11. SocksState'
  BY ONLY <1>0, <1>9, <1>10 DEF SocksState
<1>12. AtAuth' /\ AtRequest5'
  BY ONLY <1>1, <1>3, <1>9, <1>10 DEF AtAuth, AtRequest5, Idle, free
<1>13. NoHandler'
  BY ONLY <1>0, <1>9, <1>10 DEF Stages, NoHandler, AllIdle
<1>14. AtVersion' /\ Refused' /\ Associating' /\ Served' /\ Calling' /\ Failing' /\ Serving'
  BY ONLY <1>0, <1>9 DEF AtVersion, Refused, Associating, Served, Calling, Failing, Serving
<1>15. Packets5'
  BY ONLY <1>0, <1>9, PacketsKept
<1> QED BY ONLY <1>11, <1>12, <1>13, <1>14, <1>15 DEF SocksIInv, Stages

LEMMA HandlePasswordStep ==
  ASSUME SocksIInv, HandlePassword
  PROVE  SocksIInv'
<1> DEFINE yes == WriteUsernamePasswordAuthResponse(UsernamePasswordStatusSuccess)
           no == WriteUsernamePasswordAuthResponse(UsernamePasswordStatusFailure)
           r == ServerParse.v
<1>0. /\ SocksState /\ Stages /\ Packets5 /\ spc = "auth" /\ conf \in Configurations /\ handled' = handled
      /\ Parsing /\ handled.kind # "stream" /\ ServerParse.st = "ok"
  BY NotHandled DEF SocksIInv, HandlePassword, Parsing, SocksState
<1>1. cpc = "status" /\ rbuf = Password /\ up = <<>> /\ down = <<>> /\ Version5Is
  <2>1. cpc = "status" /\ rbuf = Password /\ up = <<>>
    BY ONLY <1>0, ParsedIs
  <2> QED BY ONLY <1>0, <2>1 DEF Stages, AtAuth
<1>2. ServerParse = Got([Username |-> username, Password |-> password], <<>>)
  BY ONLY <1>0, <1>1, ServerParseIs, PasswordIs
<1>3. r = [Username |-> username, Password |-> password] /\ ServerParse.rest = <<>>
  BY ONLY <1>2, GotFields
<1>4. r.Username = username /\ r.Password = password
  BY ONLY <1>3
<1>5. yes \in Stream /\ no \in Stream
  <2>1. UsernamePasswordStatusSuccess \in Nat /\ UsernamePasswordStatusFailure \in Nat /\ <<>> \in Stream
    BY Pieces DEF UsernamePasswordStatusSuccess, UsernamePasswordStatusFailure
  <2> QED BY ONLY <2>1, StatusRead
<1>6. IF Verify(r.Username, r.Password) THEN ServerGoesOn("request", r.Username, yes)
      ELSE ServerGoesOn("error", r.Username, no)
  BY DEF HandlePassword
<1>7. Verify(r.Username, r.Password) <=> Known
  BY ONLY <1>1, <1>4 DEF Known
<1>8. IF Known THEN ServerGoesOn("request", username, yes) ELSE ServerGoesOn("error", username, no)
  BY ONLY <1>4, <1>6, <1>7
<1> HIDE DEF yes, no, r
<1>9. sconn # "closed"
  BY ONLY <1>0 DEF SocksState
<1>10. CASE Known
  <2>1. ServerGoesOn("request", username, yes)
    BY ONLY <1>8, <1>10
  <2>2. /\ spc' = "request" /\ suser' = username /\ down' = yes /\ rbuf' = <<>>
        /\ UNCHANGED <<conf, cpc, cconn, cgot, up, sconn, tpc, responseWritten, sgot>> /\ UNCHANGED packetVars
    BY ONLY <1>1, <1>3, <1>5, <2>1, GoesOn
  <2>3. (Version5Is' <=> Version5Is) /\ (Known' <=> Known) /\ username' = username
    BY ONLY <2>2, SameTerms
  <2>4. SocksState'
    BY ONLY <1>0, <1>9, <2>2, <2>3 DEF SocksState
  <2>5. AtRequest5'
    BY ONLY <1>1, <1>10, <2>2, <2>3 DEF AtRequest5, Idle, yes
  <2>6. NoHandler'
    BY ONLY <1>0, <1>1, <2>2 DEF Stages, NoHandler, AllIdle
  <2>7. AtVersion' /\ AtAuth' /\ Refused' /\ Associating' /\ Served' /\ Calling' /\ Failing' /\ Serving'
    BY ONLY <1>0, <2>2 DEF AtVersion, AtAuth, Refused, Associating, Served, Calling, Failing, Serving
  <2>8. Packets5'
    BY ONLY <1>0, <2>2, PacketsKept
  <2> QED BY ONLY <2>4, <2>5, <2>6, <2>7, <2>8 DEF SocksIInv, Stages
<1>11. CASE ~Known
  <2>1. ServerGoesOn("error", username, no)
    BY ONLY <1>8, <1>11
  <2>2. /\ spc' = "error" /\ down' = no
        /\ UNCHANGED <<conf, cpc, cconn, cgot, up, sconn, tpc, responseWritten, sgot>> /\ UNCHANGED packetVars
    BY ONLY <1>1, <1>5, <2>1, GoesOn
  <2>3. Refused'
    BY ONLY <1>1, <2>2 DEF Refused, no
  <2>4. SocksState' /\ Stages'
    BY ONLY <1>0, <1>9, <2>2, <2>3, Rejected
  <2>5. Packets5'
    BY ONLY <1>0, <2>2, PacketsKept
  <2> QED BY ONLY <2>4, <2>5 DEF SocksIInv
<1> QED BY ONLY <1>10, <1>11

LEMMA HandleRequest5Step ==
  ASSUME SocksIInv, HandleRequest5
  PROVE  SocksIInv'
<1> DEFINE r == ServerParse.v
           yes == WriteResponse5(ReplyCodeSuccess, Unwrap(conf.bind))
           no == WriteResponse5(ReplyCodeUnsupported, Invalid)
<1>0. /\ SocksState /\ Stages /\ Packets5 /\ spc = "request" /\ conf \in Configurations
      /\ Parsing /\ handled.kind # "stream" /\ ServerParse.st = "ok"
  BY NotHandled DEF SocksIInv, HandleRequest5, Parsing, SocksState
<1>1. /\ cpc = "reply5" /\ rbuf = WriteRequest5(Request5) /\ up = <<>> /\ down = <<>> /\ Version5Is
      /\ CanWriteRequest5(Request5) /\ (conf.users # {} => suser = username /\ Known)
  <2>1. cpc = "reply5" /\ rbuf = WriteRequest5(Request5) /\ up = <<>>
    BY ONLY <1>0, ParsedIs
  <2> QED BY ONLY <1>0, <2>1 DEF Stages, AtRequest5
<1>2. ServerParse = ReadRequest5(WriteRequest5(Request5))
  BY ONLY <1>0, <1>1, ServerParseIs
<1>3. r.Command = Command /\ SocksStringFits(conf.destination.Fqdn)
  BY ONLY <1>0, <1>1, <1>2, Request5Is
<1>4. conf.op # "udp" => r.Destination = Unwrap(conf.destination) /\ ServerParse.rest = <<>>
  <2> SUFFICES ASSUME conf.op # "udp" PROVE r.Destination = Unwrap(conf.destination) /\ ServerParse.rest = <<>>
    OBVIOUS
  <2>1. ServerParse = Got([Command |-> Command, Destination |-> Unwrap(conf.destination)], <<>>)
    BY ONLY <1>0, <1>1, <1>2, conf.op # "udp", Request5Is
  <2>2. r = [Command |-> Command, Destination |-> Unwrap(conf.destination)] /\ ServerParse.rest = <<>>
    BY ONLY <2>1, GotFields
  <2> HIDE DEF r
  <2> QED BY ONLY <2>2
<1>5. yes \in Stream /\ no \in Stream /\ <<>> \in Stream
  <2>1. ReplyCodeSuccess \in Nat /\ ReplyCodeUnsupported \in Nat /\ <<>> \in Stream
    BY Pieces DEF ReplyCodeSuccess, ReplyCodeUnsupported
  <2>2. no \in Stream
    BY ONLY <2>1, InvalidIs, Response5Read
  <2>3. conf.bind \in Socksaddrs /\ conf.bind.Addr # <<>>
    BY ONLY <1>0, ConfIs
  <2>4. Unwrap(conf.bind) \in Socksaddrs /\ CanWriteAddress(SocksaddrSerializer, Unwrap(conf.bind))
    BY ONLY <2>3, BindIs
  <2>5. yes \in Stream
    BY ONLY <2>1, <2>4, Response5Read
  <2> QED BY ONLY <2>1, <2>2, <2>5
<1>6. sconn # "closed" /\ ReplyPc = "reply5"
  BY ONLY <1>0, <1>1 DEF SocksState, ReplyPc
<1>7. /\ r.Command = CommandConnect => Handler(5, suser, r.Destination) /\ ServerGoesOn("handler", suser, <<>>)
      /\ r.Command = CommandUDPAssociate =>
           /\ ServerGoesOn("error", suser, <<>>) \/ ServerGoesOn("packet", suser, yes)
           /\ handled' = handled
      /\ r.Command \notin {CommandConnect, CommandUDPAssociate} =>
           ServerGoesOn("error", suser, no) /\ handled' = handled
  <2>1. CommandConnect # CommandUDPAssociate
    BY DEF CommandConnect, CommandUDPAssociate
  <2> QED BY <2>1 DEF HandleRequest5
<1> HIDE DEF yes, no, r
<1>8. /\ Command = CommandConnect <=> conf.op = "tcp"
      /\ Command = CommandUDPAssociate <=> conf.op = "udp"
  BY ONLY <1>0, CommandIs
<1>9. ASSUME NEW b \in Stream, ServerGoesOn("error", suser, b), handled' = handled,
             conf.op = "udp" \/ b = no
      PROVE  SocksIInv'
  <2>1. /\ spc' = "error" /\ down' = b
        /\ UNCHANGED <<conf, cpc, cconn, cgot, up, sconn, tpc, responseWritten, sgot>> /\ UNCHANGED packetVars
    BY ONLY <1>1, <1>9, GoesOn
  <2>2. Refused'
    BY ONLY <1>1, <1>9, <2>1 DEF Refused, no
  <2>3. SocksState' /\ Stages'
    BY ONLY <1>0, <1>6, <1>9, <2>1, <2>2, Rejected
  <2>4. Packets5'
    BY ONLY <1>0, <2>1, PacketsKept
  <2> QED BY ONLY <2>3, <2>4 DEF SocksIInv
<1>10. CASE conf.op = "tcp"
  <2>1. Handler(5, suser, r.Destination) /\ ServerGoesOn("handler", suser, <<>>)
    BY ONLY <1>3, <1>7, <1>8, <1>10
  <2>2. Wanted = Unwrap(conf.destination)
    BY ONLY <1>1 DEF Wanted, Version5Is
  <2>3. handled' = [kind |-> "stream", version |-> IF Version5Is THEN 5 ELSE 4, user |-> suser, destination |-> Wanted]
    BY ONLY <1>1, <1>4, <1>10, <2>1, <2>2 DEF Handler
  <2>4. /\ spc' = "handler" /\ down' = <<>> /\ rbuf' = <<>> /\ up' = <<>>
        /\ UNCHANGED <<conf, cpc, cconn, cgot, sconn, tpc, sgot>> /\ UNCHANGED packetVars
    <3>1. /\ spc' = "handler" /\ down' = <<>> /\ rbuf' = ServerParse.rest
          /\ UNCHANGED <<conf, cpc, cconn, cgot, up, sconn, tpc, responseWritten, sgot>> /\ UNCHANGED packetVars
      BY ONLY <1>1, <1>5, <2>1, GoesOn
    <3> QED BY ONLY <1>1, <1>4, <1>10, <3>1
  <2>5. SocksState' /\ Stages'
    BY ONLY <1>0, <1>1, <1>6, <1>10, <2>3, <2>4, Called
  <2>6. Packets5'
    BY ONLY <1>0, <2>4, PacketsKept
  <2> QED BY ONLY <2>5, <2>6 DEF SocksIInv
<1>11. CASE conf.op = "bind"
  <2>1. ServerGoesOn("error", suser, no) /\ handled' = handled
    BY ONLY <1>3, <1>7, <1>8, <1>11
  <2> QED BY ONLY <1>5, <1>9, <2>1
<1>12. CASE conf.op = "udp"
  <2>1. (ServerGoesOn("error", suser, <<>>) \/ ServerGoesOn("packet", suser, yes)) /\ handled' = handled
    BY ONLY <1>3, <1>7, <1>8, <1>12
  <2>2. CASE ServerGoesOn("error", suser, <<>>)
    BY ONLY <1>5, <1>9, <1>12, <2>1, <2>2
  <2>3. CASE ServerGoesOn("packet", suser, yes)
    <3>1. /\ spc' = "packet" /\ handled' = handled
          /\ UNCHANGED <<conf, cpc, cconn, cgot, up, sconn, tpc, responseWritten, sgot>> /\ UNCHANGED packetVars
      BY ONLY <1>1, <1>5, <2>1, <2>3, GoesOn
    <3>2. (Version5Is' <=> Version5Is)
      BY ONLY <3>1, SameTerms
    <3>3. SocksState'
      BY ONLY <1>0, <1>6, <3>1, <3>2 DEF SocksState
    <3>4. Associating' /\ NoHandler'
      BY ONLY <1>0, <1>1, <1>3, <1>12, <3>1 DEF Stages, Associating, NoHandler, AllIdle
    <3>5. AtVersion' /\ AtAuth' /\ AtRequest5' /\ Refused' /\ Served' /\ Calling' /\ Failing' /\ Serving'
      BY ONLY <1>0, <3>1 DEF AtVersion, AtAuth, AtRequest5, Refused, Served, Calling, Failing, Serving
    <3>6. Packets5'
      BY ONLY <1>0, <3>1, PacketsKept
    <3> QED BY ONLY <3>3, <3>4, <3>5, <3>6 DEF SocksIInv, Stages
  <2> QED BY ONLY <2>1, <2>2, <2>3
<1> QED BY ONLY <1>0, <1>10, <1>11, <1>12, ConfIs

-----------------------------------------------------------------------------
\* The handler's steps.
LEMMA LazyIs ==
  ASSUME UNCHANGED lazyUnchanged
  PROVE  UNCHANGED <<conf, cpc, cconn, cgot, up, rbuf, suser, handled, sgot>> /\ UNCHANGED packetVars
BY DEF lazyUnchanged, clientVars

LEMMA ServedKept ==
  ASSUME Stages, handled.kind = "stream", UNCHANGED <<conf, cpc, cconn, cgot, up, rbuf, suser, handled, sgot>>,
         spc' \in {"handler", "serving", "closed"}
  PROVE  Served'
<1>1. (Version5Is' <=> Version5Is) /\ (Known' <=> Known) /\ username' = username /\ Wanted' = Wanted
  BY SameTerms
<1> QED BY <1>1 DEF Stages, Served

\* The handler has the connection and uses it.
LEMMA Used ==
  ASSUME SocksState, handled.kind = "stream", sconn # "closed", spc' = "serving",
         UNCHANGED <<conf, cpc, cconn, cgot, handled, sconn>>,
         tpc' \in [Directions -> {"idle", "check", "respond", "io", "end"}], Served', Serving'
  PROVE  SocksState' /\ Stages'
<1>1. (Version5Is' <=> Version5Is)
  BY SameTerms
<1>2. SocksState'
  BY <1>1 DEF SocksState
<1>3. AtVersion' /\ AtAuth' /\ AtRequest5' /\ Refused' /\ Associating' /\ NoHandler' /\ Calling' /\ Failing'
  BY DEF AtVersion, AtAuth, AtRequest5, Refused, Associating, NoHandler, Calling, Failing
<1> QED BY ONLY <1>2, <1>3, Served', Serving' DEF Stages

LEMMA HandlerIs ==
  ASSUME SocksState, Stages, spc = "handler"
  PROVE  /\ handled.kind = "stream" /\ sconn # "closed" /\ down = <<>> /\ AllIdle /\ cpc = ReplyPc
         /\ handled.version = IF Version5Is THEN 5 ELSE 4
<1>1. handled.kind = "stream"
  BY DEF Stages, NoHandler
<1> QED BY <1>1 DEF Stages, Served, Calling, SocksState

LEMMA ConnHandshakeSuccessStep ==
  ASSUME SocksIInv, ConnHandshakeSuccess
  PROVE  SocksIInv'
<1> DEFINE w == SuccessReply(conf.bind)
<1>0. SocksState /\ Stages /\ Packets5 /\ spc = "handler" /\ conf.plan[1] = "success" /\ conf \in Configurations
  BY DEF SocksIInv, ConnHandshakeSuccess, SocksState
<1>1. /\ handled.kind = "stream" /\ sconn # "closed" /\ down = <<>> /\ AllIdle /\ cpc = ReplyPc
      /\ handled.version = IF Version5Is THEN 5 ELSE 4
  BY ONLY <1>0, HandlerIs
<1>2. /\ UNCHANGED <<conf, cpc, cconn, cgot, up, rbuf, suser, handled, sgot>> /\ UNCHANGED packetVars
      /\ sconn' = sconn
      /\ down' = Cat(down, w) /\ responseWritten' = TRUE /\ spc' = "serving" /\ tpc' = [t \in Directions |-> "check"]
  BY LazyIs DEF ConnHandshakeSuccess, Cat
<1>3. w \in Stream /\ <<>> \in Stream
  BY ONLY <1>0, <1>1, Pieces, SuccessIs
<1> HIDE DEF w
<1>4. down' = Cat(w, <<>>)
  BY ONLY <1>1, <1>2, <1>3, EmptyCat
<1>5. Written' = <<>> /\ w' = w /\ ReplyPc' = ReplyPc
  <2>1. tpc'["write"] = "check"
    BY ONLY <1>2 DEF Directions
  <2> QED BY ONLY <1>2, <2>1, SameTerms, SameReplies DEF Written, w
<1>6. Serving'
  <2>1. \A t \in Directions : tpc'[t] \in {"check", "io", "end"}
    BY ONLY <1>2
  <2>2. down' = Cat(w', Written')
    BY ONLY <1>4, <1>5
  <2> QED BY ONLY <1>0, <1>1, <1>2, <1>5, <2>1, <2>2 DEF Serving, w
<1>7. tpc' \in [Directions -> {"idle", "check", "respond", "io", "end"}]
  BY ONLY <1>2
<1>8. Served'
  BY ONLY <1>0, <1>1, <1>2, ServedKept
<1>9. SocksState' /\ Stages'
  BY ONLY <1>0, <1>1, <1>2, <1>6, <1>7, <1>8, Used
<1>10. Packets5'
  BY ONLY <1>0, <1>2, PacketsKept
<1> QED BY ONLY <1>9, <1>10 DEF SocksIInv

LEMMA HandshakeFailureStep ==
  ASSUME SocksIInv, HandshakeFailure
  PROVE  SocksIInv'
<1> DEFINE w == FailureReply(conf.plan[2])
<1>0. SocksState /\ Stages /\ Packets5 /\ spc = "handler" /\ conf.plan[1] = "failure" /\ conf \in Configurations
  BY DEF SocksIInv, HandshakeFailure, SocksState
<1>1. /\ handled.kind = "stream" /\ sconn # "closed" /\ down = <<>> /\ AllIdle /\ cpc = ReplyPc
      /\ handled.version = IF Version5Is THEN 5 ELSE 4
  BY ONLY <1>0, HandlerIs
<1>2. /\ UNCHANGED <<conf, cpc, cconn, cgot, up, rbuf, suser, handled, sgot>> /\ UNCHANGED packetVars
      /\ down' = Cat(down, w) /\ spc' = "closed" /\ sconn' = "closed" /\ tpc' = tpc
  BY LazyIs DEF HandshakeFailure, Cat
<1>3. w \in Stream
  <2>1. ReplyCodeRejectedOrFailed \in Nat
    BY DEF ReplyCodeRejectedOrFailed
  <2>2. WriteResponse4(ReplyCodeRejectedOrFailed, Invalid) \in Stream
    BY ONLY <2>1, Response4Short
  <2> DEFINE c == ReplyCodeForError(conf.plan[2])
  <2>3. c \in Nat /\ <<>> \in Stream
    BY Pieces DEF ReplyCodeForError
  <2>4. WriteResponse5(c, Invalid) \in Stream
    <3> HIDE DEF c
    <3> QED BY ONLY <2>3, InvalidIs, Response5Read
  <2> QED BY ONLY <2>2, <2>4 DEF FailureReply
<1> HIDE DEF w
<1>4. down' = w
  BY ONLY <1>1, <1>2, <1>3, EmptyCat
<1>5. (Version5Is' <=> Version5Is) /\ ReplyPc' = ReplyPc /\ w' = w /\ AllIdle'
  BY ONLY <1>1, <1>2, SameTerms, SameReplies DEF w, AllIdle
<1>6. Failing'
  BY ONLY <1>0, <1>1, <1>2, <1>4, <1>5 DEF Failing, w
<1>7. SocksState'
  BY ONLY <1>0, <1>2, <1>5 DEF SocksState
<1>8. Served'
  BY ONLY <1>0, <1>1, <1>2, ServedKept
<1>9. AtVersion' /\ AtAuth' /\ AtRequest5' /\ Refused' /\ Associating' /\ NoHandler' /\ Calling' /\ Serving'
  BY ONLY <1>1, <1>2 DEF AtVersion, AtAuth, AtRequest5, Refused, Associating, NoHandler, Calling, Serving
<1>10. Packets5'
  BY ONLY <1>0, <1>2, PacketsKept
<1> QED BY ONLY <1>6, <1>7, <1>8, <1>9, <1>10 DEF SocksIInv, Stages

LEMMA HandlerStartsStep ==
  ASSUME SocksIInv, HandlerStarts
  PROVE  SocksIInv'
<1>0. SocksState /\ Stages /\ Packets5 /\ spc = "handler" /\ conf.plan[1] = "lazy"
  BY DEF SocksIInv, HandlerStarts
<1>1. handled.kind = "stream" /\ sconn # "closed" /\ cpc = ReplyPc
  BY ONLY <1>0, HandlerIs
<1>2. /\ UNCHANGED <<conf, cpc, cconn, cgot, up, rbuf, suser, handled, sgot>> /\ UNCHANGED packetVars
      /\ sconn' = sconn /\ spc' = "serving" /\ tpc' = [t \in Directions |-> "check"]
  BY LazyIs DEF HandlerStarts
<1>3. Serving'
  <2>1. ReplyPc' = ReplyPc
    BY ONLY <1>2, SameTerms
  <2> QED BY ONLY <1>0, <1>1, <1>2, <2>1 DEF Serving
<1>4. tpc' \in [Directions -> {"idle", "check", "respond", "io", "end"}]
  BY ONLY <1>2
<1>5. Served'
  BY ONLY <1>0, <1>1, <1>2, ServedKept
<1>6. SocksState' /\ Stages'
  BY ONLY <1>0, <1>1, <1>2, <1>3, <1>4, <1>5, Used
<1>7. Packets5'
  BY ONLY <1>0, <1>2, PacketsKept
<1> QED BY ONLY <1>6, <1>7 DEF SocksIInv

\* A direction that is used is one of a handler that has the connection.
LEMMA Using ==
  ASSUME SocksState, Stages, NEW t \in Directions, tpc[t] # "idle"
  PROVE  handled.kind = "stream" /\ spc = "serving" /\ sconn # "closed"
<1>1. ~AllIdle
  BY DEF AllIdle
<1>2. handled.kind = "stream"
  BY <1>1 DEF Stages, NoHandler
<1>3. spc = "serving"
  BY <1>1, <1>2 DEF Stages, Served, Calling, Failing
<1> QED BY ONLY <1>2, <1>3, SocksState DEF SocksState

LEMMA LazyCheckStep ==
  ASSUME SocksIInv, NEW t \in Directions, LazyCheck(t)
  PROVE  SocksIInv'
<1>0. SocksState /\ Stages /\ Packets5 /\ tpc[t] = "check"
  BY DEF SocksIInv, LazyCheck
<1>1. handled.kind = "stream" /\ spc = "serving" /\ sconn # "closed"
  BY ONLY <1>0, t \in Directions, Using
<1>2. /\ UNCHANGED <<conf, cpc, cconn, cgot, up, rbuf, suser, handled, sgot>> /\ UNCHANGED packetVars
      /\ UNCHANGED <<spc, sconn, down, responseWritten>>
      /\ tpc' = [tpc EXCEPT ![t] = IF responseWritten THEN "io" ELSE "respond"]
  BY LazyIs DEF LazyCheck
<1>3. tpc \in [Directions -> {"idle", "check", "respond", "io", "end"}]
  BY ONLY <1>0 DEF SocksState
<1>4. tpc' \in [Directions -> {"idle", "check", "respond", "io", "end"}]
  BY ONLY <1>2, <1>3
<1>5. /\ Written' = Written /\ ReplyPc' = ReplyPc /\ SuccessReply(conf.bind)' = SuccessReply(conf.bind)
      /\ tpc'["write"] = "end" <=> tpc["write"] = "end"
  <2>1. tpc'["write"] = "end" <=> tpc["write"] = "end"
    BY ONLY <1>0, <1>2, <1>3 DEF Directions
  <2>2. Written' = Written
    BY ONLY <2>1 DEF Written
  <2> QED BY ONLY <1>2, <2>1, <2>2, SameTerms, SameReplies
<1>6. responseWritten => \A d \in Directions : tpc[d] \in {"check", "io", "end"} => tpc'[d] \in {"check", "io", "end"}
  BY ONLY <1>2, <1>3
<1>7. Serving'
  BY ONLY <1>0, <1>1, <1>2, <1>5, <1>6 DEF Stages, Serving
<1>8. Served'
  BY ONLY <1>0, <1>1, <1>2, ServedKept
<1>9. SocksState' /\ Stages'
  BY ONLY <1>0, <1>1, <1>2, <1>4, <1>7, <1>8, Used
<1>10. Packets5'
  BY ONLY <1>0, <1>2, PacketsKept
<1> QED BY ONLY <1>9, <1>10 DEF SocksIInv

LEMMA LazyRespondStep ==
  ASSUME SocksIInv, NEW t \in Directions, LazyRespond(t)
  PROVE  SocksIInv'
<1>0. SocksState /\ Stages /\ Packets5 /\ tpc[t] = "respond"
  BY DEF SocksIInv, LazyRespond
<1>1. handled.kind = "stream" /\ spc = "serving" /\ sconn # "closed"
  BY ONLY <1>0, t \in Directions, Using
<1>2. /\ UNCHANGED <<conf, cpc, cconn, cgot, up, rbuf, suser, handled, sgot>> /\ UNCHANGED packetVars
      /\ UNCHANGED <<spc, sconn>> /\ tpc' = [tpc EXCEPT ![t] = "io"]
  BY LazyIs DEF LazyRespond
<1>3. tpc' \in [Directions -> {"idle", "check", "respond", "io", "end"}]
  BY ONLY <1>0, <1>2 DEF SocksState
<1>4. conf.plan[1] # "success"
  BY ONLY <1>0, <1>1, t \in Directions DEF Stages, Serving
<1>5. Serving'
  <2>1. ReplyPc' = ReplyPc
    BY ONLY <1>2, SameTerms
  <2> QED BY ONLY <1>0, <1>1, <1>2, <1>4, <2>1 DEF Stages, Serving
<1>6. Served'
  BY ONLY <1>0, <1>1, <1>2, ServedKept
<1>7. SocksState' /\ Stages'
  BY ONLY <1>0, <1>1, <1>2, <1>3, <1>5, <1>6, Used
<1>8. Packets5'
  BY ONLY <1>0, <1>2, PacketsKept
<1> QED BY ONLY <1>7, <1>8 DEF SocksIInv

LEMMA LazyReadStep ==
  ASSUME SocksIInv, LazyRead
  PROVE  SocksIInv'
<1>0. SocksState /\ Stages /\ Packets5 /\ tpc["read"] = "io" /\ up # <<>> /\ "read" \in Directions
  BY DEF SocksIInv, LazyRead, Directions
<1>1. handled.kind = "stream" /\ spc = "serving" /\ sconn # "closed"
  BY ONLY <1>0, Using
<1>2. /\ UNCHANGED <<conf, cpc, cconn, cgot, down, spc, sconn, rbuf, suser, handled, tpc, responseWritten>>
      /\ UNCHANGED packetVars /\ sgot' = Cat(sgot, up) /\ up' = <<>>
  BY DEF LazyRead, clientVars, Cat
<1>3. sgot = <<>> /\ up = Payload /\ cpc = "sent"
  BY ONLY <1>0, <1>1 DEF Stages, Served
<1>4. sgot' = Payload
  <2>1. Payload \in Stream
    BY Pieces DEF Payload
  <2> QED BY ONLY <1>2, <1>3, <2>1, EmptyCat
<1>5. (Version5Is' <=> Version5Is) /\ (Known' <=> Known) /\ username' = username /\ Wanted' = Wanted /\ ReplyPc' = ReplyPc
  BY ONLY <1>2, SameTerms
<1>6. Served'
  BY ONLY <1>0, <1>1, <1>2, <1>3, <1>4, <1>5 DEF Stages, Served
<1>7. Serving'
  <2>1. Written' = Written /\ SuccessReply(conf.bind)' = SuccessReply(conf.bind)
    BY ONLY <1>2, SameReplies DEF Written
  <2> QED BY ONLY <1>0, <1>2, <1>5, <2>1 DEF Stages, Serving
<1>8. tpc' \in [Directions -> {"idle", "check", "respond", "io", "end"}]
  BY ONLY <1>0, <1>2 DEF SocksState
<1>9. SocksState' /\ Stages'
  BY ONLY <1>0, <1>1, <1>2, <1>6, <1>7, <1>8, Used
<1>10. Packets5'
  BY ONLY <1>0, <1>2, PacketsKept
<1> QED BY ONLY <1>9, <1>10 DEF SocksIInv

LEMMA LazyWriteStep ==
  ASSUME SocksIInv, LazyWrite
  PROVE  SocksIInv'
<1> DEFINE w == SuccessReply(conf.bind)
<1>0. SocksState /\ Stages /\ Packets5 /\ tpc["write"] = "io" /\ "write" \in Directions /\ conf \in Configurations
  BY DEF SocksIInv, LazyWrite, Directions, SocksState
<1>1. handled.kind = "stream" /\ spc = "serving" /\ sconn # "closed"
  BY ONLY <1>0, Using
<1>2. /\ UNCHANGED <<conf, cpc, cconn, cgot, up, rbuf, suser, handled, sgot>> /\ UNCHANGED packetVars
      /\ UNCHANGED <<spc, sconn, responseWritten>>
      /\ down' = Cat(down, Data) /\ tpc' = [tpc EXCEPT !["write"] = "end"]
  BY LazyIs DEF LazyWrite, Cat
<1>3. tpc \in [Directions -> {"idle", "check", "respond", "io", "end"}]
  BY ONLY <1>0 DEF SocksState
<1>4. /\ tpc' \in [Directions -> {"idle", "check", "respond", "io", "end"}] /\ tpc'["write"] = "end"
      /\ \A d \in Directions : tpc[d] \in {"check", "io", "end"} => tpc'[d] \in {"check", "io", "end"}
  BY ONLY <1>0, <1>2, <1>3
<1>5. Written = <<>> /\ Written' = Data
  BY ONLY <1>0, <1>4 DEF Written
<1>6. w \in Stream /\ w' = w /\ ReplyPc' = ReplyPc /\ Data \in Stream /\ <<>> \in Stream
  <2>1. handled.version = IF Version5Is THEN 5 ELSE 4
    BY ONLY <1>0, <1>1 DEF Stages, Served
  <2>2. <<>> \in Stream
    BY Pieces
  <2> QED BY ONLY <1>0, <1>2, <2>1, <2>2, SuccessIs, SameTerms, SameReplies, WrittenIs
<1> HIDE DEF w
<1>7. conf.plan[1] = "success" =>
        \/ cpc = ReplyPc /\ down' = Cat(w, Data)
        \/ cpc # ReplyPc /\ cgot = <<>> /\ down' = Data
  <2> SUFFICES ASSUME conf.plan[1] = "success"
               PROVE  \/ cpc = ReplyPc /\ down' = Cat(w, Data)
                      \/ cpc # ReplyPc /\ cgot = <<>> /\ down' = Data
    OBVIOUS
  <2>1. \/ cpc = ReplyPc /\ down = Cat(w, <<>>)
        \/ cpc # ReplyPc /\ cgot = <<>> /\ down = <<>>
    BY ONLY <1>0, <1>1, <1>5, conf.plan[1] = "success" DEF Stages, Serving, w
  <2>2. Cat(w, <<>>) = w /\ Cat(<<>>, Data) = Data
    BY ONLY <1>6, EmptyCat
  <2> QED BY ONLY <1>2, <2>1, <2>2
<1>8. Serving'
  <2>1. conf.plan[1] \in {"success", "lazy"} /\ cpc \in {ReplyPc, "ok", "sent", "failed"}
    BY ONLY <1>0, <1>1 DEF Stages, Serving
  <2>2. conf.plan[1] = "success" =>
          /\ responseWritten /\ \A d \in Directions : tpc[d] \in {"check", "io", "end"}
          /\ cpc \in {ReplyPc, "ok", "sent"}
    BY ONLY <1>0, <1>1 DEF Stages, Serving
  <2> QED BY ONLY <1>2, <1>4, <1>5, <1>6, <1>7, <2>1, <2>2 DEF Serving, w
<1>9. Served'
  BY ONLY <1>0, <1>1, <1>2, ServedKept
<1>10. SocksState' /\ Stages'
  BY ONLY <1>0, <1>1, <1>2, <1>4, <1>8, <1>9, Used
<1>11. Packets5'
  BY ONLY <1>0, <1>2, PacketsKept
<1> QED BY ONLY <1>10, <1>11 DEF SocksIInv

-----------------------------------------------------------------------------
\* The steps of an association.
\* A datagram of the client is read as what it wrote.
LEMMA DatagramIs ==
  ASSUME Packets5, NEW p \in udp
  PROVE  ReadPacket(p).st = "ok" /\ \E w \in wrote : ReadPacket(p).v = Unwrap(w[1]) /\ ReadPacket(p).rest = w[2]
<1>1. PICK w \in wrote : p = WritePacket(w[1], w[2])
  BY DEF Packets5
<1>2. w[1] \in Socksaddrs /\ CanWriteAddress(SocksaddrSerializer, w[1]) /\ w[2] = Payload
  BY DEF Packets5
<1>3. w[2] \in Stream
  <2>1. Payload \in Stream
    BY Pieces DEF Payload
  <2> QED BY ONLY <1>2, <2>1
<1>4. ReadPacket(p) = Got(Unwrap(w[1]), w[2])
  BY ONLY <1>1, <1>2, <1>3, PacketRead
<1>5. ReadPacket(p).st = "ok" /\ ReadPacket(p).v = Unwrap(w[1]) /\ ReadPacket(p).rest = w[2]
  BY ONLY <1>4, GotFields
<1> QED BY ONLY <1>5

\* A packet that was read, from whomever, is as it was written.
AsWritten(x) ==
  \/ x[1] = "client" /\ \E w \in wrote : x[2] = Unwrap(w[1]) /\ x[3] = w[2]
  \/ x[1] = "stranger" /\ \E q \in Stray : LET r == ReadPacket(q)
                                            IN r.st = "ok" /\ x[2] = r.v /\ x[3] = r.rest
LEMMA PacketIs ==
  ASSUME Packets5, NEW sender \in DatagramSenders, NEW p \in SentBy(sender), ReadPacket(p).st = "ok"
  PROVE  AsWritten(<<sender, ReadPacket(p).v, ReadPacket(p).rest>>)
<1> DEFINE v == ReadPacket(p).v  rest == ReadPacket(p).rest  x == <<sender, v, rest>>
<1>0. x[1] = sender /\ x[2] = v /\ x[3] = rest
  OBVIOUS
<1>a. SUFFICES AsWritten(x)
  OBVIOUS
<1>1. CASE sender = "client"
  <2>1. p \in udp
    BY <1>1 DEF SentBy
  <2>2. PICK w \in wrote : v = Unwrap(w[1]) /\ rest = w[2]
    BY <2>1, DatagramIs
  <2> HIDE DEF v, rest, x
  <2> QED BY ONLY <1>0, <1>1, <2>2 DEF AsWritten
<1>2. CASE sender = "stranger"
  <2>1. p \in Stray
    BY <1>2 DEF SentBy
  <2>2. LET r == ReadPacket(p) IN r.st = "ok" /\ x[2] = r.v /\ x[3] = r.rest
    BY <1>0
  <2> HIDE DEF x
  <2> QED BY ONLY <1>0, <1>2, <2>1, <2>2 DEF AsWritten
<1> QED BY <1>1, <1>2 DEF DatagramSenders

LEMMA ClientSendsPacketStep ==
  ASSUME SocksIInv, ClientSendsPacket
  PROVE  SocksIInv'
<1>0. SocksState /\ Stages /\ Packets5 /\ conf \in Configurations
  BY DEF SocksIInv, SocksState
<1>1. UNCHANGED <<conf, cpc, cconn, cgot, up, down, serverVars>> /\ UNCHANGED <<remoteAddr, back, peer, received>>
  BY DEF ClientSendsPacket, clientVars
<1>2. PICK d \in {conf.destination, remoteAddr} :
        /\ CanWriteAddress(SocksaddrSerializer, d)
        /\ udp' = udp \cup {WritePacket(d, Payload)} /\ wrote' = wrote \cup {<<d, Payload>>}
  BY DEF ClientSendsPacket
<1>3. d \in Socksaddrs
  BY ONLY <1>0, ConfIs, d \in {conf.destination, remoteAddr} DEF Packets5
<1> DEFINE w == <<d, Payload>>
<1>4. w[1] = d /\ w[2] = Payload
  OBVIOUS
<1> HIDE DEF w
<1>5. ASSUME NEW p \in udp' PROVE \E v \in wrote' : p = WritePacket(v[1], v[2])
  <2>1. CASE p \in udp
    <3>1. PICK v \in wrote : p = WritePacket(v[1], v[2])
      BY ONLY <1>0, <2>1 DEF Packets5
    <3>2. v \in wrote'
      BY ONLY <1>2
    <3> QED BY ONLY <3>1, <3>2
  <2>2. CASE p = WritePacket(d, Payload)
    <3>1. w \in wrote'
      BY ONLY <1>2 DEF w
    <3> QED BY ONLY <1>4, <2>2, <3>1
  <2> QED BY ONLY <1>2, <1>5, <2>1, <2>2
<1>6. ASSUME NEW v \in wrote'
      PROVE  v[1] \in Socksaddrs /\ CanWriteAddress(SocksaddrSerializer, v[1]) /\ v[2] = Payload
  <2>1. CASE v \in wrote
    BY ONLY <1>0, <2>1 DEF Packets5
  <2>2. CASE v = w
    BY ONLY <1>2, <1>3, <1>4, <2>2
  <2> QED BY ONLY <1>2, <1>6, <2>1, <2>2 DEF w
<1>7. PacketsAsWritten'
  BY ONLY <1>0, <1>1, <1>2 DEF Packets5, PacketsAsWritten
<1>8. Packets5'
  BY ONLY <1>0, <1>1, <1>5, <1>6, <1>7 DEF Packets5
<1>9. SocksState' /\ Stages'
  BY ONLY <1>0, <1>1, StagesKept
<1> QED BY ONLY <1>8, <1>9 DEF SocksIInv

LEMMA HandlerReadsPacketStep ==
  ASSUME SocksIInv, HandlerReadsPacket
  PROVE  SocksIInv'
<1>0. SocksState /\ Stages /\ Packets5
  BY DEF SocksIInv
<1>1. UNCHANGED <<conf, cpc, cconn, cgot, up, down, serverVars>> /\ UNCHANGED <<remoteAddr, udp, back, wrote>>
  BY DEF HandlerReadsPacket, clientVars
<1> DEFINE Reads(sender, p) ==
      received' = IF ReadPacket(p).st = "ok"
                  THEN received \cup {<<sender, ReadPacket(p).v, ReadPacket(p).rest>>} ELSE received
<1>a. PICK sender \in DatagramSenders : \E p \in SentBy(sender) : Reads(sender, p)
  BY DEF HandlerReadsPacket
<1>2. PICK p \in SentBy(sender) : Reads(sender, p)
  BY <1>a
<1> DEFINE x == <<sender, ReadPacket(p).v, ReadPacket(p).rest>>
<1>3. ReadPacket(p).st = "ok" => AsWritten(x)
  BY ONLY <1>0, PacketIs
<1> HIDE DEF x
<1>4. \A y \in received' : AsWritten(y)
  BY ONLY <1>0, <1>2, <1>3 DEF Packets5, PacketsAsWritten, AsWritten, x
<1>5. PacketsAsWritten'
  BY ONLY <1>1, <1>4 DEF PacketsAsWritten, AsWritten
<1>6. Packets5'
  BY ONLY <1>0, <1>1, <1>5 DEF Packets5
<1>7. SocksState' /\ Stages'
  BY ONLY <1>0, <1>1, StagesKept
<1> QED BY ONLY <1>6, <1>7 DEF SocksIInv

LEMMA HandlerWritesPacketStep ==
  ASSUME SocksIInv, HandlerWritesPacket
  PROVE  SocksIInv'
<1>0. SocksState /\ Stages /\ Packets5 /\ spc = "associated" /\ conf \in Configurations
  BY DEF SocksIInv, HandlerWritesPacket, SocksState
<1>1. UNCHANGED <<conf, cpc, cconn, cgot, up, down, serverVars>> /\ UNCHANGED <<remoteAddr, udp, peer, wrote, received>>
  BY DEF HandlerWritesPacket, clientVars
<1>2. PICK a \in {conf.destination, conf.bind} : back' = {WritePacket(a, Data)}
  BY DEF HandlerWritesPacket
<1>3. CanWriteAddress(SocksaddrSerializer, a)
  <2>1. SocksStringFits(conf.destination.Fqdn)
    BY ONLY <1>0 DEF Stages, Associating
  <2>2. CanWriteAddress(SocksaddrSerializer, conf.destination)
    BY ONLY <1>0, <2>1, ConfIs, CanWriteValid
  <2>3. CanWriteAddress(SocksaddrSerializer, conf.bind)
    BY ONLY <1>0, ConfIs, BindIs
  <2> QED BY ONLY <2>2, <2>3, a \in {conf.destination, conf.bind}
<1>4. Packets5'
  BY ONLY <1>0, <1>1, <1>2, <1>3 DEF Packets5, PacketsAsWritten
<1>5. SocksState' /\ Stages'
  BY ONLY <1>0, <1>1, StagesKept
<1> QED BY ONLY <1>4, <1>5 DEF SocksIInv

LEMMA ClientReadsPacketStep ==
  ASSUME SocksIInv, ClientReadsPacket
  PROVE  SocksIInv'
<1>0. SocksState /\ Stages /\ Packets5 /\ conf \in Configurations
  BY DEF SocksIInv, SocksState
<1>1. UNCHANGED <<conf, cpc, cconn, cgot, up, down, serverVars>> /\ UNCHANGED <<udp, back, peer, wrote, received>>
  BY DEF ClientReadsPacket, clientVars
<1>2. PICK p \in back : remoteAddr' = ReadPacket(p).v
  BY DEF ClientReadsPacket
<1>3. PICK a \in {conf.destination, conf.bind} :
        p = WritePacket(a, Data) /\ CanWriteAddress(SocksaddrSerializer, a)
  BY ONLY <1>0 DEF Packets5
<1>4. a \in Socksaddrs
  BY ONLY <1>0, ConfIs, a \in {conf.destination, conf.bind}
<1>5. ReadPacket(p) = Got(Unwrap(a), Data)
  BY ONLY <1>3, <1>4, WrittenIs, PacketRead
<1>6. remoteAddr' \in Socksaddrs
  BY ONLY <1>2, <1>4, <1>5, GotFields, UnwrapAddress
<1>7. Packets5'
  BY ONLY <1>0, <1>1, <1>6 DEF Packets5, PacketsAsWritten
<1>8. SocksState' /\ Stages'
  BY ONLY <1>0, <1>1, StagesKept
<1> QED BY ONLY <1>7, <1>8 DEF SocksIInv

\* HandleConnectionEx gives up on the association.
LEMMA AssociationFails ==
  ASSUME SocksIInv, spc = "packet", spc' = "error",
         UNCHANGED <<conf, cpc, cconn, cgot, up, down, sconn, rbuf, suser, handled, tpc, responseWritten, sgot>>,
         UNCHANGED <<remoteAddr, udp, back, wrote, received>>
  PROVE  SocksIInv'
<1>0. SocksState /\ Stages /\ Packets5 /\ handled.kind # "stream"
  BY NotHandled DEF SocksIInv, SocksState
<1>1. conf.op = "udp" /\ cpc \in {"reply5", "dialudp", "ok", "failed"} /\ sconn # "closed"
  BY ONLY <1>0, spc = "packet" DEF Stages, Associating, SocksState
<1>2. Refused'
  BY <1>1 DEF Refused
<1>3. SocksState' /\ Stages'
  BY <1>0, <1>1, <1>2, Rejected
<1>4. Packets5'
  BY <1>0 DEF Packets5, PacketsAsWritten
<1> QED BY ONLY <1>3, <1>4 DEF SocksIInv

LEMMA FirstPacketTimesOutStep ==
  ASSUME SocksIInv, FirstPacketTimesOut
  PROVE  SocksIInv'
BY AssociationFails DEF FirstPacketTimesOut, clientVars, packetVars

LEMMA FirstPacketStep ==
  ASSUME SocksIInv, FirstPacket
  PROVE  SocksIInv'
<1>0. SocksState /\ Stages /\ Packets5 /\ spc = "packet" /\ handled.kind # "stream" /\ conf \in Configurations
  BY NotHandled DEF SocksIInv, FirstPacket, SocksState
<1>1. /\ UNCHANGED <<conf, cpc, cconn, cgot, up, down, sconn, rbuf, suser, tpc, responseWritten, sgot>>
      /\ UNCHANGED <<remoteAddr, udp, back, wrote>>
  BY DEF FirstPacket, clientVars
<1>2. conf.op = "udp" /\ cpc \in {"reply5", "dialudp", "ok", "failed"} /\ sconn # "closed"
  BY ONLY <1>0 DEF Stages, Associating, SocksState
<1> DEFINE Reads(sender, p) ==
      IF ReadPacket(p).st = "ok"
      THEN /\ received' = {<<sender, ReadPacket(p).v, ReadPacket(p).rest>>} /\ spc' = "associated"
           /\ handled' = [kind |-> "packet", version |-> 5, user |-> suser, destination |-> ReadPacket(p).v]
      ELSE spc' = "error" /\ UNCHANGED <<handled, received>>
<1>a. PICK sender \in DatagramSenders : \E p \in SentBy(sender) : Reads(sender, p)
  BY DEF FirstPacket
<1>3. PICK p \in SentBy(sender) : Reads(sender, p)
  BY <1>a
<1>4. CASE ReadPacket(p).st # "ok"
  BY ONLY <1>0, <1>1, <1>3, <1>4, SocksIInv, AssociationFails
<1>5. CASE ReadPacket(p).st = "ok"
  <2> DEFINE x == <<sender, ReadPacket(p).v, ReadPacket(p).rest>>
  <2>1. /\ received' = {x} /\ spc' = "associated"
        /\ handled' = [kind |-> "packet", version |-> 5, user |-> suser, destination |-> ReadPacket(p).v]
    BY ONLY <1>3, <1>5
  <2>2. AsWritten(x)
    BY ONLY <1>0, <1>5, PacketIs
  <2>3. handled'.kind = "packet"
    BY ONLY <2>1
  <2> HIDE DEF x
  <2>4. PacketsAsWritten'
    BY ONLY <1>1, <2>1, <2>2 DEF PacketsAsWritten, AsWritten
  <2>5. Packets5'
    BY ONLY <1>0, <1>1, <2>4 DEF Packets5
  <2>6. spc' = "associated"
    BY ONLY <2>1
  <2>7. (Version5Is' <=> Version5Is)
    BY ONLY <1>1, SameTerms
  <2>8. SocksState'
    BY ONLY <1>0, <1>1, <1>2, <2>3, <2>6, <2>7 DEF SocksState
  <2>9. Associating' /\ NoHandler'
    BY ONLY <1>0, <1>1, <1>2, <2>3, <2>6 DEF Stages, Associating, NoHandler, AllIdle
  <2>10. AtVersion' /\ AtAuth' /\ AtRequest5' /\ Refused' /\ Served' /\ Calling' /\ Failing' /\ Serving'
    BY ONLY <2>3, <2>6 DEF AtVersion, AtAuth, AtRequest5, Refused, Served, Calling, Failing, Serving
  <2> QED BY ONLY <2>5, <2>8, <2>9, <2>10 DEF SocksIInv, Stages
<1> QED BY ONLY <1>4, <1>5

-----------------------------------------------------------------------------
LEMMA SocksIInvInit ==
  ASSUME SocksInit
  PROVE  SocksIInv
<1>1. SocksState
  BY DEF SocksInit, SocksState, Nothing
<1>2. handled.kind # "stream" /\ AllIdle
  BY DEF SocksInit, Nothing, AllIdle
<1>3. AtVersion /\ NoHandler
  BY <1>2 DEF SocksInit, AtVersion, Idle, NoHandler
<1>4. AtAuth /\ AtRequest5 /\ Refused /\ Associating /\ Served /\ Calling /\ Failing /\ Serving
  BY <1>2 DEF SocksInit, AtAuth, AtRequest5, Refused, Associating, Served, Calling, Failing, Serving
<1>5. Packets5
  BY InvalidIs DEF SocksInit, Packets5, PacketsAsWritten
<1> QED BY ONLY <1>1, <1>3, <1>4, <1>5 DEF SocksIInv, Stages

\* One case per action, and none where nothing changes.
LEMMA SocksIInvStep ==
  ASSUME SocksIInv, [SocksNext]_socksVars
  PROVE  SocksIInv'
<1>1. CASE ClientStep
  BY ONLY <1>1, SocksIInv, DialContextStep, ClientMethodStep, ClientStatusStep, ClientReply5Step, ClientReply4Step,
          DialUDPStep DEF ClientStep
<1>2. CASE ServerStep
  BY ONLY <1>2, SocksIInv, FillStep, ServerReadFailsStep, HandleSocks4Step, HandleMethodsStep, HandlePasswordStep,
          HandleRequest5Step, CallerClosesStep, FirstPacketTimesOutStep DEF ServerStep
<1>3. CASE HandlerStep
  BY ONLY <1>3, SocksIInv, ConnHandshakeSuccessStep, HandshakeFailureStep, HandlerStartsStep DEF HandlerStep
<1>4. CASE \E t \in Directions : LazyStep(t)
  BY ONLY <1>4, SocksIInv, LazyCheckStep, LazyRespondStep DEF LazyStep
<1>5. CASE LazyRead \/ LazyWrite \/ ClientSendsPayload \/ ClientGetsPayload
  BY ONLY <1>5, SocksIInv, LazyReadStep, LazyWriteStep, ClientSendsPayloadStep, ClientGetsPayloadStep
<1>6. CASE ClientSendsPacket \/ FirstPacket \/ HandlerReadsPacket \/ HandlerWritesPacket \/ ClientReadsPacket
  BY ONLY <1>6, SocksIInv, ClientSendsPacketStep, FirstPacketStep, HandlerReadsPacketStep, HandlerWritesPacketStep,
          ClientReadsPacketStep
<1>7. CASE UNCHANGED socksVars
  <2>1. UNCHANGED <<conf, cpc, cconn, cgot, up, down, serverVars>> /\ UNCHANGED <<conf, packetVars>>
    BY ONLY <1>7 DEF socksVars, serverVars, packetVars
  <2> QED BY ONLY <2>1, SocksIInv, StagesKept, PacketsKept DEF SocksIInv
<1> QED BY ONLY <1>1, <1>2, <1>3, <1>4, <1>5, <1>6, <1>7, [SocksNext]_socksVars DEF SocksNext

LEMMA SocksIInvImplies ==
  ASSUME SocksIInv
  PROVE  SocksInv
<1>0. SocksState /\ Stages /\ Packets5 /\ conf \in Configurations
  BY DEF SocksIInv, SocksState
<1>1. handled.kind = "stream" =>
        /\ handled.destination = Wanted /\ rbuf = <<>>
        /\ conf.users # {} =>
             /\ handled.user = username
             /\ Verify(username, IF conf.version = "5" THEN password ELSE <<>>)
  BY ONLY <1>0 DEF Stages, Served, Known, Version5Is
<1>2. cpc \in {"ok", "sent"} /\ conf.op # "udp" =>
        conf.op = "tcp" /\ handled.kind = "stream" /\ conf.plan[1] \in {"success", "lazy"}
  <2> SUFFICES ASSUME cpc \in {"ok", "sent"}, conf.op # "udp"
               PROVE  conf.op = "tcp" /\ handled.kind = "stream" /\ conf.plan[1] \in {"success", "lazy"}
    OBVIOUS
  <2>1. handled.kind = "stream"
    BY <1>0 DEF Stages, NoHandler
  <2>2. conf.op = "tcp"
    BY ONLY <1>0, <2>1 DEF Stages, Served
  <2>3. spc = "serving"
    BY <1>0, <2>2, AtServing
  <2> QED BY ONLY <1>0, <2>1, <2>2, <2>3 DEF Stages, Serving
<1>3. sgot \in {<<>>, Payload}
  BY ONLY <1>0 DEF Stages, NoHandler, Served
<1>4. conf.plan[1] = "success" => cgot \in {<<>>, Data}
  <2>1. CASE cpc \in {"ok", "sent"} /\ conf.op = "tcp"
    <3>1. spc = "serving" /\ cpc # ReplyPc
      BY ONLY <1>0, <2>1, AtServing
    <3> QED BY ONLY <1>0, <3>1 DEF Stages, Serving
  <2>2. CASE cpc \in {"ok", "sent"} /\ conf.op # "tcp"
    BY ONLY <1>0, <2>2 DEF Stages, NoHandler, Served
  <2>3. CASE cpc \notin {"ok", "sent"}
    BY ONLY <1>0, <2>3 DEF SocksState
  <2> QED BY ONLY <2>1, <2>2, <2>3
<1>5. SocksAgree
  BY ONLY <1>0, <1>1, <1>2 DEF SocksAgree, SocksState
<1>6. SocksInSync
  BY ONLY <1>1, <1>3, <1>4 DEF SocksInSync
<1> QED BY ONLY <1>0, <1>5, <1>6 DEF SocksInv, Packets5

\* The invariant of the SOCKS handshakes: in each phase, what the server
\* waits for is what the client has sent or is about to send, whole, and what
\* is on its way back is one reply and nothing else.
THEOREM SocksInvariance == SocksSpec => []SocksIInv
<1>1. SocksInit => SocksIInv
  BY SocksIInvInit
<1>2. SocksIInv /\ [SocksNext]_socksVars => SocksIInv'
  BY SocksIInvStep
<1> QED BY <1>1, <1>2, PTL DEF SocksSpec

\* The two ends of SOCKS agree, in every version, for every address, user and
\* name: the handler is called for the destination and the user that the
\* client was asked for, DialContext and HandleConnectionEx never mistake one
\* message for another, and a packet is read with the destination it had.
THEOREM SocksEndsAgree == SocksSpec => []SocksInv
<1>1. SocksIInv => SocksInv
  BY SocksIInvImplies
<1> QED BY <1>1, SocksInvariance, PTL
=============================================================================
