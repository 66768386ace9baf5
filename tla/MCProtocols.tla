----------------------------- MODULE MCProtocols ------------------------------
(***************************************************************************)
(* The protocols, one at a time: a SOCKS client and server, a UDP-over-TCP *)
(* stream, and an HTTP proxy with its client.                              *)
(***************************************************************************)
EXTENDS Socks, Uot, HttpProxy

Global4 == IP(<<8, 8, 8, 8>>, 443)
Global6 == IP(<<32, 1>> \o Zeros(13) \o <<1>>, 80)
In6 == IP(Mapped \o <<8, 8, 8, 8>>, 443)     \* an IPv4 address in IPv6
ShortName == Domain(<<97, 98>>, 53)
LongName == Domain([i \in 1 .. 256 |-> 97], 53)
Bind4 == IP(<<10, 0, 0, 1>>, 1000)
ResolvedTo == <<9, 9, 9, 9>>

SocksConf(version, op, destination, credentials, users, plan, bind, udpTimeout) ==
  [version |-> version, op |-> op, destination |-> destination, credentials |-> credentials,
   users |-> users, plan |-> plan, bind |-> bind, udpTimeout |-> udpTimeout]
Anyone == <<<<>>, <<>>>>
UserP == <<<<117>>, <<112>>>>
Users == {UserP, <<<<119>>, <<>>>>}
SocksPlans == {<<"success">>, <<"lazy">>, <<"failure", "ECONNREFUSED">>}

\* Every version, kind of address, and outcome of the authentication; the
\* plans of the handler; and UDP.
MCConfigurations ==
  {SocksConf(v, "tcp", a, c, u, <<"success">>, Bind4, TRUE) :
     v \in {"4", "4a", "5"}, a \in {Global4, Global6, In6, ShortName, LongName},
     c \in Users \cup {Anyone, <<<<117>>, <<119>>>>}, u \in {{}, Users}}
  \cup {SocksConf(v, op, Global4, Anyone, {}, p, b, TRUE) :
          v \in {"4", "5"}, op \in {"tcp", "bind"}, p \in SocksPlans, b \in {Bind4, Global6}}
  \cup {SocksConf(v, "udp", a, UserP, {UserP}, <<"success">>, Bind4, t) :
          v \in {"4a", "5"}, a \in {Global4, Global6, In6, ShortName}, t \in BOOLEAN}
\* A stranger's datagrams: one too short for a header, and one like the client's.
MCStray == {<<0, 0>>, WritePacket(ShortName, Data)}
FirstConf == SocksConf("5", "tcp", Global4, Anyone, {}, <<"success">>, Bind4, TRUE)

UotConf(version, isConnect, early, server, destination, peers, capacity) ==
  [version |-> version, isConnect |-> isConnect, early |-> early, server |-> server,
   destination |-> destination, peers |-> peers, capacity |-> capacity]
FirstUot == UotConf(2, FALSE, TRUE, "conn", Invalid, {Invalid, Global4}, 1)
MCUotConfigurations ==
  {UotConf(2, c, e, "conn", d, {d, Global4}, 2) : c \in BOOLEAN, e \in BOOLEAN, d \in {In6, ShortName}}
  \cup {UotConf(2, c, c, "bridge", d, {d, Global4}, 2) : c \in BOOLEAN, d \in {In6, ShortName}}
  \cup {UotConf(1, FALSE, FALSE, s, d, {d, Global4}, 2) : s \in {"conn", "bridge"}, d \in {In6, ShortName}}
  \cup {FirstUot}
MCPackets == {<<>>, <<7, 8>>}

HttpRequest(i, m, c, k, b, a, f) ==
  [id |-> i, method |-> m, credentials |-> c, keepAlive |-> k, body |-> b, absolute |-> a, forwarded |-> f]
MCAccounts == {<<"u", "p">>, <<"w", "p">>}
PlainRequests(i) ==
  {HttpRequest(i, "GET", c, k, b, a, i = 1) :
     c \in {<<"u", "p">>, <<"v", "p">>, <<>>}, k \in BOOLEAN, b \in BOOLEAN, a \in BOOLEAN}
LastRequests(i) ==
  {HttpRequest(i, m, c, k, FALSE, TRUE, FALSE) :
     m \in {"CONNECT", "UPGRADE"}, c \in {<<"w", "p">>, <<>>}, k \in BOOLEAN}
GoodRequests(i) ==
  {HttpRequest(i, "GET", <<"u", "p">>, k, b, TRUE, FALSE) : k \in BOOLEAN, b \in BOOLEAN}
MCScripts ==
  {<<r>> : r \in LastRequests(1)} \cup {<<r, s>> : r \in PlainRequests(1), s \in LastRequests(2)}
  \cup {<<r, s, t>> : r \in GoodRequests(1), s \in GoodRequests(2), t \in LastRequests(3)}

VARIABLE part   \* the protocol that is spoken
protocolVars == <<part, socksVars, uotVars, httpVars>>

ProtocolsInit ==
  /\ part \in {"socks", "uot", "http"}
  /\ part = "socks" \/ conf = FirstConf
  /\ SocksInit
  /\ part = "uot" \/ uconf = FirstUot
  /\ UotInit
  /\ part = "http" \/ script = <<HttpRequest(1, "CONNECT", <<>>, FALSE, FALSE, TRUE, FALSE)>>
  /\ HttpInit

ProtocolsNext ==
  \/ part = "socks" /\ SocksNext /\ UNCHANGED <<part, uotVars, httpVars>>
  \/ part = "uot" /\ UotNext /\ UNCHANGED <<part, socksVars, httpVars>>
  \/ part = "http" /\ HttpNext /\ UNCHANGED <<part, socksVars, uotVars>>

\* The fairness of each part, when that part is at work.
ProtocolsFairness ==
  /\ WF_socksVars(part = "socks" /\ ClientStep) /\ WF_socksVars(part = "socks" /\ ServerStep)
  /\ WF_socksVars(part = "socks" /\ HandlerStep)
  /\ \A t \in Directions : WF_socksVars(part = "socks" /\ LazyStep(t))
  /\ WF_uotVars(part = "uot" /\ ServerRequest) /\ WF_uotVars(part = "uot" /\ ServerFrame)
  /\ WF_httpVars(part = "http" /\ HttpServer)
  /\ WF_httpVars(part = "http" /\ ClientAsks) /\ WF_httpVars(part = "http" /\ ClientAnswer)

ProtocolsSpec == ProtocolsInit /\ [][ProtocolsNext]_protocolVars /\ ProtocolsFairness

-----------------------------------------------------------------------------
=============================================================================
