---------------------------- MODULE SocksMessages ----------------------------
(***************************************************************************)
(* The messages of SOCKS 4, 4a and 5 (src/protocol/socks/socks4 and        *)
(* socks5), each with its writer and its reader, and the header that the   *)
(* packets of a UDP association carry (src/protocol/socks/packet.go).      *)
(***************************************************************************)
EXTENDS Socksaddr

Version4 == 4
Version5 == 5

AuthTypeNotRequired == 0
AuthTypeUsernamePassword == 2
AuthTypeNoAcceptedMethods == 255
UsernamePasswordStatusSuccess == 0
UsernamePasswordStatusFailure == 1

CommandConnect == 1
CommandBind == 2
CommandUDPAssociate == 3

ReplyCodeGranted == 90
ReplyCodeRejectedOrFailed == 91
ReplyCodeSuccess == 0
ReplyCodeUnsupported == 7

ReplyCodeForError(err) ==
  CASE err = "ENETUNREACH" -> 3 [] err = "EHOSTUNREACH" -> 4
    [] err = "ECONNREFUSED" -> 5 [] err = "EPERM" -> 2 [] OTHER -> 1

-----------------------------------------------------------------------------
\* readString: up to the NUL, at most MaxUint8 letters.
NulAt(s) == {i \in 1 .. Len(s) : s[i] = 0}
readString(s) ==
  LET nul == NulAt(s)
      end == CHOOSE i \in nul : \A j \in nul : i <= j
  IN IF nul = {}
     THEN IF Len(s) > MaxUint8 THEN Bad ELSE More
     ELSE IF end > MaxUint8 + 1 THEN Bad
     ELSE Got(SubSeq(s, 1, end - 1), SubSeq(s, end + 1, Len(s)))

\* What is no IPv4 address goes as the address 0.0.0.1 and a name.
CanWriteRequest4(r) ==
  /\ Len(r.Username) <= MaxUint8
  /\ IsIPv4(r.Destination) \/ Len(AddrString(r.Destination)) <= MaxUint8
WriteRequest4(r) ==
  <<Version4, r.Command>> \o Uint16(r.Destination.Port)
    \o (IF IsIPv4(r.Destination) THEN r.Destination.Addr ELSE <<0, 0, 0, 1>>)
    \o r.Username \o <<0>>
    \o (IF IsIPv4(r.Destination) THEN <<>> ELSE AddrString(r.Destination) \o <<0>>)

\* ReadRequest0: the version is read already.
ReadRequest4(s) ==
  Then(ReadByte(s), LAMBDA command, s1 :
  Then(ReadUint16(s1), LAMBDA port, s2 :
  Then(ReadFull(s2, 4), LAMBDA ip, s3 :
  Then(readString(s3), LAMBDA username, s4 :
    IF ip[1] = 0 /\ ip[2] = 0 /\ ip[3] = 0 /\ ip[4] # 0
    THEN Then(readString(s4), LAMBDA hostname, s5 :
           Got([Command |-> command, Username |-> username,
                Destination |-> Unwrap(ParseSocksaddrHostPort(hostname, port))], s5))
    ELSE Got([Command |-> command, Username |-> username,
              Destination |-> IP(ip, port)], s4)))))

\* The buffer has 8 bytes: the end of a longer address is dropped.  Without
\* an address there are 4 bytes, and the reader waits for 8.
WriteResponse4(code, destination) ==
  LET bytes == <<0, code>> \o Uint16(destination.Port) \o destination.Addr
  IN SubSeq(bytes, 1, IF Len(bytes) > 8 THEN 8 ELSE Len(bytes))
ReadResponse4(s) ==
  Then(ReadByte(s), LAMBDA version, s1 :
    IF version # 0 THEN Bad ELSE
  Then(ReadByte(s1), LAMBDA code, s2 :
  Then(ReadUint16(s2), LAMBDA port, s3 :
  Then(ReadFull(s3, 4), LAMBDA ip, s4 :
    Got([ReplyCode |-> code, Destination |-> IP(ip, port)], s4)))))

-----------------------------------------------------------------------------
\* The version byte in front of a message; WithVersion reads it.
WithVersion(s, expected, Read(_)) ==
  Then(ReadByte(s), LAMBDA version, rest : IF version # expected THEN Bad ELSE Read(rest))

WriteAuthRequest(methods) == <<Version5, Len(methods)>> \o methods
\* ReadAuthRequest0: the version is read already.
ReadAuthRequest(s) == Then(ReadByte(s), LAMBDA methodLen, rest : ReadFull(rest, methodLen))

WriteAuthResponse(method) == <<Version5, method>>
ReadAuthResponse(s) == WithVersion(s, Version5, ReadByte)

\* common.Must panics for a name or a password longer than a byte can say.
CanWriteUsernamePassword(u, p) == SocksStringFits(u) /\ SocksStringFits(p)
WriteUsernamePasswordAuthRequest(u, p) == <<1>> \o WriteSocksString(u) \o WriteSocksString(p)
ReadUsernamePasswordAuthRequest(s) ==
  WithVersion(s, 1, LAMBDA s1 :
  Then(ReadSockString(s1), LAMBDA u, s2 :
  Then(ReadSockString(s2), LAMBDA p, s3 : Got([Username |-> u, Password |-> p], s3))))

WriteUsernamePasswordAuthResponse(status) == <<1, status>>
ReadUsernamePasswordAuthResponse(s) == WithVersion(s, 1, ReadByte)

CanWriteRequest5(r) == CanWriteAddress(SocksaddrSerializer, r.Destination)
WriteRequest5(r) ==
  <<Version5, r.Command, 0>> \o WriteAddrPort(SocksaddrSerializer, r.Destination)
ReadRequest5(s) ==
  WithVersion(s, Version5, LAMBDA s1 :
  Then(ReadByte(s1), LAMBDA command, s2 :
  Then(ReadByte(s2), LAMBDA rsv, s3 :
  Then(ReadAddrPort(SocksaddrSerializer, s3), LAMBDA a, s4 :
    Got([Command |-> command, Destination |-> a], s4)))))

\* A response always has an address: 0.0.0.0 where the caller gives none.
WriteResponse5(code, bind) ==
  <<Version5, code, 0>>
    \o WriteAddrPort(SocksaddrSerializer, IF IsValid(bind) THEN bind ELSE IP(Zeros(4), 0))
ReadResponse5(s) ==
  WithVersion(s, Version5, LAMBDA s1 :
  Then(ReadByte(s1), LAMBDA code, s2 :
  Then(ReadByte(s2), LAMBDA rsv, s3 :
  Then(ReadAddrPort(SocksaddrSerializer, s3), LAMBDA a, s4 :
    Got([ReplyCode |-> code, Bind |-> a], s4)))))

-----------------------------------------------------------------------------
\* AssociatePacketConn.WriteTo, WritePacket and WriteVectorisedPacket ...
WritePacket(destination, data) ==
  Zeros(3) \o WriteAddrPort(SocksaddrSerializer, destination) \o data

\* ... ReadFrom, ReadPacket and WaitReadPacket: a packet that ends early is
\* an error, io.EOF.
ReadPacket(p) ==
  IF Len(p) < 3 THEN Bad
  ELSE LET r == ReadAddrPort(SocksaddrSerializer, SubSeq(p, 4, Len(p)))
       IN IF r.st = "ok" THEN r ELSE Bad
=============================================================================
