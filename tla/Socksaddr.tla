------------------------------ MODULE Socksaddr ------------------------------
(***************************************************************************)
(* M.Socksaddr and its serializer (src/common/metadata): an IP address or  *)
(* a domain name with a port, and how the protocols put it on the wire.    *)
(*                                                                         *)
(* A stream is a sequence of bytes.  What reads it is an operator from the *)
(* bytes that are there to a record: st is "ok" with the value and the     *)
(* rest of the bytes, "more" where the read blocks for bytes that are not  *)
(* there yet, or "bad" where it returns an error.                          *)
(***************************************************************************)
EXTENDS Naturals, Sequences

MaxUint8 == 255
MaxUint16 == 65535

Got(v, rest) == [st |-> "ok", v |-> v, rest |-> rest]
More == [st |-> "more", v |-> <<>>, rest |-> <<>>]
Bad == [st |-> "bad", v |-> <<>>, rest |-> <<>>]

\* Next for what r has read; the bound x makes TLC evaluate r only once.
Then(r, Next(_, _)) ==
  CHOOSE y \in {IF x.st = "ok" THEN Next(x.v, x.rest) ELSE x : x \in {r}} : TRUE

\* io.ReadFull, reader.ReadByte and binary.Read of a 16 bit number.
ReadFull(s, n) ==
  IF Len(s) < n THEN More ELSE Got(SubSeq(s, 1, n), SubSeq(s, n + 1, Len(s)))
ReadByte(s) == Then(ReadFull(s, 1), LAMBDA v, rest : Got(v[1], rest))
Uint16(n) == <<(n % 65536) \div 256, n % 256>>
ReadUint16(s) ==
  Then(ReadFull(s, 2), LAMBDA v, rest : Got(256 * v[1] + v[2], rest))

Zeros(n) == [i \in 1 .. n |-> 0]

-----------------------------------------------------------------------------
\* A netip.Addr is its bytes, and the invalid one has none.
Invalid == [Addr |-> <<>>, Port |-> 0, Fqdn |-> <<>>]
IP(addr, port) == [Addr |-> addr, Port |-> port, Fqdn |-> <<>>]
Domain(fqdn, port) == [Addr |-> <<>>, Port |-> port, Fqdn |-> fqdn]

\* The values of the type: a constructor sets the address or the name.
Byte == 0 .. MaxUint8
Socksaddrs ==
  {a \in [Addr : Seq(Byte), Port : 0 .. MaxUint16, Fqdn : Seq(Byte)] :
     Len(a.Addr) \in {0, 4, 16} /\ (a.Addr = <<>> \/ a.Fqdn = <<>>)}

IsIPv4(a) == Len(a.Addr) = 4
IsIPv6(a) == Len(a.Addr) = 16
IsDomain(a) == a.Fqdn # <<>>
IsValid(a) == a.Addr # <<>> \/ IsDomain(a)

Mapped == Zeros(10) \o <<255, 255>>
Is4In6(a) == IsIPv6(a) /\ SubSeq(a.Addr, 1, 12) = Mapped
Unwrap(a) == IF Is4In6(a) THEN IP(SubSeq(a.Addr, 13, 16), a.Port) ELSE a

\* netip.Addr.String and netip.ParseAddr.  The letters of the text stand
\* beside the bytes 0 .. 255: text has no NUL and no bracket of its own.
AddrText(addr) == [i \in 1 .. Len(addr) |-> 256 + addr[i]]
IsAddrText(host) == Len(host) \in {4, 16} /\ \A i \in 1 .. Len(host) : host[i] > MaxUint8
ParsedAddr(host) == [i \in 1 .. Len(host) |-> host[i] - 256]

AddrString(a) == IF a.Addr # <<>> THEN AddrText(a.Addr) ELSE a.Fqdn

LeftBracket == 91
RightBracket == 93
unwrapIPv6Address(host) ==
  IF Len(host) > 2 /\ host[1] = LeftBracket /\ host[Len(host)] = RightBracket
  THEN SubSeq(host, 2, Len(host) - 1)
  ELSE host

ParseSocksaddrHostPort(host, port) ==
  LET text == unwrapIPv6Address(host)
  IN IF IsAddrText(text) THEN IP(ParsedAddr(text), port) ELSE Domain(host, port)

\* ParseSocksaddrHostPortStr: the port is text too; strconv.Atoi gives 0 for
\* text that is no number, and what does not fit is cut to 16 bits.
ParseSocksaddrHostPortStr(host, portStr) ==
  ParseSocksaddrHostPort(host, portStr % (MaxUint16 + 1))

-----------------------------------------------------------------------------
\* A Serializer is familyByteMap, a function on the families it knows, and
\* portFirst; familyMap is the inverse of the function.
SocksaddrSerializer ==
  [familyByteMap |-> [f \in {"IPv4", "IPv6", "Fqdn"} |->
                        CASE f = "IPv4" -> 1 [] f = "IPv6" -> 4 [] f = "Fqdn" -> 3],
   portFirst |-> FALSE]

\* uot.AddrParser
AddrParser ==
  [familyByteMap |-> [f \in {"IPv4", "IPv6", "Fqdn"} |->
                        CASE f = "IPv4" -> 0 [] f = "IPv6" -> 1 [] f = "Fqdn" -> 2],
   portFirst |-> FALSE]

Family(a) ==
  IF ~IsValid(a) THEN "Empty"
  ELSE IF IsIPv4(a) THEN "IPv4" ELSE IF IsIPv6(a) THEN "IPv6" ELSE "Fqdn"

\* WriteSocksString and ReadSockString
SocksStringFits(str) == Len(str) <= MaxUint8
WriteSocksString(str) == <<Len(str)>> \o str
ReadSockString(s) == Then(ReadByte(s), LAMBDA n, rest : ReadFull(rest, n))

\* The errors of WriteAddress: a family without a byte, a name too long.
CanWriteAddress(ser, a) ==
  Family(a) \in DOMAIN ser.familyByteMap /\ SocksStringFits(a.Fqdn)

WriteAddress(ser, a) ==
  <<ser.familyByteMap[Family(a)]>>
    \o (IF Family(a) = "Fqdn" THEN WriteSocksString(a.Fqdn) ELSE a.Addr)

AddressLen(a) ==
  CASE Family(a) = "Empty" -> 1 [] Family(a) = "IPv4" -> 5
    [] Family(a) = "IPv6" -> 17 [] Family(a) = "Fqdn" -> 2 + Len(a.Fqdn)
AddrPortLen(a) == AddressLen(a) + (IF IsValid(a) THEN 2 ELSE 0)

WriteAddrPort(ser, a) ==
  IF ser.portFirst THEN Uint16(a.Port) \o WriteAddress(ser, a)
  ELSE WriteAddress(ser, a) \o (IF IsValid(a) THEN Uint16(a.Port) ELSE <<>>)

ReadAddress(ser, s) ==
  Then(ReadByte(s), LAMBDA af, rest :
    LET known == {f \in DOMAIN ser.familyByteMap : ser.familyByteMap[f] = af}
        family == IF known = {} THEN "unknown" ELSE CHOOSE f \in known : TRUE
    IN CASE family = "IPv4" -> Then(ReadFull(rest, 4), LAMBDA v, r : Got(IP(v, 0), r))
         [] family = "IPv6" -> Then(ReadFull(rest, 16), LAMBDA v, r : Got(Unwrap(IP(v, 0)), r))
         [] family = "Fqdn" -> Then(ReadSockString(rest), LAMBDA v, r :
                                    Got(ParseSocksaddrHostPort(v, 0), r))
         [] family = "Empty" -> Got(Invalid, rest)
         [] OTHER -> Bad)

ReadAddrPort(ser, s) ==
  IF ser.portFirst
  THEN Then(ReadUint16(s), LAMBDA port, rest :
         Then(ReadAddress(ser, rest), LAMBDA a, r : Got([a EXCEPT !.Port = port], r)))
  ELSE Then(ReadAddress(ser, s), LAMBDA a, rest :
         IF IsValid(a)
         THEN Then(ReadUint16(rest), LAMBDA port, r : Got([a EXCEPT !.Port = port], r))
         ELSE Got(a, rest))
=============================================================================
