------------------------------- MODULE JsonRead -------------------------------
(***************************************************************************)
(* common/json/internal/contextjson/decode.go: how the decoder moves over  *)
(* a text that was found valid.  Literals are not scanned a second time:   *)
(* rescanLiteral looks for their end and puts the scanner behind them.     *)
(*                                                                         *)
(* decodeState: the bytes read so far, the scanner, its last result.  x is *)
(* the text.                                                               *)
(***************************************************************************)
EXTENDS JsonScanner, FiniteSetsExt, TLC

At0(x, i) == x[i + 1]
Scanned(s, n) == [off |-> n, scan |-> s, opcode |-> s.op]

scanNext(x, d) ==
  IF d.off < Len(x) THEN Scanned(Step(d.scan, At0(x, d.off)), d.off + 1) ELSE Scanned(eof(d.scan), Len(x) + 1)

RECURSIVE scanWhile(_, _, _)
Passing(x, e, more, op) == IF more /\ e.opcode = op THEN scanWhile(x, e, op) ELSE e
scanWhile(x, d, op) == Passing(x, scanNext(x, d), d.off < Len(x), op)

RECURSIVE SkipTo(_, _, _)
SkippedTo(x, e, depth) == IF Len(e.scan.parseState) < depth THEN e ELSE SkipTo(x, e, depth)
SkipTo(x, d, depth) == SkippedTo(x, scanNext(x, d), depth)
skip(x, d) == SkipTo(x, d, Len(d.scan.parseState))

NumberBytes == Digits \cup {".", "e", "-"}

\* The bytes before the end of the string, when i are read and it goes on.
RECURSIVE StringStop(_, _)
StringStop(x, i) ==
  CASE i >= Len(x) -> i
    [] i < Len(x) /\ At0(x, i) = "\\" -> StringStop(x, i + 2)
    [] i < Len(x) /\ At0(x, i) = "\"" -> i + 1
    [] i < Len(x) /\ At0(x, i) \notin {"\\", "\""} -> StringStop(x, i + 1)

LiteralStop(x, i) ==
  LET c == At0(x, i - 1)
      ends == {k \in i .. Len(x) - 1 : At0(x, k) \notin NumberBytes}
  IN CASE c = "\"" -> StringStop(x, i)
       [] c \in NumberBytes \ {"e"} -> IF ends = {} THEN Len(x) ELSE Min(ends)
       [] c \in {"t", "n"} -> i + 3
       [] c = "f" -> i + 4

rescanLiteral(x, d) ==
  LET i == LiteralStop(x, d.off)
      s == stateEndValue(d.scan, At0(x, i))
  IN IF i < Len(x) THEN Scanned(s, i + 1) ELSE [off |-> i + 1, scan |-> d.scan, opcode |-> "end"]

SkipBlanks(x, d) == scanWhile(x, d, "skipSpace")
BehindBlanks(x, d) == IF d.opcode = "skipSpace" THEN SkipBlanks(x, d) ELSE d
Item(x, d, e) == SubSeq(x, d.off, e.off - 1)

(***************************************************************************)
(* value for an empty interface: valueInterface and what it calls.  The    *)
(* answer is a tree of the text's literals.                                *)
(***************************************************************************)
Got(d, val) == [d |-> d, val |-> val]

RECURSIVE ReadInterface(_, _), ReadArray(_, _, _), ReadObject(_, _, _)
ReadInterface(x, d) ==
  LET lit == rescanLiteral(x, d)
      arr == ReadArray(x, d, << >>)
      obj == ReadObject(x, d, << >>)
  IN CASE d.opcode = "beginLiteral" -> Got(lit, <<"lit", Item(x, d, lit)>>)
       [] d.opcode = "beginArray" -> Got(scanNext(x, arr.d), arr.val)
       [] d.opcode = "beginObject" -> Got(scanNext(x, obj.d), obj.val)
       [] OTHER -> Got(d, <<"panic">>)

\* f is behind the element, e at the next one or at the end.
ArrayGoesOn(x, f, vs) ==
  CASE f.opcode = "endArray" -> Got(f, <<"arr", vs>>)
    [] f.opcode = "arrayValue" -> ReadArray(x, f, vs)
    [] OTHER -> Got(f, <<"panic">>)
ReadElement(x, e, vs) ==
  LET r == ReadInterface(x, e)
  IN IF e.opcode = "endArray" THEN Got(e, <<"arr", vs>>)
     ELSE ArrayGoesOn(x, BehindBlanks(x, r.d), Append(vs, r.val))
ReadArray(x, d, vs) == ReadElement(x, SkipBlanks(x, d), vs)

\* Members in order; a key that comes again replaces the first in the map.
\* f is behind the value, c behind the key, k at its end and e at its start.
ObjectGoesOn(x, f, vs) ==
  CASE f.opcode = "endObject" -> Got(f, <<"obj", vs>>)
    [] f.opcode = "objectValue" -> ReadObject(x, f, vs)
    [] OTHER -> Got(f, <<"panic">>)
ReadMember(x, c, key, vs) ==
  LET r == ReadInterface(x, SkipBlanks(x, c))
  IN IF c.opcode # "objectKey" THEN Got(c, <<"panic">>)
     ELSE ObjectGoesOn(x, BehindBlanks(x, r.d), Append(vs, <<key, r.val>>))
ReadKey(x, e, vs) ==
  LET k == rescanLiteral(x, e)
  IN CASE e.opcode = "endObject" -> Got(e, <<"obj", vs>>)
       [] e.opcode = "beginLiteral" -> ReadMember(x, BehindBlanks(x, k), Item(x, e, k), vs)
       [] OTHER -> Got(e, <<"panic">>)
ReadObject(x, d, vs) == ReadKey(x, SkipBlanks(x, d), vs)

\* unmarshal: the first value byte, then the value.
FirstValue(x) == SkipBlanks(x, [off |-> 0, scan |-> reset, opcode |-> "continue"])
ReadText(x) == ReadInterface(x, FirstValue(x))

(***************************************************************************)
(* encode.go, isValidNumber: whether a Number's text may be written as it  *)
(* is.                                                                     *)
(***************************************************************************)
SkipDigits(x, i) == LET ends == {k \in i .. Len(x) : x[k] \notin Digits} IN IF ends = {} THEN Len(x) + 1 ELSE Min(ends)
In(x, i, S) == i \in DOMAIN x /\ x[i] \in S

isValidNumber(x) ==
  LET first == IF In(x, 1, {"-"}) THEN 2 ELSE 1
      int == IF In(x, first, {"0"}) THEN first + 1 ELSE SkipDigits(x, first + 1)
      frac == IF In(x, int, {"."}) /\ In(x, int + 1, Digits) THEN SkipDigits(x, int + 2) ELSE int
      exp == In(x, frac, {"e"}) /\ frac < Len(x)
      sign == exp /\ In(x, frac + 1, {"-"})
      end == CASE sign -> SkipDigits(x, frac + 2) [] exp /\ ~sign -> SkipDigits(x, frac + 1) [] ~exp -> frac
  IN /\ In(x, first, Digits)
     /\ ~(sign /\ frac + 1 = Len(x))
     /\ end > Len(x)
=============================================================================
