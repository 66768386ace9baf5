----------------------------- MODULE JsonScanner ------------------------------
(***************************************************************************)
(* common/json/internal/contextjson/scanner.go: the byte-at-a-time scanner *)
(* every other part of the package is built on.  It is Go's JSON scanner   *)
(* with comments wherever white space may stand and with a trailing comma  *)
(* in arrays and objects.                                                  *)
(*                                                                         *)
(* A byte is a one-letter string.  "_" stands for every space but the line *)
(* ends, "nl" and "cr" for these, "ctl" for the other control bytes and    *)
(* "x" for a byte without a meaning of its own.                            *)
(***************************************************************************)
EXTENDS Naturals, Sequences

CONSTANT MaxNestingDepth   \* maxNestingDepth, 10000

ASSUME DepthAssumption == MaxNestingDepth \in Nat \ {0}

Digits19 == {"1"}
Digits == {"0"} \cup Digits19
HexDigits == Digits \cup {"a", "b", "e", "f"}
NewLines == {"nl", "cr"}
isSpace(c) == c \in NewLines \cup {"_"}
IsControl(c) == c \in NewLines \cup {"ctl"}

(***************************************************************************)
(* The scanner: its step function, the stack of open arrays and objects,   *)
(* whether the top-level value is over, err # nil, the step to return to   *)
(* after a comment, what kind of comment it is in, and what the last step  *)
(* returned.                                                               *)
(***************************************************************************)
reset ==
  [step |-> "BeginValue", parseState |-> << >>, endTop |-> FALSE, err |-> FALSE,
   commentStep |-> "", commentMode |-> "no", op |-> "continue"]

Go(s, step, op) == [s EXCEPT !.step = step, !.op = op]
Returns(s, op) == [s EXCEPT !.op = op]
error(s) == [s EXCEPT !.step = "Error", !.err = TRUE, !.op = "error"]
SetTop(s, p) == [s EXCEPT !.parseState[Len(s.parseState)] = p]

pushParseState(s, step, p, op) ==
  LET t == [s EXCEPT !.parseState = Append(@, p)]
  IN IF Len(t.parseState) <= MaxNestingDepth THEN Go(t, step, op) ELSE error(t)

popParseState(s, op) ==
  LET n == Len(s.parseState) - 1
      t == [s EXCEPT !.parseState = SubSeq(@, 1, n), !.endTop = @ \/ n = 0]
  IN Go(t, IF n = 0 THEN "EndTop" ELSE "EndValue", op)

(* Comments. *)

BeginsComment(c) == c \in {"#", "/"}

stateBeginComment(s, c, next) ==
  LET t == [s EXCEPT !.commentStep = next]
  IN IF c = "#" THEN Go([t EXCEPT !.commentMode = "line"], "InLineComment", "skipSpace")
     ELSE Go(t, "MaybeComment", "skipSpace")

stateMaybeComment(s, c) ==
  CASE c = "/" -> Go([s EXCEPT !.commentMode = "line"], "InLineComment", "skipSpace")
    [] c = "*" -> Go([s EXCEPT !.commentMode = "block"], "InBlockComment", "skipSpace")
    [] OTHER -> error(s)

EndComment(s) == [s EXCEPT !.step = s.commentStep, !.commentStep = "", !.commentMode = "no"]

stateInLineComment(s, c) ==
  Returns(IF c \in NewLines THEN EndComment(s) ELSE s, "skipSpace")

stateInBlockComment(s, c) ==
  Go(s, IF c = "*" THEN "InBlockCommentStar" ELSE "InBlockComment", "skipSpace")


stateInBlockCommentStar(s, c) ==
  CASE c = "/" -> Returns(EndComment(s), "skipSpace")
    [] c = "*" -> Returns(s, "skipSpace")
    [] OTHER -> Go(s, "InBlockComment", "skipSpace")

(* Where a value or a key begins or ends. *)

stateEndTop(s, c) ==
  IF isSpace(c) THEN Returns(s, "end")
  ELSE IF BeginsComment(c) THEN stateBeginComment(s, c, "EndTop")
  ELSE Returns(error(s), "end")

stateEndValue(s, c) ==
  LET n == Len(s.parseState)
      in == s.parseState[n]
  IN CASE n = 0 -> stateEndTop([s EXCEPT !.step = "EndTop", !.endTop = TRUE], c)
       [] n # 0 /\ isSpace(c) -> Go(s, "EndValue", "skipSpace")
       [] n # 0 /\ BeginsComment(c) -> stateBeginComment(s, c, "EndValue")
       [] n # 0 /\ in = "key" /\ c = ":" -> Go(SetTop(s, "value"), "BeginValue", "objectKey")
       [] n # 0 /\ in = "value" /\ c = "," ->
            Go(SetTop(s, "key"), "BeginStringOrEmpty", "objectValue")
       [] n # 0 /\ in = "value" /\ c = "}" -> popParseState(s, "endObject")
       [] n # 0 /\ in = "array" /\ c = "," -> Go(s, "BeginValueOrEmpty", "arrayValue")
       [] n # 0 /\ in = "array" /\ c = "]" -> popParseState(s, "endArray")
       [] OTHER -> error(s)

FirstLiteralStep ==
  [c \in {"\"", "-", "0", "t", "f", "n"} \cup Digits19 |->
     CASE c = "\"" -> "InString" [] c = "-" -> "Neg" [] c = "0" -> "0" [] c \in Digits19 -> "1"
       [] c = "t" -> "T" [] c = "f" -> "F" [] c = "n" -> "N"]

stateBeginValue(s, c) ==
  CASE isSpace(c) -> Returns(s, "skipSpace")
    [] BeginsComment(c) -> stateBeginComment(s, c, "BeginValue")
    [] c = "{" -> pushParseState(s, "BeginStringOrEmpty", "key", "beginObject")
    [] c = "[" -> pushParseState(s, "BeginValueOrEmpty", "array", "beginArray")
    [] c \in DOMAIN FirstLiteralStep -> Go(s, FirstLiteralStep[c], "beginLiteral")
    [] OTHER -> error(s)

\* After [ and after a comma: the array may end.
stateBeginValueOrEmpty(s, c) ==
  CASE isSpace(c) -> Returns(s, "skipSpace")
    [] BeginsComment(c) -> stateBeginComment(s, c, "BeginValueOrEmpty")
    [] c = "]" -> stateEndValue(s, c)
    [] OTHER -> stateBeginValue(s, c)

stateBeginString(s, c) ==
  CASE isSpace(c) -> Returns(s, "skipSpace")
    [] BeginsComment(c) -> stateBeginComment(s, c, "BeginString")
    [] c = "\"" -> Go(s, "InString", "beginLiteral")
    [] OTHER -> error(s)

\* After { and after a comma: the object may end.
stateBeginStringOrEmpty(s, c) ==
  CASE isSpace(c) -> Returns(s, "skipSpace")
    [] BeginsComment(c) -> stateBeginComment(s, c, "BeginStringOrEmpty")
    [] c = "}" -> stateEndValue(SetTop(s, "value"), c)
    [] OTHER -> stateBeginString(s, c)

(***************************************************************************)
(* Inside a literal: the step a byte leads to, "Error" when it may not     *)
(* stand there and "" when the literal is over and the byte after it.      *)
(***************************************************************************)
StringSteps == {"InString", "Esc", "EscU", "EscU1", "EscU12", "EscU123"}
StringMove(step, c) ==
  CASE step = "InString" -> (CASE c = "\"" -> "EndValue" [] c = "\\" -> "Esc"
                               [] IsControl(c) -> "Error" [] OTHER -> "InString")
    [] step = "Esc" -> (CASE c \in {"b", "f", "n", "r", "t", "\\", "/", "\""} -> "InString"
                          [] c = "u" -> "EscU" [] OTHER -> "Error")
    [] c \notin HexDigits -> "Error"
    [] step = "EscU" -> "EscU1"
    [] step = "EscU1" -> "EscU12"
    [] step = "EscU12" -> "EscU123"
    [] step = "EscU123" -> "InString"

NumberSteps == {"Neg", "0", "1", "Dot", "Dot0", "E", "ESign", "E0"}
NumberMove(step, c) ==
  CASE step \in {"Neg", "1"} /\ c \in Digits19 -> "1"
    [] step = "Neg" /\ c = "0" -> "0"
    [] step = "1" /\ c = "0" -> "1"
    [] step \in {"0", "1"} /\ c = "." -> "Dot"
    [] step \in {"Dot", "Dot0"} /\ c \in Digits -> "Dot0"
    [] step \in {"0", "1", "Dot0"} /\ c = "e" -> "E"
    [] step = "E" /\ c \in {"+", "-"} -> "ESign"
    [] step \in {"E", "ESign", "E0"} /\ c \in Digits -> "E0"
    [] step \in {"0", "1", "Dot0", "E0"} -> ""
    [] OTHER -> "Error"

\* The letters of true, false and null after the first.
Words == [T |-> <<"r", "Tr">>, Tr |-> <<"u", "Tru">>, Tru |-> <<"e", "EndValue">>,
          F |-> <<"a", "Fa">>, Fa |-> <<"l", "Fal">>, Fal |-> <<"s", "Fals">>,
          Fals |-> <<"e", "EndValue">>,
          N |-> <<"u", "Nu">>, Nu |-> <<"l", "Nul">>, Nul |-> <<"l", "EndValue">>]
WordMove(step, c) == IF c = Words[step][1] THEN Words[step][2] ELSE "Error"

InLiteral(s, c, step) ==
  CASE step = "" -> stateEndValue(s, c)
    [] step = "Error" -> error(s)
    [] OTHER -> Go(s, step, "continue")

\* s.step(s, c).
Step(s, c) ==
  CASE s.step = "BeginValue" -> stateBeginValue(s, c)
    [] s.step = "BeginValueOrEmpty" -> stateBeginValueOrEmpty(s, c)
    [] s.step = "BeginString" -> stateBeginString(s, c)
    [] s.step = "BeginStringOrEmpty" -> stateBeginStringOrEmpty(s, c)
    [] s.step = "EndValue" -> stateEndValue(s, c)
    [] s.step = "EndTop" -> stateEndTop(s, c)
    [] s.step = "MaybeComment" -> stateMaybeComment(s, c)
    [] s.step = "InLineComment" -> stateInLineComment(s, c)
    [] s.step = "InBlockComment" -> stateInBlockComment(s, c)
    [] s.step = "InBlockCommentStar" -> stateInBlockCommentStar(s, c)
    [] s.step \in StringSteps -> InLiteral(s, c, StringMove(s.step, c))
    [] s.step \in NumberSteps -> InLiteral(s, c, NumberMove(s.step, c))
    [] s.step \in DOMAIN Words -> InLiteral(s, c, WordMove(s.step, c))
    [] s.step = "Error" -> Returns(s, "error")

\* eof: a line comment ends with the input, a block comment may not.
eof(s) ==
  LET t == IF s.commentMode = "line" THEN EndComment(s) ELSE s
      u == Step(t, "_")
  IN IF s.err THEN Returns(s, "error")
     ELSE IF s.commentMode = "block" THEN Returns([s EXCEPT !.err = TRUE], "error")
     ELSE IF t.endTop THEN Returns(t, "end")
     ELSE IF u.endTop THEN Returns(u, "end")
     ELSE Returns([u EXCEPT !.err = TRUE], "error")

\* The scanner after each byte of data, from s.
ScanStates(s, data) ==
  LET to[i \in 0 .. Len(data)] ==
        IF i = 0 THEN <<s>> ELSE LET p == to[i - 1] IN Append(p, Step(p[i], data[i]))
  IN Tail(to[Len(data)])

\* checkValid gives up at the first step that returns scanError.
checkValid(data) ==
  LET st == ScanStates(reset, data)
  IN /\ \A i \in 1 .. Len(data) : st[i].op # "error"
     /\ eof(IF data = << >> THEN reset ELSE st[Len(data)]).op # "error"
=============================================================================
