------------------------------ MODULE JsonStream ------------------------------
(***************************************************************************)
(* common/json/internal/contextjson/stream.go: the Decoder, which reads    *)
(* its input in pieces of any size and hands it out as tokens (Token) or   *)
(* whole values (Decode), in any mix, with More to look ahead.  A call     *)
(* whose buffer is used up refills it and goes on where it was.            *)
(*                                                                         *)
(* Positions count the bytes before them.  What a value decodes to is not  *)
(* told apart here: a value is handed out as its lexical tokens.           *)
(***************************************************************************)
EXTENDS JsonGrammar, SequencesExt

CONSTANT Texts   \* the inputs

VARIABLES
  streamInput,        \* the text of this run
  unread,       \* what the reader has not delivered
  buf, scanp,   \* dec.buf, dec.scanp
  dscan,        \* dec.scan
  tokenState, tokenStack,
  derr,         \* dec.err
  stage,        \* "idle", or the loop the current call is in
  at,           \* that loop's scanp
  lerr,         \* that loop's err
  key,          \* the value being read is an object key
  val,          \* the tokens of that value so far
  out,          \* the tokens handed out so far
  result        \* what the last call returned

readerVars == <<buf, scanp, unread>>
tokenVars == <<tokenState, tokenStack>>
streamVars == <<streamInput, unread, buf, scanp, dscan, tokenState, tokenStack, derr, stage, at, lerr,
                key, val, out, result>>

None == "nil"

StreamInit ==
  /\ streamInput \in Texts
  /\ unread = streamInput /\ buf = << >> /\ scanp = 0 /\ dscan = reset
  /\ tokenState = "TopValue" /\ tokenStack = << >>
  /\ derr = None /\ stage = "idle" /\ at = 0 /\ lerr = None /\ key = FALSE
  /\ val = << >> /\ out = << >> /\ result = None

tokenValueAllowed == tokenState \in {"TopValue", "ArrayStart", "ArrayValue", "ObjectValue"}

tokenValueEnd(state) ==
  CASE state \in {"ArrayStart", "ArrayValue"} -> "ArrayComma"
    [] state = "ObjectValue" -> "ObjectComma"
    [] OTHER -> state

Return(r) == stage' = "idle" /\ result' = r /\ at' = 0 /\ lerr' = None /\ key' = FALSE

\* A new loop of peekFrom begins at position p.
PeekAt(s, p) == stage' = s /\ at' = p /\ lerr' = None

\* readValue begins, from scanp = p; Decode asks for dec.err before.
ReadValueAt(p, k) ==
  IF derr # None THEN Return(derr) /\ UNCHANGED <<dscan, val>>
  ELSE stage' = "value" /\ at' = p /\ lerr' = None /\ dscan' = reset /\ key' = k /\ val' = << >> /\ UNCHANGED result

-----------------------------------------------------------------------------
(* The calls.                                                              *)

CallToken ==
  /\ stage = "idle" /\ PeekAt("token", scanp)
  /\ UNCHANGED <<streamInput, readerVars, dscan, tokenVars, derr, key, val, out, result>>

CallMore ==
  /\ stage = "idle" /\ PeekAt("more", scanp)
  /\ UNCHANGED <<streamInput, readerVars, dscan, tokenVars, derr, key, val, out, result>>

\* tokenPrepareForDecode looks for the separator Token would have skipped.
CallDecode ==
  /\ stage = "idle"
  /\ CASE derr # None -> Return(derr) /\ UNCHANGED <<dscan, val>>
       [] derr = None /\ tokenState \in {"ArrayComma", "ObjectColon"} ->
            PeekAt("prepare", scanp) /\ UNCHANGED <<dscan, key, val, result>>
       [] derr = None /\ tokenState \notin {"ArrayComma", "ObjectColon"} ->
            IF tokenValueAllowed THEN ReadValueAt(scanp, FALSE)
            ELSE Return("syntax") /\ UNCHANGED <<dscan, val>>
  /\ UNCHANGED <<streamInput, readerVars, tokenVars, derr, out>>

-----------------------------------------------------------------------------
(* refill: the buffer's rest moves to the front and a piece is appended.   *)
(* The end of the input may come with the last piece or after it, and the  *)
(* reader may fail.                                                        *)

refill ==
  \E n \in 0 .. Len(unread), e \in {None, "EOF", "fail"} :
    /\ e = None => n > 0
    /\ e = "EOF" => n = Len(unread)
    /\ buf' = SubSeq(buf, scanp + 1, Len(buf)) \o SubSeq(unread, 1, n)
    /\ unread' = SubSeq(unread, n + 1, Len(unread))
    /\ scanp' = 0 /\ at' = at - scanp /\ lerr' = e

\* Where a blank that begins at i ends; -1 when the buffer ends before.
skipLineCommentInBuffer(i) ==
  LET ends == {k \in i .. Len(buf) - 1 : buf[k + 1] \in NewLines}
  IN IF ends = {} THEN -1 ELSE Min(ends) + 1
skipBlockCommentInBuffer(i) ==
  LET ends == {k \in i .. Len(buf) - 2 : buf[k + 1] = "*" /\ buf[k + 2] = "/"}
  IN IF ends = {} THEN -1 ELSE Min(ends) + 2
SkipBlank(i) ==
  LET c == buf[i + 1]
      d == buf[i + 2]
  IN CASE isSpace(c) -> i + 1
       [] c = "#" -> skipLineCommentInBuffer(i + 1)
       [] c = "/" /\ i + 1 >= Len(buf) -> -1
       [] c = "/" /\ i + 1 < Len(buf) /\ d = "/" -> skipLineCommentInBuffer(i + 2)
       [] c = "/" /\ i + 1 < Len(buf) /\ d = "*" -> skipBlockCommentInBuffer(i + 2)
       [] OTHER -> i

Peeking == stage \in {"token", "prepare", "more", "comma"}
PeekStuck == at >= Len(buf) \/ SkipBlank(at) = -1
Peeked(c) == Peeking /\ ~PeekStuck /\ SkipBlank(at) = at /\ buf[at + 1] = c

\* peekFrom: skips a blank, or refills, or gives up.  More answers false after
\* any error; the result remembers when it was not the end of the input.
peekFrom ==
  /\ Peeking
  /\ CASE ~PeekStuck ->
            /\ SkipBlank(at) > at /\ at' = SkipBlank(at)
            /\ UNCHANGED <<readerVars, stage, lerr, key, result>>
       [] PeekStuck /\ lerr = None -> refill /\ UNCHANGED <<stage, key, result>>
       [] PeekStuck /\ lerr # None ->
            /\ Return(IF stage \notin {"more", "comma"} THEN lerr
                      ELSE IF lerr = "EOF" THEN "false" ELSE "falseAfterFailure")
            /\ UNCHANGED readerVars
  /\ UNCHANGED <<streamInput, dscan, tokenVars, derr, val, out>>

-----------------------------------------------------------------------------
(* What Token does with the byte it peeked.                                *)

tokenError ==
  Return("syntax") /\ scanp' = at /\ UNCHANGED <<dscan, tokenVars, val, out>>

BeginDelim ==
  \E c \in {"[", "{"} :
    /\ stage = "token" /\ Peeked(c)
    /\ IF ~tokenValueAllowed THEN tokenError
       ELSE /\ scanp' = at + 1
            /\ tokenStack' = Append(tokenStack, tokenState)
            /\ tokenState' = (IF c = "[" THEN "ArrayStart" ELSE "ObjectStart")
            /\ out' = Append(out, <<c>>) /\ Return("ok") /\ UNCHANGED <<dscan, val>>
    /\ UNCHANGED <<streamInput, buf, unread, derr>>

\* Mutation: the state before the array or object is restored as it was.
RestoredState(state) == state
\* The state after the array or object that closes.
ClosedState(state) == tokenValueEnd(state)

EndDelim ==
  \E c \in {"]", "}"} :
    /\ stage = "token" /\ Peeked(c)
    /\ IF tokenState \notin (IF c = "]" THEN {"ArrayStart", "ArrayComma", "ArrayValue"}
                             ELSE {"ObjectStart", "ObjectComma", "ObjectKey"})
       THEN tokenError
       ELSE /\ scanp' = at + 1
            /\ tokenState' = ClosedState(Last(tokenStack)) /\ tokenStack' = Front(tokenStack)
            /\ out' = Append(out, <<c>>) /\ Return("ok") /\ UNCHANGED <<dscan, val>>
    /\ UNCHANGED <<streamInput, buf, unread, derr>>

Separator ==
  \E c \in {":", ","} :
    /\ stage = "token" /\ Peeked(c)
    /\ IF tokenState \notin (IF c = ":" THEN {"ObjectColon"} ELSE {"ArrayComma", "ObjectComma"})
       THEN tokenError
       ELSE /\ scanp' = at + 1 /\ PeekAt("token", at + 1)
            /\ tokenState' = (CASE tokenState = "ObjectColon" -> "ObjectValue"
                                [] tokenState = "ArrayComma" -> "ArrayValue"
                                [] tokenState = "ObjectComma" -> "ObjectKey")
            /\ UNCHANGED <<dscan, tokenStack, key, val, out, result>>
    /\ UNCHANGED <<streamInput, buf, unread, derr>>

\* Anything else is a key or a value, which Decode reads.
ValueToken ==
  /\ stage = "token" /\ ~PeekStuck
  /\ ~\E c \in {"[", "]", "{", "}", ":", ","} : Peeked(c)
  /\ SkipBlank(at) = at
  /\ LET k == buf[at + 1] = "\"" /\ tokenState \in {"ObjectStart", "ObjectKey"}
     IN IF ~k /\ ~tokenValueAllowed THEN tokenError
        ELSE scanp' = at /\ ReadValueAt(at, k) /\ UNCHANGED <<tokenVars, out>>
  /\ UNCHANGED <<streamInput, buf, unread, derr>>

\* tokenPrepareForDecode, after its peek.
Prepared ==
  /\ stage = "prepare" /\ ~PeekStuck /\ SkipBlank(at) = at
  /\ IF buf[at + 1] # (IF tokenState = "ArrayComma" THEN "," ELSE ":") THEN tokenError
     ELSE /\ scanp' = at + 1 /\ ReadValueAt(at + 1, FALSE)
          /\ tokenState' = (IF tokenState = "ArrayComma" THEN "ArrayValue" ELSE "ObjectValue")
          /\ UNCHANGED <<tokenStack, out>>
  /\ UNCHANGED <<streamInput, buf, unread, derr>>

\* Mutation: a comma is taken for another element without a look behind it.
MoreAfterComma(c) == stage = "more" /\ c = "!"
LooksBehind(c) == stage = "more" /\ c = ","

\* More, after its peek; a comma may be the last byte before the end of the
\* array or object, so it looks behind it.
Answered ==
  /\ stage \in {"more", "comma"} /\ ~PeekStuck /\ SkipBlank(at) = at
  /\ scanp' = (IF stage = "more" THEN at ELSE scanp)
  /\ IF LooksBehind(buf[at + 1]) THEN PeekAt("comma", at + 1) /\ UNCHANGED <<key, result>>
     ELSE Return(IF buf[at + 1] \in {"]", "}"} THEN "false" ELSE "true")
  /\ UNCHANGED <<streamInput, buf, unread, dscan, tokenVars, derr, val, out>>

-----------------------------------------------------------------------------
(* readValue.                                                              *)

\* The lexical tokens of the value, as the scanner tells them: a literal begins
\* with scanBeginLiteral and lasts while it says scanContinue.
Lexeme(c, op) ==
  CASE op \in {"beginLiteral", "beginObject", "beginArray", "endObject", "endArray"} -> Append(val, <<c>>)
    [] op = "continue" -> Append(Front(val), Append(Last(val), c))
    [] OTHER -> val

\* The value is buf from scanp to end.
ReadValueDone(end) ==
  /\ scanp' = end
  /\ out' = out \o val'
  /\ tokenState' = (IF key THEN "ObjectColon" ELSE tokenValueEnd(tokenState))
  /\ Return("ok") /\ UNCHANGED derr

Fails(e) == derr' = e /\ Return(e) /\ UNCHANGED <<scanp, tokenState, out>>

ReadValueByte ==
  /\ stage = "value" /\ at < Len(buf)
  /\ LET s == Step(dscan, buf[at + 1])
         t == IF s.op \in {"endObject", "endArray"} THEN stateEndValue(s, "_") ELSE s
     IN /\ dscan' = t /\ val' = Lexeme(buf[at + 1], s.op)
        /\ CASE s.op = "end" -> ReadValueDone(at)
             [] s.op # "end" /\ t.op = "end" -> ReadValueDone(at + 1)
             [] t.op = "error" -> Fails("syntax")
             [] t.op \notin {"end", "error"} ->
                  at' = at + 1 /\ UNCHANGED <<scanp, tokenState, derr, stage, lerr, key, out, result>>
  /\ UNCHANGED <<streamInput, buf, unread, tokenStack>>

ReadValueMore == refill /\ UNCHANGED <<dscan, tokenState, derr, stage, key, out, result>>

nonSpace(b) == \E i \in DOMAIN b : ~isSpace(b[i])

ReadValueEnd ==
  /\ stage = "value" /\ at = Len(buf) /\ UNCHANGED val
  /\ LET t == Step(dscan, "_")
     IN CASE lerr = None -> ReadValueMore
          [] lerr = "EOF" /\ t.op = "end" -> dscan' = t /\ ReadValueDone(at) /\ UNCHANGED <<buf, unread>>
          [] lerr = "EOF" /\ t.op # "end" ->
               /\ dscan' = t /\ UNCHANGED <<buf, unread>>
               /\ Fails(IF nonSpace(buf) THEN "unexpectedEOF" ELSE "EOF")
          [] lerr = "fail" -> Fails("fail") /\ UNCHANGED <<buf, unread, dscan>>
  /\ UNCHANGED <<streamInput, tokenStack>>

-----------------------------------------------------------------------------

StreamNext ==
  \/ CallToken \/ CallMore \/ CallDecode
  \/ peekFrom \/ BeginDelim \/ EndDelim \/ Separator \/ ValueToken \/ Prepared \/ Answered
  \/ ReadValueByte \/ ReadValueEnd

StreamSpec == StreamInit /\ [][StreamNext]_streamVars

-----------------------------------------------------------------------------

\* The reference: the lexical tokens of a text up to where it stops being
\* one, without the separators.
RECURSIVE Lex(_, _)
Lex(t, i) ==
  LET blank == Max(Blanks(t, i))
      ends == IF At(t, blank, "\"") THEN StringRest(t, blank + 1)
              ELSE Number(t, blank) \cup Keyword(t, blank)
  IN CASE blank > Len(t) -> << >>
       [] blank <= Len(t) /\ t[blank] \in {",", ":"} -> Lex(t, blank + 1)
       [] blank <= Len(t) /\ t[blank] \in {"[", "]", "{", "}"} -> <<<<t[blank]>>>> \o Lex(t, blank + 1)
       [] blank <= Len(t) /\ ends # {} ->
            <<SubSeq(t, blank, Max(ends) - 1)>> \o Lex(t, Max(ends))
       [] OTHER -> << >>

\* The delimiters of ts that are still open.
RECURSIVE Open(_)
Open(ts) ==
  IF ts = << >> THEN << >>
  ELSE LET t == Last(ts)[1] o == Open(Front(ts))
       IN IF t \in {"[", "{"} THEN Append(o, t)
          ELSE IF t \in {"]", "}"} THEN (IF o = << >> THEN <<"unmatched">> ELSE Front(o)) ELSE o

\* Where a text stops being a sequence of values, or its end.
RECURSIVE ErrorAt(_, _, _)
ErrorAt(t, i, s) ==
  IF i > Len(t) THEN i
  ELSE LET next == Step(s, t[i])
       IN IF ~next.err THEN ErrorAt(t, i + 1, next)
          ELSE IF s.endTop THEN ErrorAt(t, i, reset) ELSE i
ErrorFree == ErrorAt(streamInput, 1, reset) > Len(streamInput)

\* Whatever pieces the input comes in and whatever mix of calls is made, the
\* tokens handed out are those of the text up to where it stops being JSON, in
\* order, none twice and none left out; the delimiters among them match, and
\* tokenStack is as deep as they are open; and EOF is reported only when no
\* token is left.
StreamInv ==
  /\ IsPrefix(out, Lex(SubSeq(streamInput, 1, ErrorAt(streamInput, 1, reset) - 1), 1))
  /\ Len(Open(out)) = Len(tokenStack)
  /\ Open(out) # <<"unmatched">>
  /\ \A i \in 1 .. Len(Open(out)) : i > 1 =>
       tokenStack[i] \in (IF Open(out)[i - 1] = "[" THEN {"ArrayStart", "ArrayValue"} ELSE {"ObjectValue"})
  /\ result = "EOF" => out = Lex(streamInput, 1)

\* More is believed: no call that follows it finds the array or object to end
\* where More said there is an element, and none finds an element where it
\* said there is none, whatever was in the buffer; and Token finds no error in
\* a text without one, wherever its pieces end.  A false that is due to a
\* failing reader, which may go on later, says nothing.
MoreIsRight ==
  [][/\ Len(out') > Len(out) =>
         /\ result = "true" => out'[Len(out) + 1][1] \notin {"]", "}"}
         /\ result = "false" => out'[Len(out) + 1][1] \in {"]", "}"}
     /\ stage = "token" /\ stage' = "idle" /\ result' = "syntax" /\ derr' = None => ~ErrorFree]_streamVars
=============================================================================
