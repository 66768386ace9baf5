------------------------------ MODULE JsonFormat ------------------------------
(***************************************************************************)
(* common/json/internal/contextjson, comment.go and indent.go: comments    *)
(* are taken out of a text and given the path of the value they belong to, *)
(* and put back into another text by that path; a text is compacted, and   *)
(* indented with its comments kept.                                        *)
(*                                                                         *)
(* Positions are indices into a text and ends are exclusive.  "<" stands   *)
(* for the bytes HTML escaping replaces.                                   *)
(***************************************************************************)
EXTENDS JsonGrammar, Integers, SequencesExt

HtmlUnsafe == {"<"}
HtmlEscaped == <<"\\", "u", "0", "0", "1", "a">>

-----------------------------------------------------------------------------
(* Taking comments out.                                                    *)

FirstOr(S, d) == IF S = {} THEN d ELSE Min(S)

\* Where the text of a comment ends: before the line end, or before */, or
\* with the input.
LineTextEnd(d, i) == FirstOr({k \in i .. Len(d) : d[k] \in NewLines}, Len(d) + 1)
BlockTextEnd(d, i) == FirstOr({k \in i .. Len(d) - 1 : d[k] = "*" /\ d[k + 1] = "/"}, Len(d) + 1)

CommentKind(d, i) ==
  CASE At(d, i, "#") -> "#"
    [] At(d, i, "/") /\ At(d, i + 1, "/") -> "//"
    [] At(d, i, "/") /\ At(d, i + 1, "*") -> "/*"
    [] OTHER -> ""

RECURSIVE StringEnd(_, _)
StringEnd(d, i) ==
  CASE i > Len(d) -> i
    [] i <= Len(d) /\ d[i] = "\\" -> StringEnd(d, i + 2)
    [] i <= Len(d) /\ d[i] = "\"" -> i + 1
    [] OTHER -> StringEnd(d, i + 1)
skipJSONString(d, start) == StringEnd(d, start + 1)

Unclosed == <<[kind |-> "unclosed"]>>

\* The comments of d from i on, in order.
RECURSIVE CommentsFrom(_, _)
CommentsFrom(d, i) ==
  LET kind == CommentKind(d, i)
      body == IF kind = "#" THEN i + 1 ELSE i + 2
      end == IF kind = "/*" THEN BlockTextEnd(d, body) ELSE LineTextEnd(d, body)
      after == IF kind = "/*" THEN end + 2 ELSE end
  IN CASE i > Len(d) -> << >>
       [] At(d, i, "\"") -> CommentsFrom(d, skipJSONString(d, i))
       [] kind = "" /\ i <= Len(d) /\ d[i] # "\"" -> CommentsFrom(d, i + 1)
       [] kind = "/*" /\ end > Len(d) -> Unclosed
       [] kind # "" /\ ~(kind = "/*" /\ end > Len(d)) ->
            <<[kind |-> kind, text |-> SubSeq(d, body, end - 1), start |-> i, end |-> after]>>
              \o CommentsFrom(d, after)

StripFails(d) == LET cs == CommentsFrom(d, 1) IN cs # << >> /\ Last(cs).kind = "unclosed"

blankComment(d, cs) ==
  [i \in 1 .. Len(d) |->
     IF d[i] \notin NewLines /\ \E k \in DOMAIN cs : cs[k].start <= i /\ i < cs[k].end
     THEN "_" ELSE d[i]]

(***************************************************************************)
(* The values of a text without comments, each with its path: the position *)
(* where it begins (an object member begins with its key) and where it     *)
(* ends.  A path is a sequence of keys and of indices.                     *)
(***************************************************************************)
RECURSIVE skipSpaces(_, _), parseValue(_, _, _, _), Members(_, _, _, _, _)
skipSpaces(d, i) == IF i <= Len(d) /\ isSpace(d[i]) THEN skipSpaces(d, i + 1) ELSE i

parseLiteralEnd(d, i) ==
  FirstOr({k \in i .. Len(d) : isSpace(d[k]) \/ d[k] \in {",", "}", "]", ":"}}, Len(d) + 1)

\* The result of a parse: the nodes found, the position behind, whether it is whole.
Node(path, start, end) == <<[path |-> path, start |-> start, end |-> end]>>
Parsed(nodes, i, ok) == [nodes |-> nodes, i |-> i, ok |-> ok]

parseValue(d, from, path, anchor) ==
  LET i == skipSpaces(d, from)
      end == IF d[i] = "\"" THEN skipJSONString(d, i) ELSE parseLiteralEnd(d, i)
  IN CASE i > Len(d) -> Parsed(<< >>, i, FALSE)
       [] At(d, i, "{") -> Members(d, i + 1, path, anchor, 0)
       [] At(d, i, "[") -> Members(d, i + 1, path, anchor, 1)
       [] i <= Len(d) /\ d[i] \notin {"{", "["} ->
            IF end = i THEN Parsed(<< >>, i + 1, FALSE)
            ELSE Parsed(Node(path, anchor, end), end, TRUE)

\* parseObject (index = 0) and parseArray (index = the next element, from 1):
\* the members from i on and the node of the whole, behind its members.
Members(d, from, path, anchor, index) ==
  LET i == skipSpaces(d, from)
      keyEnd == skipJSONString(d, i)
      colon == skipSpaces(d, keyEnd)
      value == IF index = 0
               THEN parseValue(d, IF At(d, colon, ":") THEN colon + 1 ELSE colon,
                               Append(path, SubSeq(d, i, keyEnd - 1)), i)
               ELSE parseValue(d, i, Append(path, <<index>>), i)
      j == skipSpaces(d, value.i)
      rest == Members(d, IF At(d, j, ",") THEN j + 1 ELSE j, path, anchor,
                      IF index = 0 THEN 0 ELSE index + 1)
  IN CASE i > Len(d) -> Parsed(<< >>, i, FALSE)
       [] At(d, i, IF index = 0 THEN "}" ELSE "]") -> Parsed(Node(path, anchor, i + 1), i + 1, TRUE)
       [] index = 0 /\ At(d, i, "\"") = FALSE /\ i <= Len(d) /\ d[i] # "}" -> Parsed(<< >>, keyEnd, FALSE)
       [] OTHER -> [rest EXCEPT !.nodes = value.nodes \o @]

collectCommentNodes(d) ==
  LET start == skipSpaces(d, 1)
  IN IF start > Len(d) THEN {} ELSE Range(parseValue(d, start, << >>, start).nodes)

isInlineTrailing(d, from, to) ==
  /\ from <= to
  /\ \A k \in from .. to - 1 : d[k] \in {"_", ","}
  /\ Cardinality({k \in from .. to - 1 : d[k] = ","}) <= 1

commentPathHasPrefix(path, prefix) == IsPrefix(prefix, path)

\* The node a comment belongs to and how: it trails the value before it on
\* the same line, or leads the value behind it, or is inside an empty one.
classifyComment(d, nodes, c) ==
  LET Longest(S) == CHOOSE n \in S : \A m \in S : Len(m.path) <= Len(n.path)
      around == {n \in nodes : n.start <= c.start /\ c.end <= n.end}
      inside == {n \in nodes : around = {} \/ commentPathHasPrefix(n.path, Longest(around).path)}
      before == {n \in inside : n.end <= c.start}
      behind == {n \in inside : n.start >= c.end}
      previous == Longest({n \in before : \A m \in before : m.end <= n.end})
      next == Longest({n \in behind : \A m \in behind : n.start <= m.start})
  IN CASE before # {} /\ isInlineTrailing(d, previous.end, c.start) -> <<"trailing", previous.path>>
       [] behind # {} /\ ~(before # {} /\ isInlineTrailing(d, previous.end, c.start)) -> <<"leading", next.path>>
       [] behind = {} /\ ~(before # {} /\ isInlineTrailing(d, previous.end, c.start)) ->
            IF around # {} THEN <<"inner", Longest(around).path>> ELSE <<"leading", << >>>>

Clean(d) == blankComment(d, CommentsFrom(d, 1))

\* assignCommentPaths: the comments of d, each with its kind, text, placement
\* and path.
assignCommentPaths(d) ==
  LET cs == CommentsFrom(d, 1)
      nodes == collectCommentNodes(Clean(d))
  IN [k \in DOMAIN cs |->
        LET c == classifyComment(d, nodes, cs[k])
        IN [kind |-> cs[k].kind, text |-> cs[k].text, placement |-> c[1], path |-> c[2]]]

\* CommentSet.ForPath: the comments of the value at path, with paths from there.
ForPath(cs, path) ==
  LET mine == SelectSeq(cs, LAMBDA c : commentPathHasPrefix(c.path, path))
  IN [k \in DOMAIN mine |-> [mine[k] EXCEPT !.path = SubSeq(@, Len(path) + 1, Len(@))]]

-----------------------------------------------------------------------------
(* Putting comments into a text.                                           *)

formatComment(c) ==
  LET lead == IF c.placement = "trailing" THEN <<"_">> ELSE << >>
      nl == IF c.placement = "trailing" THEN << >> ELSE <<"nl">>
  IN lead \o (CASE c.kind = "#" -> <<"#">> \o c.text \o <<"nl">>
                [] c.kind = "/*" -> <<"/", "*">> \o c.text \o <<"*", "/">> \o nl
                [] c.kind = "//" -> <<"/", "/">> \o c.text \o <<"nl">>)

trailingCommentInsertOffset(d, offset) ==
  LET k == FirstOr({k \in offset .. Len(d) : d[k] # "_"}, 0)
  IN IF k > 0 /\ At(d, k, ",") THEN k + 1 ELSE offset

commentInsertOffset(d, nodes, c) ==
  LET found == {n \in nodes : n.path = c.path}
      node == CHOOSE n \in found : TRUE
  IN CASE found = {} -> IF c.placement = "trailing" THEN Len(d) + 1 ELSE 1
       [] found # {} /\ c.placement = "trailing" -> trailingCommentInsertOffset(d, node.end)
       [] found # {} /\ c.placement = "inner" ->
            IF d[node.start] \in {"{", "["} THEN node.start + 1 ELSE node.start
       [] found # {} /\ c.placement = "leading" -> node.start

insertJSONComments(d, cs) ==
  LET nodes == collectCommentNodes(d)
      offset == [k \in DOMAIN cs |-> commentInsertOffset(d, nodes, cs[k])]
      here(i) == FlattenSeq([k \in DOMAIN cs |-> IF offset[k] = i THEN formatComment(cs[k]) ELSE << >>])
  IN IF cs = << >> THEN d
     ELSE FlattenSeq([i \in 1 .. Len(d) + 1 |-> here(i) \o (IF i <= Len(d) THEN <<d[i]>> ELSE << >>)])

-----------------------------------------------------------------------------
(* Compact and HTMLEscape.                                                 *)

appendHTMLEscape(d) ==
  FlattenSeq([i \in 1 .. Len(d) |-> IF d[i] \in HtmlUnsafe THEN HtmlEscaped ELSE <<d[i]>>])

\* The bytes appendCompact copies for one byte: what is escaped is copied
\* whatever the scanner says of it, a comment's text included.
CompactByte(c, op, escape) ==
  CASE escape /\ c \in HtmlUnsafe -> HtmlEscaped
    [] ~(escape /\ c \in HtmlUnsafe) /\ op \in {"skipSpace", "end", "error"} -> << >>
    [] OTHER -> <<c>>

appendCompact(d, escape) ==
  LET st == ScanStates(reset, d)
  IN FlattenSeq([i \in 1 .. Len(d) |-> CompactByte(d[i], st[i].op, escape)])

-----------------------------------------------------------------------------
(* Indent.                                                                 *)

\* \r\n is one line end.
consumeLineEnd(d, i) == IF At(d, i, "cr") /\ At(d, i + 1, "nl") THEN i + 2 ELSE i + 1

\* readJSONComment: a line comment ends behind its line end.
readJSONComment(d, i) ==
  LET kind == CommentKind(d, i)
      body == IF kind = "#" THEN i + 1 ELSE i + 2
      end == IF kind = "/*" THEN BlockTextEnd(d, body) ELSE LineTextEnd(d, body)
  IN [kind |-> kind, text |-> SubSeq(d, body, end - 1), closed |-> kind # "/*" \/ end <= Len(d),
      end |-> Min({Len(d) + 1, IF kind = "/*" THEN end + 2 ELSE consumeLineEnd(d, end)})]

containsLineBreak(w) == \E k \in DOMAIN w : w[k] \in NewLines

nextCommentInline(d, i) ==
  LET k == FirstOr({k \in i .. Len(d) : d[k] # "_"}, Len(d) + 1)
      c == readJSONComment(d, k)
  IN /\ CommentKind(d, k) # "" /\ c.closed
     /\ c.kind # "/*" \/ ~containsLineBreak(c.text)

\* What is written so far; needIndent, depth, atLineStart and lineHasContent.
Writer == [dst |-> << >>, need |-> FALSE, depth |-> 0, lineStart |-> TRUE, content |-> FALSE]

appendIndentPrefix(depth) == [k \in 1 .. depth |-> "_"]
Break(o) == [o EXCEPT !.dst = Append(@, "nl"), !.lineStart = TRUE, !.content = FALSE]
Write(o, w) ==
  [o EXCEPT !.dst = @ \o (IF o.lineStart THEN appendIndentPrefix(o.depth) ELSE << >>) \o w,
            !.lineStart = FALSE, !.content = TRUE]

\* A comment behind something on its line gets no indent.
WriteComment(o, w) == Write([o EXCEPT !.lineStart = @ /\ ~o.content], w)

appendSpaceBeforeInlineComment(o) ==
  IF o.dst = << >> \/ isSpace(Last(o.dst)) THEN o ELSE [o EXCEPT !.dst = Append(@, "_")]

lastNonSpaceByte(w) ==
  LET ks == {k \in DOMAIN w : ~isSpace(w[k])} IN IF ks = {} THEN "" ELSE w[Max(ks)]

\* A comment's text, its further lines shifted by what they are indented in
\* common, less one.
Lines(text) ==
  LET second == {k \in DOMAIN text \ {1} : text[k] = "nl" /\ text[k - 1] = "cr"}
      breaks == {0, Len(text) + 1} \cup ({k \in DOMAIN text : text[k] \in NewLines} \ second)
  IN [n \in 1 .. Cardinality(breaks) - 1 |->
        LET b == CHOOSE b \in breaks : Cardinality({c \in breaks : c <= b}) = n
        IN SubSeq(text, IF b + 1 \in second THEN b + 2 ELSE b + 1, Min({c \in breaks : c > b}) - 1)]
leadingCommentIndent(line) == FirstOr({k \in DOMAIN line : line[k] # "_"}, Len(line) + 1) - 1
blockCommentTrim(lines) ==
  LET indents == {leadingCommentIndent(lines[n]) :
                    n \in {n \in 2 .. Len(lines) : leadingCommentIndent(lines[n]) < Len(lines[n])}}
  IN IF indents = {} \/ Min(indents) <= 1 THEN 0 ELSE Min(indents) - 1
trimBlockCommentLine(line, trim) ==
  SubSeq(line, Min({leadingCommentIndent(line), trim}) + 1, Len(line))
appendMultilineBlockComment(text, depth) ==
  LET lines == Lines(text)
      trim == blockCommentTrim(lines)
  IN <<"/", "*">> \o lines[1] \o FlattenSeq([n \in 1 .. Len(lines) - 1 |->
       <<"nl">> \o appendIndentPrefix(depth) \o trimBlockCommentLine(lines[n + 1], trim)])
     \o <<"*", "/">>

appendBlockJSONComment(o, text) ==
  LET comma == o.content /\ lastNonSpaceByte(o.dst) = ","
      p == IF o.content THEN appendSpaceBeforeInlineComment(o) ELSE o
      q == WriteComment(p, <<"/", "*">> \o text \o <<"*", "/">>)
      r == IF o.content THEN Break(o) ELSE o
  IN IF ~containsLineBreak(text) THEN (IF ~o.content \/ comma THEN Break(q) ELSE q)
     ELSE Break(WriteComment(r, appendMultilineBlockComment(text, o.depth)))

appendJSONComment(o, c) ==
  IF c.kind = "/*" THEN appendBlockJSONComment(o, c.text)
  ELSE Break(WriteComment(IF o.content THEN appendSpaceBeforeInlineComment(o) ELSE o,
                          (IF c.kind = "#" THEN <<"#">> ELSE <<"/", "/">>) \o c.text))

\* One byte that is neither space nor in a comment.
IndentByte(o, d, i, op) ==
  LET c == d[i]
      p == IF o.need /\ op \notin {"endObject", "endArray"} THEN [Break(o) EXCEPT !.need = FALSE] ELSE o
      down == [p EXCEPT !.depth = @ - 1]
      close == IF down.need THEN [down EXCEPT !.need = FALSE]
               ELSE IF down.content THEN Break(down) ELSE down
  IN CASE op \in {"beginObject", "beginArray"} ->
            [Write(p, <<c>>) EXCEPT !.need = TRUE, !.depth = @ + 1]
       [] op \in {"objectValue", "arrayValue"} ->
            LET q == [p EXCEPT !.dst = Append(@, c), !.content = TRUE]
            IN IF nextCommentInline(d, i + 1) THEN q ELSE Break(q)
       [] op = "objectKey" -> [p EXCEPT !.dst = @ \o <<c, "_">>, !.content = TRUE, !.lineStart = FALSE]
       [] op \in {"endObject", "endArray"} -> Write(close, <<c>>)
       [] OTHER -> Write(p, <<c>>)

RECURSIVE IndentFrom(_, _, _, _)
IndentFrom(o, d, i, s) ==
  LET t == Step(s, d[i])
      c == readJSONComment(d, i)
      u == Last(<<t>> \o ScanStates(t, SubSeq(d, i + 1, c.end - 1)))
      p == IF o.need THEN [Break(o) EXCEPT !.need = FALSE] ELSE o
  IN CASE i > Len(d) -> IF eof(s).op = "error" THEN <<"error">> ELSE o.dst
       [] i <= Len(d) /\ t.op = "error" -> <<"error">>
       [] i <= Len(d) /\ t.op = "skipSpace" /\ CommentKind(d, i) # "" ->
            IndentFrom(IF c.closed THEN appendJSONComment(p, c) ELSE o, d, c.end, u)
       [] i <= Len(d) /\ t.op = "skipSpace" /\ CommentKind(d, i) = "" -> IndentFrom(o, d, i + 1, t)
       [] i <= Len(d) /\ t.op \notin {"error", "skipSpace"} ->
            IndentFrom(IndentByte(o, d, i, t.op), d, i + 1, t)

appendIndent(d) == IndentFrom(Writer, d, 1, reset)

-----------------------------------------------------------------------------
(* common/json/comment.go: CommentFilter, a reader that passes JSON on     *)
(* without its comments.  A line comment ends at \n only.  A byte may       *)
(* release two at once; what does not fit into the caller's buffer waits   *)
(* in pending for the next Read.                                           *)

\* What one byte does: the next state and the bytes to emit.
Quotes == [DoubleQuote |-> "\"", SingleQuote |-> "'"]
EscapeOf == [Content |-> "Escape", DoubleQuote |-> "DoubleQuoteEscape", SingleQuote |-> "SingleQuoteEscape"]
FilterByte(state, x) ==
  CASE state \in DOMAIN EscapeOf /\ x = "\\" -> <<EscapeOf[state], << >>>>
    [] state = "Content" /\ x = "\"" -> <<"DoubleQuote", <<x>>>>
    [] state = "Content" /\ x = "'" -> <<"SingleQuote", <<x>>>>
    [] state = "Content" /\ x = "#" -> <<"Comment", << >>>>
    [] state = "Content" /\ x = "/" -> <<"Slash", << >>>>
    [] state \in DOMAIN Quotes /\ x = Quotes[state] -> <<"Content", <<x>>>>
    [] state \in {"Content", "DoubleQuote", "SingleQuote"} -> <<state, <<x>>>>
    [] state = "Escape" -> <<"Content", <<"\\", x>>>>
    [] state = "DoubleQuoteEscape" -> <<"DoubleQuote", <<"\\", x>>>>
    [] state = "SingleQuoteEscape" -> <<"SingleQuote", <<"\\", x>>>>
    [] state = "Comment" -> IF x = "nl" THEN <<"Content", <<x>>>> ELSE <<state, << >>>>
    [] state = "Slash" /\ x = "/" -> <<"Comment", << >>>>
    [] state = "Slash" /\ x = "*" -> <<"MultilineComment", << >>>>
    [] state = "Slash" -> <<"Content", <<"/", x>>>>
    [] state = "MultilineCommentStar" /\ x = "/" -> <<"Content", << >>>>
    [] state \in {"MultilineComment", "MultilineCommentStar"} ->
         <<IF x = "*" THEN "MultilineCommentStar" ELSE "MultilineComment",
           IF x = "nl" THEN <<x>> ELSE << >>>>

\* The reader: its state, what waits, what its source still has, and what the
\* current Read has put into its buffer of size bytes.
Filter(data) == [state |-> "Content", pending |-> << >>, rest |-> data, n |-> << >>]

emit(f, bs, size) ==
  LET all == f.n \o bs
      fits == IF Len(all) < size THEN Len(all) ELSE size
  IN [f EXCEPT !.n = SubSeq(all, 1, fits), !.pending = SubSeq(all, fits + 1, Len(all))]

\* The loop of Read, until the buffer is full or the source is at its end; a
\* slash that waits for its second byte is emitted then.
RECURSIVE ReadLoop(_, _)
ReadLoop(f, size) ==
  LET b == FilterByte(f.state, f.rest[1])
      g == emit([f EXCEPT !.state = b[1], !.rest = Tail(@)], b[2], size)
  IN CASE Len(f.n) >= size -> f
       [] Len(f.n) < size /\ f.rest = << >> ->
            IF f.state = "Slash" THEN emit([f EXCEPT !.state = "Content"], <<"/">>, size) ELSE f
       [] Len(f.n) < size /\ f.rest # << >> -> IF g.pending # << >> THEN g ELSE ReadLoop(g, size)

FilterRead(f, size) ==
  LET g == emit([f EXCEPT !.n = << >>, !.pending = << >>], f.pending, size)
  IN IF g.pending # << >> THEN g ELSE ReadLoop(g, size)

\* Everything Read returns, with buffers of size bytes, until it returns EOF.
RECURSIVE FilterReads(_, _)
FilterReads(f, size) ==
  LET g == FilterRead(f, size) IN IF g.n = << >> THEN << >> ELSE g.n \o FilterReads(g, size)
FilterAll(data, size) == FilterReads(Filter(data), size)
=============================================================================
