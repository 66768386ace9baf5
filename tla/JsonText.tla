------------------------------- MODULE JsonText -------------------------------
(***************************************************************************)
(* Every text over small sets of words goes through                        *)
(* common/json/internal/contextjson: checkValid drives the scanner over it *)
(* as it grows, and where it may end it is stripped of its comments,       *)
(* compacted, indented and given its comments back.                        *)
(***************************************************************************)
EXTENDS JsonFormat, JsonRead

CONSTANTS Alphabets,   \* sets of words; the words of a text are from one of them
          MaxWords     \* the most words of a text

VARIABLES alphabet, words, text, scan

scanVars == <<alphabet, words, text, scan>>

ScanInit == alphabet \in Alphabets /\ words = 0 /\ text = << >> /\ scan = reset

\* Rounds of checkValid's loop, one for each byte of a word.
ScanWord ==
  /\ words < MaxWords /\ scan.op # "error"
  /\ \E w \in alphabet :
       LET st == ScanStates(scan, w)
           stop == FirstOr({k \in DOMAIN w : st[k].op = "error"}, Len(w))
       IN text' = text \o w /\ scan' = st[stop]
  /\ words' = words + 1
  /\ UNCHANGED alphabet

ScanSpec == ScanInit /\ [][ScanWord]_scanVars

-----------------------------------------------------------------------------

\* What checkValid answers when the input ends here.
IsValid == scan.op # "error" /\ eof(scan).op # "error"

\* A single slash at the end of the input, where a comment may begin.
DanglingSlash(t) == t # << >> /\ t[Len(t)] = "/" /\ InGrammar(SubSeq(t, 1, Len(t) - 1))

\* Valid accepts exactly the grammar's texts, and those with a slash behind
\* that begins no comment: eof looks at endTop before the unfinished comment.
ValidIsGrammar == IsValid <=> InGrammar(text) \/ DanglingSlash(text)

\* A Number may be written exactly when its text is a number of the grammar.
NumbersAgree == isValidNumber(text) <=> text # << >> /\ Len(text) + 1 \in Number(text, 1)

\* The tokens of a text, its separators among them: its meaning.
RECURSIVE Tokens(_, _)
Tokens(t, i) ==
  LET b == Max(Blanks(t, i))
      ends == IF At(t, b, "\"") THEN StringRest(t, b + 1) ELSE Number(t, b) \cup Keyword(t, b)
      end == IF t[b] \in {"[", "]", "{", "}", ",", ":"} THEN b + 1 ELSE Max(ends)
  IN IF b > Len(t) \/ (t[b] = "/" /\ b = Len(t)) THEN << >> ELSE <<SubSeq(t, b, end - 1)>> \o Tokens(t, end)

Escaped(ts) == [k \in DOMAIN ts |-> appendHTMLEscape(ts[k])]

\* Texts of comments only, without what surrounds them.
CommentTexts(t) == LET cs == CommentsFrom(t, 1) IN [k \in DOMAIN cs |-> <<cs[k].kind, cs[k].text>>]

\* Stripping the comments changes neither whether a text is accepted nor what
\* it means, and moves nothing.
StripKeeps ==
  IF StripFails(text) THEN ~IsValid
  ELSE /\ checkValid(Clean(text)) <=> IsValid
       /\ IsValid => Tokens(Clean(text), 1) = Tokens(text, 1)
       /\ CommentsFrom(Clean(text), 1) = << >>

\* A line comment that ends with a \r of its own.
EndsAtReturn(t) ==
  \E k \in DOMAIN CommentsFrom(t, 1) :
    LET c == CommentsFrom(t, 1)[k] IN c.kind # "/*" /\ At(t, c.end, "cr") /\ ~At(t, c.end + 1, "nl")

\* CommentFilter passes the same bytes on, with whatever buffers it is read,
\* and these have the tokens of the text, unless a line comment ends with \r:
\* to the filter it goes on to the next \n, to the scanner it does not.
FilterKeeps ==
  /\ \A size \in 1 .. 3 : FilterAll(text, size) = FilterAll(text, Len(text) + 2)
  /\ ~EndsAtReturn(text) => Tokens(FilterAll(text, 1), 1) = Tokens(text, 1)

\* Compacting leaves the tokens and nothing else; with HTML escaping each has
\* its unsafe bytes escaped, when no comment holds one.
CompactKeeps ==
  LET ts == Tokens(text, 1)
      unsafe == \E k \in DOMAIN CommentTexts(text) :
                  \E j \in DOMAIN CommentTexts(text)[k][2] : CommentTexts(text)[k][2][j] \in HtmlUnsafe
  IN /\ appendCompact(text, FALSE) = FlattenSeq(ts)
     /\ ~unsafe => appendCompact(text, TRUE) = FlattenSeq(Escaped(ts))

\* "The characters can only appear in string literals" (indent.go:20): with HTML
\* escaping too, what compacting leaves of a text is its tokens.
CompactEscapes == InGrammar(text) => appendCompact(text, TRUE) = FlattenSeq(Escaped(Tokens(text, 1)))

\* Indenting keeps the tokens and every comment, in order, and a text that is
\* already indented stays as it is, when nothing follows the value (what does
\* is copied).
SameComment(c, d) == containsLineBreak(d[2]) \/ c = d
SameComments(cs, ds) == Len(cs) = Len(ds) /\ \A k \in DOMAIN cs : SameComment(cs[k], ds[k])
IndentedRight(out, ts) ==
  /\ InGrammar(out)
  /\ Tokens(out, 1) = ts
  /\ SameComments(CommentTexts(out), CommentTexts(text))
  /\ Last(text) = Last(Last(ts)) => appendIndent(out) = out
IndentKeeps == IndentedRight(appendIndent(text), Tokens(text, 1))

\* A value's text x, compact and with the comments cs that decoding gave it
\* put back (commentMarshalerEncoder); it is as it was when they are read again.
Rewritten(x, cs) == insertJSONComments(appendCompact(x, FALSE), cs)
Described(cs) == {<<cs[k].kind, cs[k].text, cs[k].path>> : k \in DOMAIN cs}
Trailing(cs) == SelectSeq(cs, LAMBDA c : c.placement = "trailing")
StillHas(ds, cs) == Len(ds) = Len(cs) /\ Described(Trailing(cs)) \subseteq Described(ds)
WrittenRight(w, x, cs) ==
  /\ InGrammar(w)
  /\ Tokens(w, 1) = Tokens(x, 1)
  /\ StillHas(assignCommentPaths(w), cs)
RewrittenRight(x, cs) == WrittenRight(Rewritten(x, cs), x, cs)

\* A value that is decoded with its comments and written again, compact, is
\* the same value with as many comments, and what trailed a value trails it.
StayIn(x, cs) ==
  \A n \in {n \in collectCommentNodes(x) : n.path = << >> \/ Len(Last(n.path)) = 1} :
    RewrittenRight(SubSeq(x, n.start, n.end - 1), ForPath(cs, n.path))
CommentsStay == StayIn(Clean(text), assignCommentPaths(text))

\* The tree of a text, from its tokens.
RECURSIVE TreeAt(_, _), ItemsAt(_, _, _, _)
TreeAt(ts, i) ==
  CASE ts[i] = <<"[">> -> ItemsAt(ts, i + 1, << >>, "arr")
    [] ts[i] = <<"{">> -> ItemsAt(ts, i + 1, << >>, "obj")
    [] ts[i] \notin {<<"[">>, <<"{">>} -> <<<<"lit", ts[i]>>, i + 1>>
ItemsAt(ts, i, vs, kind) ==
  LET r == TreeAt(ts, IF kind = "arr" THEN i ELSE i + 2)
      next == IF ts[r[2]] = <<",">> THEN r[2] + 1 ELSE r[2]
  IN IF ts[i] \in {<<"]">>, <<"}">>} THEN <<<<kind, vs>>, i + 1>>
     ELSE ItemsAt(ts, next, Append(vs, IF kind = "arr" THEN r[1] ELSE <<ts[i], r[1]>>), kind)

\* The decoder starts at d in x and gives r.
ReadsTree(x, d, r) ==
  /\ r.val = TreeAt(Tokens(text, 1), 1)[1]
  /\ r.d.opcode = "end"
  /\ d.opcode \in {"beginArray", "beginObject"} => scanNext(x, skip(x, d)) = r.d

\* The decoder, which does not scan literals again, builds the text's tree,
\* stays in step with the scanner to the end, and skips what it would read; a
\* Number may be written exactly when its text is a number.
ReadsMeaning ==
  /\ NumbersAgree
  /\ InGrammar(text) => ReadsTree(Clean(text), FirstValue(Clean(text)), ReadText(Clean(text)))

\* Formatting never changes what a text means.
FormatKeepsMeaning ==
  /\ StripKeeps
  /\ InGrammar(text) => FilterKeeps /\ CompactKeeps /\ IndentKeeps /\ CommentsStay

=============================================================================
