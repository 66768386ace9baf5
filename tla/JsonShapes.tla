------------------------------ MODULE JsonShapes ------------------------------
(***************************************************************************)
(* The shapes encode.go has to cope with: structs that embed each other,   *)
(* field by field, pointers that form cycles, link by link, and strings,   *)
(* rune by rune.                                                           *)
(***************************************************************************)
EXTENDS JsonEncode

CONSTANTS Fields,   \* from struct names to the fields each may have
          Cells,    \* the cells of the heap
          MaxLinks, \* the most references of a cell
          MaxRunes  \* the longest string

-----------------------------------------------------------------------------
(* Strings as they are written (encode.go, appendString and the tables of  *)
(* tables.go) and read (decode.go, unquoteBytes).                          *)
(*                                                                         *)
(* A rune is named for what the code does about it: "safe", "html" for <,  *)
(* > and &, "quote" for the quote and the backslash, "named" for the five  *)
(* control characters with an escape of their own, "ctl" for the others,   *)
(* "ls" for U+2028 and U+2029, "wide" and "astral" below and above 0x10000,*)
(* "rep" for U+FFFD; "bad" is a byte that is not UTF-8.  A unit of the     *)
(* text is <<"raw", rune>>, <<"esc", rune>> or <<"u", rune>>, the last     *)
(* also for the surrogates "hi" and "lo".                                  *)

\* tables.go: the runes below 0x80 that stand for themselves.
safeSet == {"safe", "html"}
htmlSafeSet == {"safe"}
Ascii == {"safe", "html", "quote", "named", "ctl"}

AppendRune(r, escapeHTML) ==
  CASE r \in htmlSafeSet \/ (~escapeHTML /\ r \in safeSet) -> <<"raw", r>>
    [] r \in {"quote", "named"} -> <<"esc", r>>
    [] r = "ctl" \/ (r = "html" /\ escapeHTML) \/ r = "ls" -> <<"u", r>>
    [] r = "bad" -> <<"u", "rep">>
    [] OTHER -> <<"raw", r>>
appendString(src, escapeHTML) == [k \in DOMAIN src |-> AppendRune(src[k], escapeHTML)]

\* getu4, with -1 for what is no escape of four digits.
getu4(s, r) == IF r <= Len(s) /\ s[r][1] = "u" THEN s[r][2] ELSE "none"
IsSurrogate(r) == r \in {"hi", "lo"}

Unquoted(ok, t) == [ok |-> ok, t |-> t]

\* The loop of unquoteBytes from unit r on, with b written.
RECURSIVE UnquoteFrom(_, _, _)
UnquoteFrom(s, r, b) ==
  LET c == s[r]
  IN CASE r > Len(s) -> Unquoted(TRUE, b)
       [] r <= Len(s) /\ c[1] = "esc" ->
            IF c[2] \in {"quote", "named", "slash"} THEN UnquoteFrom(s, r + 1, Append(b, c[2])) ELSE Unquoted(FALSE, << >>)
       [] r <= Len(s) /\ c[1] = "u" ->
            CASE c[2] = "none" -> Unquoted(FALSE, << >>)
              [] c[2] = "hi" /\ getu4(s, r + 1) = "lo" -> UnquoteFrom(s, r + 2, Append(b, "astral"))
              [] OTHER -> UnquoteFrom(s, r + 1, Append(b, IF IsSurrogate(c[2]) THEN "rep" ELSE c[2]))
       [] r <= Len(s) /\ c[1] = "raw" ->
            IF c[2] \in {"quote", "named", "ctl"} THEN Unquoted(FALSE, << >>)
            ELSE UnquoteFrom(s, r + 1, Append(b, IF c[2] = "bad" THEN "rep" ELSE c[2]))
unquoteBytes(s) == UnquoteFrom(s, 1, << >>)

-----------------------------------------------------------------------------
VARIABLES decls, heap, runes, units

shapeVars == <<decls, heap, runes, units>>

NoDecls == [s \in DOMAIN Fields |-> << >>]
NoLinks == [c \in Cells |-> << >>]
ShapeInit == decls = NoDecls /\ heap = NoLinks /\ runes = << >> /\ units = << >>

\* Go allows two fields of one struct, not two of one name.
Declare ==
  /\ heap = NoLinks /\ runes = << >> /\ units = << >>
  /\ \E s \in DOMAIN Fields : \E f \in Fields[s] :
       /\ Len(decls[s]) < 2 /\ \A k \in DOMAIN decls[s] : decls[s][k].name # f.name
       /\ decls' = [decls EXCEPT ![s] = Append(@, f)]
  /\ UNCHANGED <<heap, runes, units>>

Link ==
  /\ decls = NoDecls /\ runes = << >> /\ units = << >>
  /\ \E c, e \in Cells : Len(heap[c]) < MaxLinks /\ heap' = [heap EXCEPT ![c] = Append(@, e)]
  /\ UNCHANGED <<decls, runes, units>>

AllRunes == {"safe", "html", "quote", "named", "ctl", "ls", "wide", "astral", "bad"}
AllUnits ==
  {<<"raw", r>> : r \in AllRunes} \cup {<<"esc", r>> : r \in {"quote", "named", "slash", "other"}}
  \cup {<<"u", r>> : r \in {"safe", "quote", "hi", "lo", "none"}}

AddRune ==
  /\ decls = NoDecls /\ heap = NoLinks /\ units = << >> /\ Len(runes) < MaxRunes
  /\ \E r \in AllRunes : runes' = Append(runes, r)
  /\ UNCHANGED <<decls, heap, units>>

AddUnit ==
  /\ decls = NoDecls /\ heap = NoLinks /\ runes = << >> /\ Len(units) < MaxRunes
  /\ \E u \in AllUnits : units' = Append(units, u)
  /\ UNCHANGED <<decls, heap, runes>>

ShapeNext == Declare \/ Link \/ AddRune \/ AddUnit
ShapeSpec == ShapeInit /\ [][ShapeNext]_shapeVars

-----------------------------------------------------------------------------

\* Every field that is reachable through embedded structs without entering a
\* struct twice on the way: what Go's rules for visibility are about.
RECURSIVE Reachable(_, _, _, _)
Reachable(S, t, index, on) ==
  LET decl == S[t[2]]
      Listed(sf) == ~SkippedField(sf) /\ (sf.tag # "" \/ ~sf.anonymous \/ ~IsStruct(Elem(sf.type)))
      Enters(sf) == ~SkippedField(sf) /\ ~Listed(sf) /\ Elem(sf.type) \notin on
  IN {ListedField(decl[i], Append(index, i)) : i \in {i \in DOMAIN decl : Listed(decl[i])}}
     \cup UNION {Reachable(S, Elem(decl[i].type), Append(index, i), on \cup {Elem(decl[i].type)}) :
                   i \in {i \in DOMAIN decl : Enters(decl[i])}}

\* The visible ones: alone at the least depth, or the only tagged one there.
Visible(S, t) ==
  LET all == Reachable(S, t, << >>, {t})
      Least(n) == LET same == {f \in all : f.name = n}
                      least == Min({Len(f.index) : f \in same})
                  IN {f \in same : Len(f.index) = least}
      Best(n) == LET ts == {f \in Least(n) : f.tag} IN IF ts # {} THEN ts ELSE Least(n)
  IN {f \in all : Best(f.name) = {f}}

\* typeFields lists the visible fields, each with its index, and no others but
\* the fields of a struct that is embedded once in a struct that is itself
\* embedded twice at one depth: only the latter is counted.
FieldsVisible ==
  LET t == <<"struct", "T">>
      out == typeFields(decls, t)
      visible == Visible(decls, t)
      all == Reachable(decls, t, << >>, {t})
      Twin(f, g) == /\ f # g /\ f.name = g.name /\ Len(f.index) = Len(g.index)
                    /\ f.index[Len(f.index)] = g.index[Len(g.index)]
  IN /\ visible \subseteq Range(out)
     /\ \A f \in Range(out) \ visible : Len(f.index) >= 4 /\ \E g \in all : Twin(f, g)
     /\ \A j, k \in DOMAIN out : j < k => out[j].name # out[k].name /\ IndexBefore(out[j].index, out[k].index)

\* "subject to the usual Go visibility rules" (encode.go:158): the fields that
\* have a JSON name are those that Go would let be selected, or the tagged one
\* among several at the least depth.
GoVisibility == Range(typeFields(decls, <<"struct", "T">>)) = Visible(decls, <<"struct", "T">>)

\* The cells a cell reaches in at least one step.
RECURSIVE Reaches(_)
Reaches(cs) == LET more == cs \cup UNION {Range(heap[c]) : c \in cs} IN IF more = cs THEN cs ELSE Reaches(more)

\* Encoding ends with a tree exactly when no cycle can be reached, however
\* often a cell is shared, and with an error otherwise.
CyclesFound ==
  \A c \in Cells :
    EncodingEnds(heap, c, 0, {}) <=> \A e \in Reaches({c}) : e \notin Reaches(Range(heap[e]))

\* A string comes back as it was written, except that what is not UTF-8 is
\* U+FFFD then, and its text has nothing in it that may not stand there.
StringComesBack ==
  \A html \in BOOLEAN :
    LET out == appendString(runes, html)
    IN /\ unquoteBytes(out) = Unquoted(TRUE, [k \in DOMAIN runes |-> IF runes[k] = "bad" THEN "rep" ELSE runes[k]])
       /\ \A k \in DOMAIN out : out[k] # <<"raw", "bad">> /\ (html => out[k] # <<"raw", "html">>)

\* What a unit stands for, from itself and its neighbours: two surrogates in a
\* row are one rune, each alone is U+FFFD.
UnitMeans(k) ==
  LET pair(j) == j \in 1 .. Len(units) - 1 /\ units[j] = <<"u", "hi">> /\ units[j + 1] = <<"u", "lo">>
  IN CASE pair(k) -> <<"astral">>
       [] pair(k - 1) -> << >>
       [] ~pair(k) /\ ~pair(k - 1) ->
            <<IF units[k] \in {<<"raw", "bad">>, <<"u", "hi">>, <<"u", "lo">>} THEN "rep" ELSE units[k][2]>>

\* Strings are written and read the same way, whatever is in them.
StringsAgree ==
  /\ StringComesBack
  /\ LET bad == {<<"raw", "quote">>, <<"raw", "named">>, <<"raw", "ctl">>, <<"esc", "other">>, <<"u", "none">>}
     IN unquoteBytes(units) = IF Range(units) \cap bad # {} THEN Unquoted(FALSE, << >>)
                              ELSE Unquoted(TRUE, FlattenSeq([k \in DOMAIN units |-> UnitMeans(k)]))

\* Types, values and strings of any shape are written as Go would see them.
ShapesInv == FieldsVisible /\ CyclesFound /\ StringsAgree
=============================================================================
