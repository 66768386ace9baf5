----------------------------- MODULE JsonGrammar ------------------------------
(***************************************************************************)
(* What the scanner of JsonScanner accepts, said as a grammar: the JSON of *)
(* RFC 8259, with comments (//, # to the end of the line, /* */) as white  *)
(* space and a comma allowed after the last element, and nothing nested    *)
(* deeper than MaxNestingDepth.  A reference: it has no counterpart in the *)
(* code, which has the scanner in its place.                               *)
(***************************************************************************)
EXTENDS JsonScanner, FiniteSets

-----------------------------------------------------------------------------
(* The grammar: each symbol as the set of positions where a derivation     *)
(* that starts at position i of t may end.                                 *)

At(t, i, c) == i <= Len(t) /\ t[i] = c

CommentEnd(t, i) ==
  LET line == {k \in i .. Len(t) : t[k] \in NewLines}
      block == {k \in i + 2 .. Len(t) - 1 : t[k] = "*" /\ t[k + 1] = "/"}
      first(S) == CHOOSE k \in S : \A l \in S : k <= l
  IN IF At(t, i, "#") \/ (At(t, i, "/") /\ At(t, i + 1, "/"))
     THEN IF line = {} THEN {Len(t) + 1} ELSE {first(line) + 1}
     ELSE IF At(t, i, "/") /\ At(t, i + 1, "*") /\ block # {} THEN {first(block) + 2} ELSE {}

RECURSIVE Blanks(_, _), StringRest(_, _), DigitsEnd(_, _), Value(_, _, _), Rest(_, _, _, _)

Blanks(t, i) ==
  {i} \cup (IF i <= Len(t) /\ isSpace(t[i]) THEN Blanks(t, i + 1)
            ELSE UNION {Blanks(t, j) : j \in CommentEnd(t, i)})

StringRest(t, i) ==
  CASE i > Len(t) -> {}
    [] t[i] = "\"" -> {i + 1}
    [] t[i] = "\\" ->
         IF \E c \in {"b", "f", "n", "r", "t", "\\", "/", "\""} : At(t, i + 1, c)
         THEN StringRest(t, i + 2)
         ELSE IF At(t, i + 1, "u") /\ \A k \in i + 2 .. i + 5 : \E c \in HexDigits : At(t, k, c)
         THEN StringRest(t, i + 6) ELSE {}
    [] OTHER -> IF IsControl(t[i]) THEN {} ELSE StringRest(t, i + 1)

\* One digit or more.
DigitsEnd(t, i) ==
  IF i <= Len(t) /\ t[i] \in Digits THEN {i + 1} \cup DigitsEnd(t, i + 1) ELSE {}

Number(t, i) ==
  LET j == IF At(t, i, "-") THEN i + 1 ELSE i
      int == IF At(t, j, "0") THEN {j + 1} ELSE DigitsEnd(t, j)
      frac == int \cup UNION {DigitsEnd(t, k + 1) : k \in {k \in int : At(t, k, ".")}}
      sign(k) == IF At(t, k, "+") \/ At(t, k, "-") THEN k + 1 ELSE k
  IN frac \cup UNION {DigitsEnd(t, sign(k + 1)) : k \in {k \in frac : At(t, k, "e")}}

Keyword(t, i) ==
  {i + Len(w) : w \in {w \in {<<"t", "r", "u", "e">>, <<"f", "a", "l", "s", "e">>,
                              <<"n", "u", "l", "l">>} : \A k \in 1 .. Len(w) : At(t, i + k - 1, w[k])}}

\* An element, or a key, a colon and a value, with the blanks after it.
Element(t, i, d, close) ==
  LET String(k) == IF At(t, k, "\"") THEN StringRest(t, k + 1) ELSE {}
      colons == {k \in UNION {Blanks(t, j) : j \in String(i)} : At(t, k, ":")}
      values == IF close = "]" THEN {i} ELSE UNION {Blanks(t, k + 1) : k \in colons}
  IN UNION {Blanks(t, j) : j \in UNION {Value(t, k, d) : k \in values}}

\* The rest of an array or object, from where an element may begin.
Rest(t, i, d, close) ==
  (IF At(t, i, close) THEN {i + 1} ELSE {})
    \cup UNION {IF At(t, j, close) THEN {j + 1}
                ELSE IF At(t, j, ",") THEN UNION {Rest(t, k, d, close) : k \in Blanks(t, j + 1)}
                ELSE {} : j \in Element(t, i, d, close)}

Value(t, i, d) ==
  CASE At(t, i, "\"") -> StringRest(t, i + 1)
    [] At(t, i, "[") /\ d < MaxNestingDepth ->
         UNION {Rest(t, k, d + 1, "]") : k \in Blanks(t, i + 1)}
    [] At(t, i, "{") /\ d < MaxNestingDepth ->
         UNION {Rest(t, k, d + 1, "}") : k \in Blanks(t, i + 1)}
    [] OTHER -> Number(t, i) \cup Keyword(t, i)

InGrammar(t) ==
  \E i \in Blanks(t, 1) : \E j \in Value(t, i, 0) : Len(t) + 1 \in Blanks(t, j)

=============================================================================
