------------------------------ MODULE JsonDecode ------------------------------
(***************************************************************************)
(* common/json/internal/contextjson/decode.go: a JSON value, the tree that *)
(* JsonText shows the scanner's steps to stand for, stored into a variable *)
(* of some type.                                                           *)
(*                                                                         *)
(* Trees: <<"null">>, <<"bool", b>>, <<"num", text>>, <<"str", s>>,        *)
(* <<"arr", trees>> and <<"obj", pairs of a key and a tree>>.              *)
(* Values: <<"nil">>, <<kind, content>>, <<"slice", elements, len>> with   *)
(* the elements the backing array still has behind len, <<"map", function  *)
(* on key texts>>, <<"struct", fields>>, <<"any", type, value>>.           *)
(***************************************************************************)
EXTENDS JsonFields

Nil == <<"nil">>
Null == <<"null">>
AnyType == <<"any">>

(***************************************************************************)
(* What strconv and the literals of the grammar make of a text, for the    *)
(* texts of the model.  "qa" and "qe" are the texts "a" and "" with their  *)
(* quotes, "q" is one that lacks the second quote.                         *)
(***************************************************************************)
LiteralOf(s) ==
  CASE s = "null" -> Null [] s = "nul" -> <<"bad", "n">> [] s = "true" -> <<"bool", TRUE>>
    [] s = "false" -> <<"bool", FALSE>> [] s = "qe" -> <<"str", "">> [] s = "tru" -> <<"bad", "t">>
    [] s = "qa" -> <<"str", "a">> [] s = "q" -> <<"bad", "q">>
    [] s \in {"0", "1", "300", "1e999"} -> <<"num", s>> [] s = "1x" -> <<"bad", "1">>
    [] s = "" -> <<"empty">> [] OTHER -> <<"bad", "x">>
IsNumberText(s) == LiteralOf(s)[1] = "num"
ParseInt(s) == CASE s \in {"0", "1"} -> <<s>> [] s = "01" -> <<"1">> [] OTHER -> << >>
ParseFloatFails(s) == s \notin {"0", "1", "300"}

\* What the unmarshalers of the model's types refuse.
Refused == {<<"bool", TRUE>>, <<"str", "b">>}

RECURSIVE Zero(_, _)
Zero(S, t) ==
  CASE t[1] \in {"ptr", "slice", "map", "any"} -> Nil
    [] t[1] = "bool" -> <<"bool", FALSE>>
    [] t[1] = "int" -> <<"int", "0">>
    [] t[1] \in {"string", "number", "text"} -> <<t[1], "">>
    [] t[1] = "raw" -> <<"raw", Null>>
    [] t[1] = "array" -> <<"array", [i \in 1 .. t[2] |-> Zero(S, t[3])]>>
    [] t[1] = "struct" -> <<"struct", [i \in DOMAIN S[t[2]] |-> Zero(S, S[t[2]][i].type)]>>

(***************************************************************************)
(* decodeState: the path to the current value (context), the names of the  *)
(* struct fields on it (errorContext.FieldStack), the first error, the     *)
(* paths of the values that were given their comments, the error that ends *)
(* the decoding, and the option.                                           *)
(***************************************************************************)
init(disallow) ==
  [context |-> << >>, fieldStack |-> << >>, savedError |-> << >>, commented |-> << >>,
   failed |-> FALSE, disallowUnknownFields |-> disallow]

R(d, v) == [d |-> d, v |-> v]

\* Mutation: the last error is kept.
SaveLast(d, kind) ==
  [d EXCEPT !.savedError = <<[kind |-> kind, path |-> d.context, field |-> IF kind = "type" THEN d.fieldStack ELSE << >>]>>]

saveError(d, kind) ==
  IF d.savedError # << >> THEN d
  ELSE [d EXCEPT !.savedError =
          <<[kind |-> kind, path |-> d.context, field |-> IF kind = "type" THEN d.fieldStack ELSE << >>]>>]

fail(d) == [d EXCEPT !.failed = TRUE]
push(d, segment) == [d EXCEPT !.context = Append(@, segment)]
popContext(d, e) == [d EXCEPT !.context = e.context]
RestoreErrorContext(d, e) == [d EXCEPT !.fieldStack = e.fieldStack]

\* UnmarshalJSON, UnmarshalJSONContext and SetComments of the value's own type.
Unmarshaler(d, j, v) ==
  LET e == [d EXCEPT !.commented = Append(@, d.context)]
  IN IF j \in Refused THEN R(saveError(e, "unmarshal"), v) ELSE R(e, <<"raw", j>>)

(***************************************************************************)
(* valueInterface, arrayInterface, objectInterface and literalInterface:   *)
(* what an empty interface gets.                                           *)
(***************************************************************************)
RECURSIVE valueInterface(_, _), ArrayInterface(_, _, _, _), ObjectInterface(_, _, _, _)
valueInterface(d, j) ==
  CASE j[1] = "null" -> R(d, Nil)
    [] j[1] = "bool" -> R(d, <<"any", <<"bool">>, j>>)
    [] j[1] = "str" -> R(d, <<"any", <<"string">>, <<"string", j[2]>>>>)
    [] j[1] = "num" -> IF ParseFloatFails(j[2]) THEN R(saveError(d, "type"), Nil)
                       ELSE R(d, <<"any", <<"float">>, <<"float", j[2]>>>>)
    [] j[1] = "arr" -> ArrayInterface(d, j[2], 1, << >>)
    [] j[1] = "obj" -> ObjectInterface(d, j[2], 1, [x \in {} |-> Nil])
ArrayInterface(d, js, i, out) ==
  IF i > Len(js) THEN R(d, <<"any", <<"slice", AnyType>>, <<"slice", out, Len(out)>>>>)
  ELSE LET r == valueInterface(push(d, i - 1), js[i])
       IN ArrayInterface(popContext(r.d, d), js, i + 1, Append(out, r.v))
ObjectInterface(d, js, i, out) ==
  IF i > Len(js) THEN R(d, <<"any", <<"map", "string", AnyType>>, <<"map", out>>>>)
  ELSE LET r == valueInterface(push(d, js[i][1]), js[i][2])
       IN ObjectInterface(popContext(r.d, d), js, i + 1, (js[i][1] :> r.v) @@ out)

(***************************************************************************)
(* literalStore, behind indirect: a literal, or the content of a string    *)
(* when the field has the option "string".                                 *)
(***************************************************************************)
Invalid(quoted) == IF quoted THEN "tag" ELSE "type"

StoreNull(d, j, t, v) ==
  IF j # Null THEN R(saveError(d, "tag"), v)
  ELSE R(d, IF t[1] \in {"any", "ptr", "map", "slice"} THEN Nil ELSE v)

StoreBool(d, j, t, v, quoted) ==
  CASE j[1] = "bad" -> R(saveError(d, "tag"), v)
    [] j[1] # "bad" /\ t[1] = "bool" -> R(d, j)
    [] j[1] # "bad" /\ t[1] = "any" -> valueInterface(d, j)
    [] OTHER -> R(saveError(d, Invalid(quoted)), v)

StoreString(d, j, t, v) ==
  CASE j[1] = "bad" -> R(fail(d), v)
    [] j[1] # "bad" /\ t[1] = "string" -> R(d, <<"string", j[2]>>)
    [] j[1] # "bad" /\ t[1] = "number" -> IF IsNumberText(j[2]) THEN R(d, <<"number", j[2]>>) ELSE R(fail(d), v)
    [] j[1] # "bad" /\ t[1] = "any" -> valueInterface(d, j)
    [] OTHER -> R(saveError(d, "type"), v)

StoreNumber(d, j, t, v, quoted) ==
  CASE j = <<"bad", "x">> -> R(fail(d), v)
    [] j # <<"bad", "x">> /\ t[1] = "number" -> R(d, <<"number", IF j[1] = "bad" THEN "1x" ELSE j[2]>>)
    [] j # <<"bad", "x">> /\ t[1] = "any" ->
         IF ParseFloatFails(j[2]) THEN R(saveError(d, "type"), v) ELSE valueInterface(d, j)
    [] j # <<"bad", "x">> /\ t[1] = "int" ->
         IF j[1] = "bad" \/ ParseInt(j[2]) = << >> THEN R(saveError(d, "type"), v) ELSE R(d, <<"int", j[2]>>)
    [] OTHER -> IF quoted THEN R(fail(d), v) ELSE R(saveError(d, "type"), v)

StoreText(d, j, t, v, quoted) ==
  CASE j[1] = "str" -> IF j \in Refused THEN R(fail(d), v) ELSE R(d, <<"text", j[2]>>)
    [] j = <<"bad", "q">> -> R(fail(d), v)
    [] OTHER -> R(saveError(d, Invalid(quoted)), v)

IsNull(j) == j = Null \/ j = <<"bad", "n">>

literalStore(d, j, t, v, quoted) ==
  CASE j[1] = "empty" -> R(saveError(d, "tag"), v)
    [] j[1] # "empty" /\ t[1] = "raw" -> Unmarshaler(d, j, v)
    [] t[1] = "text" /\ ~IsNull(j) /\ j[1] # "empty" -> StoreText(d, j, t, v, quoted)
    [] t[1] # "raw" /\ IsNull(j) -> StoreNull(d, j, t, v)
    [] t[1] \notin {"raw", "text"} /\ (j[1] = "bool" \/ j = <<"bad", "t">>) -> StoreBool(d, j, t, v, quoted)
    [] t[1] \notin {"raw", "text"} /\ (j[1] = "str" \/ j = <<"bad", "q">>) -> StoreString(d, j, t, v)
    [] OTHER -> StoreNumber(d, j, t, v, quoted)

(***************************************************************************)
(* Fields of embedded structs, reached through an index.                   *)
(***************************************************************************)
Pointee(S, t, v) == IF t[1] # "ptr" THEN v ELSE IF v = Nil THEN Zero(S, t[2]) ELSE v[2]

RECURSIVE GetAt(_, _, _, _), SetAt(_, _, _, _, _), FieldAt(_, _, _)
FieldAt(S, t, index) ==
  LET sf == S[Elem(t)[2]][index[1]] IN IF Len(index) = 1 THEN sf ELSE FieldAt(S, sf.type, Tail(index))
GetAt(S, t, v, index) ==
  IF index = << >> THEN v
  ELSE GetAt(S, S[Elem(t)[2]][index[1]].type, Pointee(S, t, v)[2][index[1]], Tail(index))
SetAt(S, t, v, index, x) ==
  IF index = << >> THEN x
  ELSE LET i == index[1]
           s == Pointee(S, t, v)
           w == <<"struct", [s[2] EXCEPT ![i] = SetAt(S, S[Elem(t)[2]][i].type, s[2][i], Tail(index), x)]>>
       IN IF t[1] = "ptr" THEN <<"ptr", w>> ELSE w

\* How far the way to a field goes before an embedded pointer that is nil and
\* of an unexported type, 0 when there is none.
BlockedAt(S, t, v, index) ==
  LET Blocks(n) == /\ FieldAt(S, t, SubSeq(index, 1, n)).type[1] = "ptr" /\ ~FieldAt(S, t, SubSeq(index, 1, n)).exported
                   /\ GetAt(S, t, v, SubSeq(index, 1, n)) = Nil
      blocks == {n \in 1 .. Len(index) - 1 : Blocks(n)}
  IN IF blocks = {} THEN 0 ELSE Min(blocks)

\* The pointers on the way allocated.
Allocate(S, t, v, index) == SetAt(S, t, v, index, GetAt(S, t, v, index))

\* The names of the embedded structs on the way, and the field's own.
RECURSIVE EmbeddedNames(_, _, _)
EmbeddedNames(S, t, index) ==
  IF Len(index) = 1 THEN << >>
  ELSE LET sf == S[Elem(t)[2]][index[1]] IN <<sf.name>> \o EmbeddedNames(S, sf.type, Tail(index))

(***************************************************************************)
(* value, with indirect: pointers are followed and allocated, but null     *)
(* stops at a pointer; a pointer in an interface is followed too.          *)
(***************************************************************************)
FollowsInterface(j, t, v) ==
  /\ t = AnyType /\ v # Nil /\ v[2][1] = "ptr" /\ v[3] # Nil
  /\ IsNull(j) => v[2][2][1] = "ptr"

RECURSIVE value(_, _, _, _, _, _), Elements(_, _, _, _, _, _), Entries(_, _, _, _, _, _), StructMembers(_, _, _, _, _, _)

value(S, d, j, t, v, quoted) ==
  CASE t[1] = "ptr" /\ ~IsNull(j) ->
         LET r == value(S, d, j, t[2], Pointee(S, t, v), quoted) IN R(r.d, <<"ptr", r.v>>)
    [] FollowsInterface(j, t, v) ->
         LET r == value(S, d, j, v[2][2], v[3][2], quoted) IN R(r.d, <<"any", v[2], <<"ptr", r.v>>>>)
    [] t[1] = "raw" /\ j[1] \in {"arr", "obj"} -> Unmarshaler(d, j, v)
    [] t = AnyType /\ ~FollowsInterface(j, t, v) /\ j[1] \in {"arr", "obj"} -> valueInterface(d, j)
    [] j[1] = "arr" /\ t[1] \in {"slice", "array"} -> Elements(S, d, j[2], t, v, 1)
    [] j[1] = "obj" /\ t[1] = "map" -> Entries(S, d, j[2], t, IF v = Nil THEN <<"map", [x \in {} |-> Nil]>> ELSE v, 1)
    [] j[1] = "obj" /\ t[1] = "struct" -> StructMembers(S, d, j[2], t, v, 1)
    [] j[1] \in {"arr", "obj"} /\ t[1] \notin {"ptr", "any", "raw"}
         /\ ~(j[1] = "arr" /\ t[1] \in {"slice", "array"}) /\ ~(j[1] = "obj" /\ t[1] \in {"map", "struct"}) ->
         R(saveError(d, "type"), v)
    [] OTHER -> literalStore(d, j, t, v, quoted)

\* The end of an array of n elements.
EndOfArray(S, t, v, n) ==
  CASE t[1] = "array" -> <<"array", [i \in 1 .. t[2] |-> IF i <= n THEN v[2][i] ELSE Zero(S, t[3])]>>
    [] t[1] = "slice" /\ n = 0 -> <<"slice", << >>, 0>>
    [] t[1] = "slice" /\ n # 0 -> <<"slice", v[2], n>>

\* A slice grows by one element at a time; what was behind its length comes
\* back as it was left.
Room(S, t, v, i) ==
  LET old == IF v = Nil THEN << >> ELSE v[2]
      len == IF v = Nil THEN 0 ELSE v[3]
  IN IF t[1] = "array" THEN v
     ELSE <<"slice", IF i > Len(old) THEN Append(old, Zero(S, t[2])) ELSE old, IF i > len THEN i ELSE len>>

\* array, when element i gave r, and from element i on; an array leaves out
\* the elements it has no room for.
AfterElement(S, d, js, t, v, i, r) ==
  LET w == [v EXCEPT ![2][i] = r.v]
      e == popContext(r.d, d)
  IN IF r.d.failed THEN R(e, w) ELSE Elements(S, e, js, t, w, i + 1)
StoreElement(S, d, js, t, v, i) ==
  AfterElement(S, d, js, t, v, i, value(S, push(d, i - 1), js[i], t[Len(t)], v[2][i], FALSE))
Elements(S, d, js, t, v, i) ==
  CASE i > Len(js) -> R(d, EndOfArray(S, t, v, Len(js)))
    [] i <= Len(js) /\ (t[1] = "slice" \/ i <= t[2]) -> StoreElement(S, d, js, t, Room(S, t, v, i), i)
    [] OTHER -> Elements(S, d, js, t, v, i + 1)

\* The key as a value of the map's key type: a text, when the type takes it.
MapKey(d, key, kt) ==
  CASE kt = "string" -> [d |-> d, key |-> <<key>>]
    [] kt = "int" -> [d |-> IF ParseInt(key) = << >> THEN saveError(d, "type") ELSE d, key |-> ParseInt(key)]
    [] kt = "text" -> IF <<"str", key>> \in Refused THEN [d |-> fail(d), key |-> << >>] ELSE [d |-> d, key |-> <<key>>]

\* object for a map, when entry i gave r and its key k, and from entry i on.
AfterEntry(S, d, js, t, v, i, r, k) ==
  LET w == IF k.key = << >> THEN v ELSE <<"map", (k.key[1] :> r.v) @@ v[2]>>
  IN IF k.d.failed THEN R(popContext(k.d, d), w)
     ELSE Entries(S, popContext(RestoreErrorContext(k.d, d), d), js, t, w, i + 1)
StoreEntry(S, d, js, t, v, i, r) ==
  AfterEntry(S, d, js, t, v, i, r,
             IF r.d.failed THEN [d |-> r.d, key |-> << >>] ELSE MapKey(r.d, js[i][1], t[2]))
Entries(S, d, js, t, v, i) ==
  IF i > Len(js) THEN R(d, v)
  ELSE StoreEntry(S, d, js, t, v, i, value(S, push(d, js[i][1]), js[i][2], t[3], Zero(S, t[3]), FALSE))

\* valueQuoted and what object does with it; a number that is out of range
\* comes back as nil, as null does.
QuotedValue(S, d, j, t, v) ==
  CASE j[1] = "null" -> value(S, d, j, t, v, FALSE)
    [] j[1] = "str" -> IF j[2] = "" THEN R(saveError(d, "tag"), v) ELSE value(S, d, LiteralOf(j[2]), t, v, TRUE)
    [] j[1] = "num" /\ ParseFloatFails(j[2]) -> value(S, saveError(d, "type"), Null, t, v, FALSE)
    [] OTHER -> R(saveError(d, "tag"), v)

EnterField(S, d, f, t) == [d EXCEPT !.fieldStack = @ \o EmbeddedNames(S, t, f.index) \o <<f.name>>]

\* A member stored into its field f, or skipped when there is none.
StoreMember(S, d, j, t, v, f) ==
  LET b == BlockedAt(S, t, v, f.index)
      x == GetAt(S, t, v, f.index)
      e == EnterField(S, d, f, t)
      r == IF f.quoted THEN QuotedValue(S, e, j, f.type, x) ELSE value(S, e, j, f.type, x, FALSE)
  IN IF b # 0 THEN R(saveError(d, "embedded"), Allocate(S, t, v, SubSeq(f.index, 1, b)))
     ELSE R(r.d, SetAt(S, t, v, f.index, r.v))
Member(S, d, j, t, v, found) ==
  IF found # << >> THEN StoreMember(S, d, j, t, v, found[1])
  ELSE R(IF d.disallowUnknownFields THEN saveError(d, "unknown") ELSE d, v)

\* object for a struct, when member i gave r, and from member i on.
AfterMember(S, d, js, t, i, r) ==
  IF r.d.failed THEN R(popContext(r.d, d), r.v)
  ELSE StructMembers(S, popContext(RestoreErrorContext(r.d, d), d), js, t, r.v, i + 1)
StructMembers(S, d, js, t, v, i) ==
  IF i > Len(js) THEN R(d, v)
  ELSE AfterMember(S, d, js, t, i,
         Member(S, push(d, js[i][1]), js[i][2], t, v, FieldFor(typeFields(S, t), js[i][1])))

\* unmarshal: the value, and the error that is returned.
unmarshal(S, j, t, v, disallow) ==
  LET r == value(S, init(disallow), j, t, v, FALSE)
  IN [v |-> r.v, d |-> r.d, ok |-> ~r.d.failed /\ r.d.savedError = << >>]
=============================================================================
