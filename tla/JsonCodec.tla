------------------------------ MODULE JsonCodec -------------------------------
(***************************************************************************)
(* Documents decoded one after the other into one variable, which is       *)
(* encoded in between (common/json/internal/contextjson, decode.go and     *)
(* encode.go).                                                             *)
(***************************************************************************)
EXTENDS JsonEncode

CONSTANTS Structs,      \* the struct types: from names to fields
          Starts,       \* pairs of a type and a value of it to start from
          Docs,         \* the documents
          MaxDecodes    \* the most documents decoded into one variable

VARIABLES goType,    \* the type of the variable
          target,    \* its value
          disallow,  \* disallowUnknownFields
          answers    \* what the calls so far were about and what they did

codecVars == <<goType, target, disallow, answers>>

CodecInit ==
  /\ \E s \in Starts : goType = s[1] /\ target = s[2]
  /\ disallow \in BOOLEAN /\ answers = << >>

Answer(j, r) ==
  /\ target' = r.v
  /\ answers' = Append(answers, [doc |-> j, old |-> target, new |-> r.v, d |-> r.d, ok |-> r.ok])

Unmarshal ==
  /\ Len(answers) < MaxDecodes
  /\ \E j \in Docs : Answer(j, unmarshal(Structs, j, goType, target, disallow))
  /\ UNCHANGED <<goType, disallow>>

CodecSpec == CodecInit /\ [][Unmarshal]_codecVars

-----------------------------------------------------------------------------

\* What happens to each part of a document, in its order: an error that is
\* saved, one that ends the decoding, or comments given to a value.
Event(what, path, names) == <<[what |-> what, path |-> path, field |-> names]>>

LiteralEvents(d, path, names) ==
  LET Named(kind) == IF kind = "type" THEN names ELSE << >>
  IN (IF d.commented # << >> THEN Event("comments", path, << >>) ELSE << >>)
     \o (IF d.savedError # << >> THEN Event(d.savedError[1].kind, path, Named(d.savedError[1].kind)) ELSE << >>)
     \o (IF d.failed THEN Event("fail", path, << >>) ELSE << >>)

RECURSIVE Events(_, _, _, _, _, _), AnyEvents(_, _, _)
AnyEvents(j, path, names) ==
  CASE j[1] = "num" /\ ParseFloatFails(j[2]) -> Event("type", path, names)
    [] j[1] = "arr" -> FlattenSeq([i \in DOMAIN j[2] |-> AnyEvents(j[2][i], Append(path, i - 1), names)])
    [] j[1] = "obj" -> FlattenSeq([i \in DOMAIN j[2] |-> AnyEvents(j[2][i][2], Append(path, j[2][i][1]), names)])
    [] OTHER -> << >>

Events(t, v, j, quoted, path, names) ==
  LET d == init(disallow)
      MemberEvents(found, key, x) ==
        LET f == found[1]
            in == names \o EmbeddedNames(Structs, t, f.index) \o <<f.name>>
            at == Append(path, key)
            lit == IF f.quoted /\ x[1] = "str" THEN LiteralOf(x[2]) ELSE x
        IN CASE found = << >> -> IF d.disallowUnknownFields THEN Event("unknown", at, << >>) ELSE << >>
             [] found # << >> /\ BlockedAt(Structs, t, Zero(Structs, t), f.index) # 0 -> Event("embedded", at, << >>)
             [] OTHER -> IF f.quoted /\ x[1] = "num" /\ ParseFloatFails(x[2]) THEN Event("type", at, in)
                         ELSE IF f.quoted /\ x[1] \in {"bool", "num", "arr", "obj"} THEN Event("tag", at, << >>)
                         ELSE Events(f.type, Nil, lit, f.quoted /\ x[1] = "str", at, in)
      KeyEvents(k, key) ==
           IF k.d.failed THEN Event("fail", Append(path, key), << >>)
           ELSE IF k.d.savedError # << >> THEN Event("type", Append(path, key), names) ELSE << >>
  IN CASE t[1] = "ptr" /\ ~IsNull(j) -> Events(t[2], Nil, j, quoted, path, names)
       [] FollowsInterface(j, t, v) -> Events(v[2][2], Nil, j, quoted, path, names)
       [] t[1] = "raw" /\ j[1] \in {"arr", "obj"} ->
            Event("comments", path, << >>) \o (IF j \in Refused THEN Event("unmarshal", path, << >>) ELSE << >>)
       [] t = AnyType /\ j[1] \in {"arr", "obj"} /\ ~FollowsInterface(j, t, v) -> AnyEvents(j, path, names)
       [] j[1] = "arr" /\ t[1] \in {"slice", "array"} ->
            FlattenSeq([i \in 1 .. (IF t[1] = "array" /\ t[2] < Len(j[2]) THEN t[2] ELSE Len(j[2])) |->
                          Events(t[Len(t)], Nil, j[2][i], FALSE, Append(path, i - 1), names)])
       [] j[1] = "obj" /\ t[1] = "map" ->
            FlattenSeq([i \in DOMAIN j[2] |-> Events(t[3], Nil, j[2][i][2], FALSE, Append(path, j[2][i][1]), names)
                                              \o KeyEvents(MapKey(d, j[2][i][1], t[2]), j[2][i][1])])
       [] j[1] = "obj" /\ t[1] = "struct" ->
            FlattenSeq([i \in DOMAIN j[2] |->
                          MemberEvents(FieldFor(typeFields(Structs, t), j[2][i][1]), j[2][i][1], j[2][i][2])])
       [] j[1] \in {"arr", "obj"} /\ t[1] \notin {"ptr", "any", "raw"} /\ ~(j[1] = "arr" /\ t[1] \in {"slice", "array"})
            /\ ~(j[1] = "obj" /\ t[1] \in {"map", "struct"}) -> Event("type", path, names)
       [] OTHER -> LiteralEvents(literalStore(d, j, t, Nil, quoted).d, path, names)

\* The state d that a decoding ends in, when es happened up to the end or to
\* what ended it.
EndsAs(d, es) ==
  LET ends == {k \in DOMAIN es : es[k].what = "fail"}
      seen == SubSeq(es, 1, IF ends = {} THEN Len(es) ELSE Min(ends) - 1)
      errors == SelectSeq(seen, LAMBDA e : e.what # "comments")
      comments == SelectSeq(seen, LAMBDA e : e.what = "comments")
  IN /\ d.failed = (ends # {})
     /\ d.savedError = IF errors = << >> THEN << >>
                       ELSE <<[kind |-> errors[1].what, path |-> errors[1].path, field |-> errors[1].field]>>
     /\ d.commented = [k \in DOMAIN comments |-> comments[k].path]
     /\ d.context = << >> /\ (d.failed \/ d.fieldStack = << >>)

\* "Unmarshal returns an error describing the earliest" mismatch
\* (decode.go:86): the error is that of the first part in the document's order
\* that does not fit, with the path and the fields that lead there, and values
\* that take comments get the ones of their own place.
ReportsEarliest ==
  answers # << >> =>
    LET a == answers[Len(answers)] IN EndsAs(a.d, Events(goType, a.old, a.doc, FALSE, << >>, << >>))

\* The part of a value that its encoding shows.
RECURSIVE Shown(_, _), ShownFields(_, _, _, _)
ShownFields(t, v, fs, out) ==
  IF fs = << >> THEN out
  ELSE LET f == fs[1]
       IN ShownFields(t, v, Tail(fs), SetAt(Structs, t, out, f.index, Shown(f.type, GetAt(Structs, t, v, f.index))))
Shown(t, v) ==
  CASE v = Nil \/ encode(Structs, t, v, FALSE) = Null -> Zero(Structs, t)
    [] t = AnyType /\ v # Nil /\ v[2][1] = "ptr" -> Shown(t, <<"any", v[2][2], v[3][2]>>)
    [] t = AnyType /\ v # Nil /\ v[2][1] = "int" -> <<"any", <<"float">>, <<"float", v[3][2]>>>>
    [] t = AnyType /\ v # Nil /\ v[2][1] \notin {"ptr", "int"} -> <<"any", v[2], Shown(v[2], v[3])>>
    [] t[1] = "ptr" /\ v # Nil -> <<"ptr", Shown(t[2], v[2])>>
    [] t[1] = "number" -> <<"number", NumberText(v[2])>>
    [] t[1] = "slice" /\ v # Nil -> <<"slice", [i \in 1 .. v[3] |-> Shown(t[2], v[2][i])], v[3]>>
    [] t[1] = "array" -> <<"array", [i \in 1 .. t[2] |-> Shown(t[3], v[2][i])]>>
    [] t[1] = "map" /\ v # Nil -> <<"map", [k \in DOMAIN v[2] |-> Shown(t[3], v[2][k])]>>
    [] t[1] = "struct" -> ShownFields(t, v, WrittenFields(Structs, t, v), Zero(Structs, t))
    [] OTHER -> v

\* Whatever was decoded before, what a value is encoded to decodes without an
\* error to the part of the value that JSON can show, and encodes to itself.
ComesBack(j, r) == r.ok /\ r.v = Shown(goType, target) /\ encode(Structs, goType, r.v, FALSE) = j
EncodesBack(j) == IsFailed(j) \/ ComesBack(j, unmarshal(Structs, j, goType, Zero(Structs, goType), TRUE))
RoundTrips == EncodesBack(encode(Structs, goType, target, FALSE))

\* A slice is nil for null, and otherwise as long as the document's array; each
\* element is what decoding it alone gives into what the backing array has
\* there, behind the old length too.
OldElement(v, i) == IF v = Nil \/ i > Len(v[2]) THEN Zero(Structs, goType[2]) ELSE v[2][i]
ElementWise(a) ==
  IF a.doc = Null THEN a.new = Nil
  ELSE /\ a.new[3] = Len(a.doc[2])
       /\ \A i \in 1 .. a.new[3] :
            a.new[2][i] = unmarshal(Structs, a.doc[2][i], goType[2], OldElement(a.old, i), disallow).v
SliceReplaced ==
  answers # << >> /\ goType[1] = "slice" /\ answers[Len(answers)].ok => ElementWise(answers[Len(answers)])

\* "Unmarshal resets the slice length to zero and then appends each element to
\* the slice" (decode.go:64): what a slice held before shows in nothing that is
\* decoded into it.
SliceIsReset ==
  answers # << >> /\ goType[1] = "slice" /\ answers[Len(answers)].ok =>
    encode(Structs, goType, target, FALSE)
      = encode(Structs, goType, unmarshal(Structs, answers[Len(answers)].doc, goType, Nil, disallow).v, FALSE)

\* The answers to the caller: the error, and the value.
CodecInv == ReportsEarliest /\ SliceReplaced /\ RoundTrips
=============================================================================
