------------------------------ MODULE JsonEncode ------------------------------
(***************************************************************************)
(* common/json/internal/contextjson/encode.go: the JSON tree of a value,   *)
(* and where encoding a value with cycles ends.                            *)
(***************************************************************************)
EXTENDS JsonDecode

Failed == <<"error">>
IsFailed(j) == j[1] = "error"

\* The text of a literal between quotes, for fields with the option "string".
mayAppendQuote(j, quoted) ==
  IF ~quoted \/ IsFailed(j) THEN j
  ELSE <<"str", CHOOSE s \in {"true", "false", "qa", "qe", "0", "1", "300"} : LiteralOf(s) = j>>

\* stringEncoder for a Number.
NumberText(s) == IF s = "" THEN "0" ELSE s

\* resolveKeyName is the identity on key texts; the order is strings.Compare's.
KeyOrder == <<"", "0", "1", "01", "1x", "A", "B", "a", "b", "x">>
SortedKeys(m) == SelectSeq(KeyOrder, LAMBDA k : k \in DOMAIN m)

isEmptyValue(t, v) ==
  CASE t[1] \in {"map", "slice"} -> v = Nil \/ (t[1] = "slice" /\ v[3] = 0) \/ (t[1] = "map" /\ DOMAIN v[2] = {})
    [] t[1] = "array" -> t[2] = 0
    [] t[1] \in {"bool", "int", "string", "number", "text", "any", "ptr"} -> v \in {Nil, <<"bool", FALSE>>, <<"int", "0">>, <<t[1], "">>}
    [] OTHER -> FALSE

Omits(S, f, v) ==
  \/ f.omitEmpty /\ isEmptyValue(f.type, v)
  \/ f.omitZero /\ v = Zero(S, f.type)

\* An embedded pointer on the way to a field is nil.
RECURSIVE NilOnTheWay(_, _, _, _)
NilOnTheWay(S, t, v, index) ==
  /\ index # << >>
  /\ \/ t[1] = "ptr" /\ v = Nil
     \/ NilOnTheWay(S, S[Elem(t)[2]][index[1]].type, Pointee(S, t, v)[2][index[1]], Tail(index))

\* The fields structEncoder writes, in order.
WrittenFields(S, t, v) ==
  SelectSeq(typeFields(S, t), LAMBDA f : ~NilOnTheWay(S, t, v, f.index) /\ ~Omits(S, f, GetAt(S, t, v, f.index)))

RECURSIVE encode(_, _, _, _)
\* newTypeEncoder's encoder for the type, on a value.
encode(S, t, v, quoted) ==
  LET OfFields(fs) == [k \in DOMAIN fs |-> <<fs[k].name, encode(S, fs[k].type, GetAt(S, t, v, fs[k].index), fs[k].quoted)>>]
      Items(n) == [i \in 1 .. n |-> encode(S, t[Len(t)], v[2][i], quoted)]
      OfKeys(ks) == [k \in DOMAIN ks |-> <<ks[k], encode(S, t[3], v[2][ks[k]], quoted)>>]
      All(js) == IF \E k \in DOMAIN js : IsFailed(js[k]) THEN Failed ELSE <<"arr", js>>
      Obj(ps) == IF \E k \in DOMAIN ps : IsFailed(ps[k][2]) THEN Failed ELSE <<"obj", ps>>
  IN CASE v = Nil -> Null
       [] t[1] = "raw" -> v[2]
       [] t[1] = "text" -> <<"str", v[2]>>
       [] t[1] = "bool" -> mayAppendQuote(v, quoted)
       [] t[1] \in {"int", "float"} -> mayAppendQuote(<<"num", v[2]>>, quoted)
       [] t[1] = "number" -> IF IsNumberText(NumberText(v[2])) THEN mayAppendQuote(<<"num", NumberText(v[2])>>, quoted) ELSE Failed
       [] t[1] = "string" -> mayAppendQuote(<<"str", v[2]>>, quoted)
       [] t = AnyType /\ v # Nil -> encode(S, v[2], v[3], quoted)
       [] t[1] = "ptr" /\ v # Nil -> encode(S, t[2], v[2], quoted)
       [] t[1] = "struct" -> Obj(OfFields(WrittenFields(S, t, v)))
       [] t[1] = "map" /\ v # Nil -> Obj(OfKeys(SortedKeys(v[2])))
       [] t[1] = "slice" /\ v # Nil -> All(Items(v[3]))
       [] t[1] = "array" -> All(Items(t[2]))

(***************************************************************************)
(* ptrLevel and ptrSeen: pointers, maps and slices on a heap.  Each cell   *)
(* refers to others; from a certain depth on the ones being encoded are    *)
(* remembered.  TRUE when the encoding ends with a tree.                   *)
(***************************************************************************)
CONSTANT StartDetectingCyclesAfter   \* startDetectingCyclesAfter, 1000

RECURSIVE EncodingEnds(_, _, _, _)
EncodingEnds(heap, ref, level, seen) ==
  LET now == level + 1
      mark == IF now > StartDetectingCyclesAfter THEN {ref} ELSE {}
  IN /\ ~(mark # {} /\ ref \in seen)
     /\ \A k \in DOMAIN heap[ref] : EncodingEnds(heap, heap[ref][k], now, seen \cup mark)
=============================================================================
