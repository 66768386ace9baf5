-------------------------------- MODULE MCText --------------------------------
(***************************************************************************)
(* The algorithms on text, one at a time: the domain matcher; JSON texts   *)
(* that grow word by word; a Decoder that reads streams in pieces; values  *)
(* that documents are decoded into; and types, values and strings of       *)
(* different shapes.  Two small components that are not about text share   *)
(* the run, each as a part of its own: the task group of common/task and   *)
(* the deadline of common/pipe.                                            *)
(***************************************************************************)
EXTENDS DomainMatcher, JsonText, JsonStream, JsonCodec, JsonShapes, TaskGroup, Deadline

\* Domains and rules, over two letters, the dot and, in rules, the wildcard.
Strings(C, m) == UNION {[1 .. k -> C] : k \in 1 .. m}
Letters == {97, 98}
UpTo(S, m) == {T \in SUBSET S : Cardinality(T) <= m}

\* Names have no empty label; a suffix may have a dot in front.
Names(C, m) ==
  {d \in Strings(C \cup {dot}, m) :
     /\ d[1] # dot /\ d[Len(d)] # dot
     /\ \A i \in 1 .. Len(d) - 1 : d[i] = dot => d[i + 1] # dot}
SuffixNames == LET N == Names({97}, 3) IN N \cup {<<dot>> \o d : d \in N}

MCDomainInputs ==
  {i \in UpTo(Names(Letters, 2), 2) \X UpTo(SuffixNames, 2) \X BOOLEAN : Cardinality(i[1] \cup i[2]) \in 1 .. 3}

Rules(C, m) == [text : Strings(C \cup {dot, anyLabel}, m), start : {"||", "|", ""}, end : BOOLEAN]
MCRuleInputs ==
  {{r} : r \in Rules({97}, 3)}
  \cup {{r, q} : r \in Rules({97}, 1), q \in {q \in Rules({97}, 2) : Len(q.text) = 1 \/ ~q.end}}

MCQueries == Strings(Letters \cup {dot}, 4)

\* Words of JSON texts.
Bytes(S) == {<<c>> : c \in S}
KeyX == <<"\"", "x", "\"", ":">>
MCAlphabets ==
  {Bytes({"[", "]", ",", "0"}), Bytes({"{", "}", "\"", ":", "0", ","}),
   Bytes({"1", "0", "-", ".", "e", "_"}), Bytes({"1", "/", "*", "nl", "#"}), Bytes({"[", "]", "1", "cr", "nl", "#"}),
   Bytes({"\"", "\\", "u", "0", "<", "ctl"}),
   Bytes({"t", "r", "u", "e"}), Bytes({"f", "a", "l", "s", "e"}), Bytes({"n", "u", "l", "_"}),
   Bytes({"[", "]", ",", "1", "nl"}) \cup {<<"/", "*", "x", "*", "/">>},
   Bytes({"{", "}", ",", "1"}) \cup {KeyX, <<"/", "/", "x", "nl">>},
   Bytes({"[", "]", "{", "}", "1"}) \cup {KeyX, <<"#", "<", "cr", "nl">>},
   Bytes({"[", "1", "]", "_", "nl"}) \cup {<<"/", "*", "cr", "nl", "_", "x", "*", "/">>}}

\* Streams: arrays and objects with comments and trailing commas, comments at
\* the end, several values, and every kind of misplaced byte.
MCTexts ==
  {<<"[", "0", ",", "1", "]">>,
   <<"[", "1", "/", "*", "*", "*", "/", ",", "_", "{", "\"", "\"", ":", "1", "}", ",", "]", "_", "1", "1">>,
   <<"1", "/", "/", "x">>, <<"1", "nl", "/", "/", "x">>,
   <<"{", "\"", "x", "\"", "_", ":", "[", "]", ",", "}", "1">>,
   <<"[", "1", "1", "#", "]", "nl", ",", "t", "r", "u", "e", "]", "/", "_">>,
   <<"[", "[", "]", "[", "]", "]">>, <<"[", "1", "}">>, <<"_", "1", ",">>, <<"[", "/", "1", "]">>,
   <<"{", "1", "}">>, <<"{", "\"", "\"", ",", "1", "}">>, <<"x", "1">>, <<"[", "]", "1", "]">>,
   <<"[", ",", "1", "]">>}

\* Types: fields with tags and options, embedded structs, pointers, interfaces.
IntT == <<"int">>
PtrT(t) == <<"ptr", t>>
SliceT(t) == <<"slice", t>>
MapT(k, t) == <<"map", k, t>>
StructT(s) == <<"struct", s>>
NamedField(name, tag, opts, t) ==
  [name |-> name, tag |-> tag, opts |-> opts, anonymous |-> FALSE, exported |-> TRUE, type |-> t]
Embedded(name, exported, t) ==
  [name |-> name, tag |-> "", opts |-> {}, anonymous |-> TRUE, exported |-> exported, type |-> t]
MCStructs ==
  [P |-> <<NamedField("a", "", {}, IntT), NamedField("B", "", {"omitempty"}, SliceT(<<"string">>))>>,
   Q |-> <<Embedded("P", TRUE, PtrT(StructT("P"))), NamedField("A", "", {}, <<"raw">>)>>,
   U |-> <<Embedded("u", FALSE, PtrT(StructT("P"))), NamedField("b", "x", {"string"}, <<"number">>),
           NamedField("s", "A", {"string", "omitzero"}, PtrT(<<"string">>))>>,
   W |-> <<NamedField("a", "", {"omitempty"}, MapT("int", <<"bool">>)), NamedField("b", "", {}, AnyType),
           NamedField("x", "-", {}, IntT), NamedField("x", "1", {"string"}, <<"bool">>)>>]
MCTypes ==
  {IntT, PtrT(PtrT(IntT)), SliceT(IntT), SliceT(StructT("P")), <<"array", 2, PtrT(<<"string">>)>>,
   MapT("string", <<"raw">>), MapT("text", SliceT(<<"bool">>)), MapT("int", <<"text">>), AnyType,
   SliceT(MapT("string", <<"array", 1, <<"raw">>>>)), <<"number">>}
  \cup {StructT(s) : s \in DOMAIN MCStructs}
MCStarts ==
  {<<t, Zero(MCStructs, t)>> : t \in MCTypes}
  \cup {<<AnyType, <<"any", PtrT(IntT), <<"ptr", <<"int", "0">>>>>>>>, <<AnyType, <<"any", PtrT(PtrT(IntT)), <<"ptr", Nil>>>>>>}

\* Documents that fit these types, wholly, in part or not at all.
Str(s) == <<"str", s>>
Num(s) == <<"num", s>>
True == <<"bool", TRUE>>
False == <<"bool", FALSE>>
Arr(x) == <<"arr", x>>
Obj(x) == <<"obj", x>>
MCDocs ==
  {Null, True, False, Num("1"), Num("300"), Num("1e999"), Str("a"), Str("b"), Str("1x"), Arr(<<>>), Obj(<<>>)}
  \cup {Arr(<<x>>) : x \in {Null, Num("1"), Str("a")}}
  \cup {Arr(<<False, x, Num("1")>>) : x \in {Num("1"), Str("b")}}
  \cup {Obj(<<<<"x", l>>, <<"A", m>>>>) :
          l \in {Str("1x"), Str("1")}, m \in {Str("qa"), Str("a"), Str(""), Str("nul")}}
  \cup {Obj(<<<<"x", l>>>>) : l \in {Num("1"), Num("1e999"), Str("q")}}
  \cup {Obj(<<<<"A", Num("1e999")>>>>)}
  \cup {Obj(<<<<k, l>>>>) : k \in {"a", "b", "1"}, l \in {True, Num("1"), Str("b")}}
  \cup {Obj(<<<<"B", Arr(<<Str("a"), Num("1")>>)>>, <<"a", x>>, <<"A", Obj(<<<<"b", False>>>>)>>>>) :
          x \in {Num("1"), Str("a")}}
  \cup {Arr(<<Obj(<<<<"a", Num("1")>>>>), Obj(<<<<"B", Arr(<<Str("a")>>)>>, <<"b", Arr(<<False, True>>)>>>>)>>),
        Arr(<<Obj(<<<<"B", Null>>>>)>>), Arr(<<Obj(<<>>), Obj(<<>>)>>),
        Arr(<<Obj(<<<<"a", Arr(<<Arr(<<False>>)>>)>>>>)>>),
        Obj(<<<<"a", Obj(<<<<"1", True>>, <<"01", False>>, <<"a", False>>>>)>>,
              <<"b", Arr(<<Num("1"), Num("1e999")>>)>>, <<"1", Str("true")>>>>)}

\* Fields that structs may be declared with; most are named x, by name or tag.
IntField(name, tag) == NamedField(name, tag, {}, IntT)
MCFields ==
  [T |-> {IntField("x", ""), IntField("y", "x"), Embedded("A", TRUE, StructT("A")),
          Embedded("B", TRUE, PtrT(StructT("B"))), Embedded("X", TRUE, StructT("X"))},
   A |-> {IntField("x", ""), IntField("y", "x"), Embedded("X", TRUE, StructT("X")),
          Embedded("T", TRUE, PtrT(StructT("T")))},
   B |-> {IntField("z", "-"), Embedded("X", TRUE, StructT("X"))},
   X |-> {Embedded("Y", TRUE, StructT("Y")), IntField("u", "x")},
   Y |-> {IntField("x", "")}]

-----------------------------------------------------------------------------
VARIABLE part   \* the algorithm at work
textVars == <<part, vars, scanVars, streamVars, codecVars, shapeVars, groupVars, deadlineVars>>

TextInit ==
  /\ part \in {"domain", "scan", "stream", "codec", "shapes", "group", "deadline"}
  /\ part = "domain" \/ input = [kind |-> "domains", of |-> <<{<<97>>}, {}, FALSE>>]
  /\ DomainInit
  /\ part = "scan" \/ alphabet = Bytes({"t", "r", "u", "e"})
  /\ ScanInit
  /\ part = "stream" \/ streamInput = <<"x", "1">>
  /\ StreamInit
  /\ part = "codec" \/ (goType = IntT /\ disallow = FALSE)
  /\ CodecInit
  /\ ShapeInit
  /\ part = "group" \/ fastFail = FALSE
  /\ Init
  /\ DeadlineInit

TextNext ==
  \/ /\ part = "domain" /\ (BuildMatcher \/ BuildAdGuardMatcher)
     /\ UNCHANGED <<part, scanVars, streamVars, codecVars, shapeVars, groupVars, deadlineVars>>
  \/ /\ part = "scan" /\ ScanWord
     /\ UNCHANGED <<part, vars, streamVars, codecVars, shapeVars, groupVars, deadlineVars>>
  \/ /\ part = "stream" /\ StreamNext
     /\ UNCHANGED <<part, vars, scanVars, codecVars, shapeVars, groupVars, deadlineVars>>
  \/ /\ part = "codec" /\ Unmarshal
     /\ UNCHANGED <<part, vars, scanVars, streamVars, shapeVars, groupVars, deadlineVars>>
  \/ /\ part = "shapes" /\ ShapeNext
     /\ UNCHANGED <<part, vars, scanVars, streamVars, codecVars, groupVars, deadlineVars>>
  \/ /\ part = "group" /\ Next
     /\ UNCHANGED <<part, vars, scanVars, streamVars, codecVars, shapeVars, deadlineVars>>
  \/ /\ part = "deadline" /\ DeadlineNext
     /\ UNCHANGED <<part, vars, scanVars, streamVars, codecVars, shapeVars, groupVars>>

\* The group's Fairness, when it is the part at work; a deadline that is not
\* stays in its initial state, where nothing that DeadlineFairness speaks of is
\* enabled.
TextFairness ==
  /\ \A t \in Tasks :
       /\ WF_groupVars(part = "group" /\ GroupStep(t))
       /\ WF_groupVars(part = "group" /\ \E err \in BOOLEAN : TaskReturns(t, err))
  /\ WF_groupVars(part = "group" /\ RunStep)
  /\ WF_groupVars(part = "group" /\ Cleanup)
  /\ WF_groupVars(part = "group" /\ CtxPropagates)
  /\ DeadlineFairness

TextSpec == TextInit /\ [][TextNext]_textVars /\ TextFairness
=============================================================================
