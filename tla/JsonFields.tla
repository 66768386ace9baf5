------------------------------ MODULE JsonFields ------------------------------
(***************************************************************************)
(* common/json/internal/contextjson/encode.go: typeFields, which fields of *)
(* a struct, its embedded structs included, have a JSON name.  Encoding    *)
(* and decoding both work from its answer.                                 *)
(*                                                                         *)
(* A type is a tuple that begins with its kind: <<"int">>,                 *)
(* <<"ptr", type>>, <<"struct", name>> and so on.  What a struct consists  *)
(* of is given by S, a function from struct names to sequences of fields.  *)
(***************************************************************************)
EXTENDS Integers, SequencesExt

IsStruct(t) == t[1] = "struct"
Elem(t) == IF t[1] = "ptr" THEN t[2] ELSE t

\* tagOptions.Contains: the options of a tag are a set.
HasOption(sf, option) == option \in sf.opts

\* The kinds the option "string" is for.
Quotable(t) == t[1] \in {"bool", "int", "string", "number"}

\* A field that has no part in JSON.
SkippedField(sf) ==
  \/ ~sf.exported /\ ~(sf.anonymous /\ IsStruct(Elem(sf.type)))
  \/ sf.tag = "-"

\* The field as typeFields lists it, found at index.
ListedField(sf, index) ==
  LET ft == Elem(sf.type)
  IN [name |-> IF sf.tag # "" THEN sf.tag ELSE sf.name, tag |-> sf.tag # "", index |-> index,
      type |-> sf.type, omitEmpty |-> HasOption(sf, "omitempty"), omitZero |-> HasOption(sf, "omitzero"),
      quoted |-> HasOption(sf, "string") /\ Quotable(ft)]

\* One field of a struct that is embedded many times at this depth, or once: a
\* field to list, which its duplicate will annihilate, or a struct to look
\* into in the next round.
StructField(st, sf, index, many) ==
  LET ft == Elem(sf.type)
      listed == ListedField(sf, index)
      seen == \E k \in DOMAIN st.next : st.next[k].type = ft
  IN CASE SkippedField(sf) -> st
       [] ~SkippedField(sf) /\ (sf.tag # "" \/ ~sf.anonymous \/ ~IsStruct(ft)) ->
            [st EXCEPT !.fields = @ \o (IF many THEN <<listed, listed>> ELSE <<listed>>)]
       [] OTHER ->
            [st EXCEPT !.next = IF seen THEN @ ELSE Append(@, [index |-> index, type |-> ft]),
                       !.twice = IF seen THEN @ \cup {ft} ELSE @]

\* One struct of the current round.
OneStruct(S, st, f, twice) ==
  LET decl == S[f.type[2]]
      Fold(s, i) == StructField(s, decl[i], Append(f.index, i), f.type \in twice)
  IN IF f.type \in st.visited THEN st
     ELSE FoldLeft(Fold, [st EXCEPT !.visited = @ \cup {f.type}], [i \in DOMAIN decl |-> i])

\* The rounds, one for each depth of embedding.
RECURSIVE Rounds(_, _)
Rounds(S, st) ==
  IF st.next = << >> THEN st.fields
  ELSE LET Fold(s, f) == OneStruct(S, s, f, st.twice)
       IN Rounds(S, FoldLeft(Fold, [st EXCEPT !.next = << >>, !.twice = {}], st.next))

\* slices.Compare(a, b) < 0
IndexBefore(a, b) ==
  LET d == {k \in 1 .. Len(a) : k > Len(b) \/ (k <= Len(b) /\ a[k] # b[k])}
  IN IF d = {} THEN Len(a) < Len(b) ELSE Min(d) <= Len(b) /\ a[Min(d)] < b[Min(d)]

\* Fields of one name, by depth, then those with a tag, then by index.
Before(a, b) ==
  IF Len(a.index) # Len(b.index) THEN Len(a.index) < Len(b.index)
  ELSE IF a.tag # b.tag THEN a.tag ELSE IndexBefore(a.index, b.index)

\* Mutation: of two fields at one depth the first is taken.
FirstWins(fs) == <<fs[1]>>

\* The one field that dominates the fields of one name, if any does.
dominantField(fs) ==
  IF Len(fs) > 1 /\ Len(fs[1].index) = Len(fs[2].index) /\ fs[1].tag = fs[2].tag
  THEN << >> ELSE <<fs[1]>>

\* The fields of struct t, in the order of their index.
typeFields(S, t) ==
  LET start == [fields |-> << >>, next |-> <<[index |-> << >>, type |-> t]>>, twice |-> {}, visited |-> {}]
      fields == Rounds(S, start)
      names == {fields[k].name : k \in DOMAIN fields}
      Named(n) == SortSeq(SelectSeq(fields, LAMBDA f : f.name = n), Before)
      out == UNION {Range(dominantField(Named(n))) : n \in names}
  IN SetToSortSeq(out, LAMBDA a, b : IndexBefore(a.index, b.index))

\* foldName, for the names of the model.
foldName(n) == CASE n = "a" -> "A" [] n = "b" -> "B" [] OTHER -> n

\* The field a key names: byExactName, then byFoldedName, where the first
\* field of the list wins.
FieldFor(fields, key) ==
  LET exact == {k \in DOMAIN fields : fields[k].name = key}
      folded == {k \in DOMAIN fields : foldName(fields[k].name) = foldName(key)}
  IN IF exact # {} THEN <<fields[Min(exact)]>>
     ELSE IF folded # {} THEN <<fields[Min(folded)]>> ELSE << >>
=============================================================================
