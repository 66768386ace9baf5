---------------------------- MODULE DomainMatcher -----------------------------
(***************************************************************************)
(* common/domain: the matcher for domains and domain suffixes, and the one *)
(* for AdGuard rules.  Both put their patterns, reversed, into one         *)
(* succinct set, with labels that stand for what may precede or follow, and *)
(* walk through it with the reversed domain.                               *)
(***************************************************************************)
EXTENDS Naturals, Sequences, FiniteSets, SequencesExt

CONSTANTS DomainInputs,   \* triples <<domains, domainSuffix, generateLegacy>>
          RuleInputs,     \* sets of AdGuard rules
          Queries,        \* the domains looked up
          MaxDepth,       \* maxDepth, 100
          Width,          \* bits in a word of a bitmap, 64
          Byte,           \* bits the table select8Lookup is about, 8
          Stride          \* every how many 1s the selects keep one, 32

ASSUME SetAssumption == {Width, Byte, Stride} \subseteq Nat \ {0} /\ Width >= Byte

-----------------------------------------------------------------------------
(* set.go: a sorted set of strings as a trie in two bitmaps.               *)
(* The nodes are numbered in the order of a breadth-first walk; in         *)
(* labelBitmap each node has a 0 for every label that leaves it and then a *)
(* 1, so that the k-th 0 leads to node k, and node k begins behind the     *)
(* k-th 1.  Strings are sequences of character codes.                      *)
(*                                                                         *)
(* A bitmap is the number of its words and the set of its 1 bits; indices  *)
(* start at 0, as in the code.                                             *)

\* The order of sort.Strings.
StringLess(s, t) ==
  LET Differ == {i \in 1 .. Len(s) : i > Len(t) \/ s[i] # t[i]}
  IN IF Differ = {} THEN Len(s) < Len(t)
     ELSE LET i == Min(Differ) IN i <= Len(t) /\ s[i] < t[i]
Sorted(S, Less(_, _)) ==
  [i \in 1 .. Cardinality(S) |->
     CHOOSE x \in S : Cardinality({y \in S : Less(y, x)}) = i - 1]
SortStrings(S) == Sorted(S, StringLess)

-----------------------------------------------------------------------------

setBit(bm, i, v) ==
  [words |-> Max({i \div Width + 1, bm.words}),
   ones |-> IF v = 1 THEN bm.ones \cup {i} ELSE bm.ones]
getBit(bm, i) == i \in bm.ones

\* indexRank64: the 1s before each word, and before the end.
indexRank64(bm) ==
  [w \in 0 .. bm.words |-> Cardinality({k \in bm.ones : k < w * Width})]

\* indexSelect32R64: where the 1s number 0, Stride, 2 * Stride... are.
indexSelect(bm) ==
  LET sorted == Sorted(bm.ones, <)
  IN [q \in 0 .. (Len(sorted) - 1) \div Stride |-> sorted[q * Stride + 1]]

\* The 1s before position i: those before its word, and those in it.
rank64(ss, i) ==
  ss.ranks[i \div Width]
    + Cardinality({k \in ss.labelBitmap.ones : k \div Width = i \div Width /\ k < i})
countZeros(ss, i) == i - rank64(ss, i)

\* The place of the 1 number n among the Byte bits from lo on, Byte when there
\* are not so many.
select8Lookup(ones, lo, n) ==
  LET here == Sorted({k - lo : k \in {k \in ones : lo <= k /\ k < lo + Byte}}, <)
  IN IF n < Len(here) THEN here[n + 1] ELSE Byte

\* The position of the 1 number n among the size bits from lo on: in the lower
\* half, or, when that has too few, in the upper one, down to a byte.
RECURSIVE SelectInWord(_, _, _, _)
SelectInWord(ones, lo, size, n) ==
  LET half == size \div 2
      lower == Cardinality({k \in ones : lo <= k /\ k < lo + half})
  IN IF size <= Byte THEN lo + select8Lookup(ones, lo, n)
     ELSE IF lower <= n THEN SelectInWord(ones, lo + half, half, n - lower)
     ELSE SelectInWord(ones, lo, half, n)

\* select32R64: the position of the 1 number i.  From the word that the
\* selects name, on to the word that holds it, and to its place there.
selectIthOne(ss, i) ==
  LET start == ss.selects[i \div Stride] \div Width
      w == Min({v \in start .. ss.labelBitmap.words - 1 : ss.ranks[v + 1] > i})
  IN SelectInWord(ss.labelBitmap.ones, w * Width, Width, i - ss.ranks[w])

-----------------------------------------------------------------------------
\* newSuccinctSet.  An element of the queue is a node: the keys from s up to
\* e, which agree on their first col characters.
Empty == [words |-> 0, ones |-> {}]

RECURSIVE Nodes(_, _, _, _)
Nodes(keys, queue, i, ss) ==
  IF i = Len(queue) THEN ss ELSE
  LET elt == queue[i + 1]
      leaf == elt.col = Len(keys[elt.s])
      first == IF leaf THEN elt.s + 1 ELSE elt.s
      runs == Sorted({keys[j][elt.col + 1] : j \in first .. elt.e - 1}, <)
      Run(c) == {j \in first .. elt.e - 1 : keys[j][elt.col + 1] = c}
      child == [r \in 1 .. Len(runs) |->
                  [s |-> Min(Run(runs[r])), e |-> Max(Run(runs[r])) + 1, col |-> elt.col + 1]]
  IN Nodes(keys, queue \o child, i + 1,
           [leaves |-> IF leaf THEN setBit(ss.leaves, i, 1) ELSE ss.leaves,
            labels |-> ss.labels \o runs,
            labelBitmap |-> setBit(ss.labelBitmap, ss.lIdx + Len(runs), 1),
            lIdx |-> ss.lIdx + Len(runs) + 1])

newSuccinctSet(keys) ==
  LET t == Nodes(keys, <<[s |-> 1, e |-> Len(keys) + 1, col |-> 0]>>, 0,
                 [leaves |-> Empty, labels |-> << >>, labelBitmap |-> Empty, lIdx |-> 0])
  IN [leaves |-> t.leaves, labels |-> t.labels, labelBitmap |-> t.labelBitmap,
      ranks |-> indexRank64(t.labelBitmap), selects |-> indexSelect(t.labelBitmap)]

\* The positions of the labels that leave a node which begins at bmIdx, the
\* label at one of them, and the node it leads to.
LabelsFrom(ss, bmIdx) ==
  bmIdx .. Min({k \in ss.labelBitmap.ones : k >= bmIdx}) - 1
Label(ss, nodeId, k) == ss.labels[k - nodeId + 1]
NextNode(ss, k) == countZeros(ss, k + 1)
Begin(ss, nodeId) == selectIthOne(ss, nodeId - 1) + 1

\* keys: what was put in.
RECURSIVE Traverse(_, _, _, _)
Traverse(ss, nodeId, bmIdx, key) ==
  (IF getBit(ss.leaves, nodeId) THEN {key} ELSE {})
    \cup UNION {Traverse(ss, NextNode(ss, k), Begin(ss, NextNode(ss, k)),
                         Append(key, Label(ss, nodeId, k))) : k \in LabelsFrom(ss, bmIdx)}
Keys(ss) == Traverse(ss, 0, 0, << >>)

-----------------------------------------------------------------------------
(* The matchers.                                                           *)

suffixLabel == 8    \* '\b'
rootLabel == 10     \* '\n'
prefixLabel == 13   \* '\r'
anyLabel == 42      \* '*'
dot == 46

VARIABLES input,   \* what the matcher is made from
          set      \* << >>, or what was built

vars == <<input, set>>

reverseDomain(d) == Reverse(d)

-----------------------------------------------------------------------------
(* Matcher                                                                 *)

\* NewMatcher: the reversed patterns.  The map seen keeps an entry from being
\* there twice, and a domain that a suffix already stands for from being there.
SuffixEntries(d, legacy) ==
  IF d[1] = dot THEN {<<prefixLabel>> \o d}
  ELSE IF legacy THEN {d, <<prefixLabel, dot>> \o d}
  ELSE {<<rootLabel>> \o d}
NewMatcher(domains, domainSuffix, generateLegacy) ==
  LET seen == domainSuffix \cup
                (IF generateLegacy THEN {<<dot>> \o d : d \in {d \in domainSuffix : d[1] # dot}}
                 ELSE {})
      list == UNION {SuffixEntries(d, generateLegacy) : d \in domainSuffix}
                \cup (domains \ seen)
  IN newSuccinctSet(SortStrings({reverseDomain(d) : d \in list}))

\* Mutation: a root label below which there is more counts as well, and the
\* next character does not matter.
StopsAtRoot(ss, nodeId, k, c) == Label(ss, nodeId, k) \in {prefixLabel, rootLabel}

\* A label at which the walk ends successfully: anything may precede, or a
\* subdomain does.
Stops(ss, nodeId, k, c) ==
  \/ Label(ss, nodeId, k) = prefixLabel
  \/ /\ Label(ss, nodeId, k) = rootLabel
     /\ c = dot
     /\ getBit(ss.leaves, NextNode(ss, k))

RECURSIVE has(_, _, _, _)
has(ss, key, nodeId, bmIdx) ==
  LET ls == LabelsFrom(ss, bmIdx) IN
  IF key = << >>
  THEN \/ getBit(ss.leaves, nodeId)
       \/ \E k \in ls : Label(ss, nodeId, k) \in {prefixLabel, rootLabel}
  ELSE LET First == {k \in ls : Stops(ss, nodeId, k, key[1]) \/ Label(ss, nodeId, k) = key[1]}
       IN /\ First # {}
          /\ LET k == Min(First)
             IN \/ Stops(ss, nodeId, k, key[1])
                \/ has(ss, Tail(key), NextNode(ss, k), Begin(ss, NextNode(ss, k)))

Match(ss, domain) == has(ss, reverseDomain(domain), 0, 0)

\* Dump's test for a pair of entries that stand for one suffix.
RootOf(p, domains) == p[1] = dot /\ Tail(p) \in domains

\* Dump: the lists the matcher might have been made from.  A domain whose
\* subdomains all match was a suffix in the legacy form.
Dump(ss) ==
  LET keys == {reverseDomain(k) : k \in Keys(ss)}
      Rest(l) == {Tail(k) : k \in {k \in keys : k[1] = l}}
      domains == {k \in keys : k[1] \notin {prefixLabel, rootLabel}}
      Root(p) == RootOf(p, domains)
  IN <<domains \ {Tail(p) : p \in {p \in Rest(prefixLabel) : Root(p)}},
       Rest(rootLabel) \cup {IF Root(p) THEN Tail(p) ELSE p : p \in Rest(prefixLabel)}>>

-----------------------------------------------------------------------------
(* AdGuardMatcher.  A rule is its text without the marks, and the marks:   *)
(* start is "||", "|" or "", end is whether it closes with "^".            *)

TrimSuffix(s, c) == IF s # << >> /\ s[Len(s)] = c THEN SubSeq(s, 1, Len(s) - 1) ELSE s

RuleKey(rule) ==
  LET opened == CASE rule.start = "||" -> <<rootLabel>> \o rule.text
                  [] rule.start = "|" -> rule.text
                  [] rule.start = "" -> <<prefixLabel>> \o rule.text
  IN reverseDomain(IF rule.end THEN opened ELSE TrimSuffix(opened, dot) \o <<suffixLabel>>)
NewAdGuardMatcher(rules) == newSuccinctSet(SortStrings({RuleKey(r) : r \in rules}))

\* How much of the key a wildcard may stand for.
Skipped(key) == 0 .. Len(key)

RECURSIVE hasWithDepth(_, _, _, _, _)
hasWithDepth(ss, key, nodeId, bmIdx, depth) ==
  LET ls == LabelsFrom(ss, bmIdx)
      Goto(rest, k, d) == hasWithDepth(ss, rest, NextNode(ss, k), Begin(ss, NextNode(ss, k)), d)
  IN
  /\ depth <= MaxDepth
  /\ IF key = << >>
     THEN LET First == {k \in ls : Label(ss, nodeId, k) \in
                                     {prefixLabel, rootLabel, suffixLabel, anyLabel}}
          IN \/ getBit(ss.leaves, nodeId)
             \/ /\ First # {}
                /\ LET k == Min(First)
                   IN Label(ss, nodeId, k) # anyLabel \/ Goto(<< >>, k, depth + 1)
     ELSE LET First == {k \in ls : Stops(ss, nodeId, k, key[1])
                                     \/ Label(ss, nodeId, k) = key[1]}
              Wild == {k \in ls : /\ Label(ss, nodeId, k) \in {anyLabel, suffixLabel} \ {key[1]}
                                  /\ \A f \in First : k < f}
          IN \/ \E k \in Wild, j \in Skipped(key) :
                  Goto(SubSeq(key, j + 1, Len(key)), k, depth + 1)
             \/ /\ First # {}
                /\ LET k == Min(First)
                   IN Stops(ss, nodeId, k, key[1]) \/ Goto(Tail(key), k, depth)

\* Match: the domain, and the domain without its last labels.
MatchRules(ss, domain) ==
  LET key == reverseDomain(domain)
      Cut == {0} \cup {i \in 1 .. Len(key) : key[i] = dot}
  IN \/ hasWithDepth(ss, key, 0, 0, 0)
     \/ \E i \in Cut :
          hasWithDepth(ss, <<suffixLabel>> \o SubSeq(key, i + 1, Len(key)), 0, 0, 0)

\* Dump of the AdGuard matcher: the rules.
DumpRules(ss) ==
  LET Rule(key) ==
        LET opened == IF key[1] \in {prefixLabel, rootLabel} THEN Tail(key) ELSE key
        IN [text |-> TrimSuffix(opened, suffixLabel),
            start |-> CASE key[1] = rootLabel -> "||"
                        [] key[1] = prefixLabel -> ""
                        [] OTHER -> "|",
            end |-> key[Len(key)] # suffixLabel]
  IN {Rule(reverseDomain(k)) : k \in Keys(ss)}

-----------------------------------------------------------------------------
DomainInit ==
  /\ \/ input \in [kind : {"domains"}, of : DomainInputs]
     \/ input \in [kind : {"rules"}, of : RuleInputs]
  /\ set = << >>

BuildMatcher ==
  /\ input.kind = "domains" /\ set = << >>
  /\ set' = <<NewMatcher(input.of[1], input.of[2], input.of[3])>>
  /\ UNCHANGED input

BuildAdGuardMatcher ==
  /\ input.kind = "rules" /\ set = << >>
  /\ set' = <<NewAdGuardMatcher(input.of)>>
  /\ UNCHANGED input

DomainSpec == DomainInit /\ [][BuildMatcher \/ BuildAdGuardMatcher]_vars

-----------------------------------------------------------------------------
EndsWith(d, s) == Len(d) >= Len(s) /\ SubSeq(d, Len(d) - Len(s) + 1, Len(d)) = s

\* What the lists mean: a domain is itself, a suffix is itself and its
\* subdomains, and one that starts with a dot is every name that ends so.
MeansDomain(domains, domainSuffix, d) ==
  \/ d \in domains
  \/ \E s \in domainSuffix :
       EndsWith(d, s) /\ (s[1] = dot \/ d = s \/ EndsWith(d, <<dot>> \o s))

\* What a rule means: * is anything; the text is found at the start ("|"), at
\* the start or behind a dot ("||"), or anywhere, and up to the end ("^").
RECURSIVE Glob(_, _)
Glob(p, d) ==
  IF p = << >> THEN d = << >>
  ELSE IF p[1] = anyLabel
       THEN \E j \in 0 .. Len(d) : Glob(Tail(p), SubSeq(d, j + 1, Len(d)))
       ELSE d # << >> /\ d[1] = p[1] /\ Glob(Tail(p), Tail(d))
MeansRule(rule, d) ==
  \E i \in 0 .. Len(d) :
    /\ rule.start = "|" => i = 0
    /\ rule.start = "||" => i = 0 \/ d[i] = dot
    /\ LET rest == SubSeq(d, i + 1, Len(d))
       IN IF rule.end THEN Glob(rule.text, rest)
          ELSE Glob(Append(TrimSuffix(rule.text, dot), anyLabel), rest)

\* The trie matches exactly what the lists mean, in the legacy form and in
\* the other, although the patterns share nodes and the walk never goes back.
MatchesDomains ==
  input.kind = "domains" /\ set # << >> =>
    \A d \in Queries : Match(set[1], d) <=> MeansDomain(input.of[1], input.of[2], d)

\* The same for rules, whose wildcards and marks share nodes with letters.
MatchesRules ==
  input.kind = "rules" /\ set # << >> =>
    \A d \in Queries : MatchRules(set[1], d) <=> \E r \in input.of : MeansRule(r, d)

\* What Dump returns means the same as what the matcher was made from, and
\* for rules it is the same but for the dot that is trimmed.
DumpMeansTheSame ==
  set # << >> =>
    IF input.kind = "domains"
    THEN \A d \in Queries :
           MeansDomain(Dump(set[1])[1], Dump(set[1])[2], d)
             <=> MeansDomain(input.of[1], input.of[2], d)
    ELSE DumpRules(set[1]) =
           {[r EXCEPT !.text = IF r.end THEN @ ELSE TrimSuffix(@, dot)] : r \in input.of}

\* The bitmaps are long enough for every index that a walk may use (a node
\* number in the leaves, a position behind a label in the labels): the last
\* node is a leaf, and the last bit a 1.
BitmapsCover ==
  set # << >> =>
    LET ss == set[1]
        nodes == Cardinality(ss.labelBitmap.ones)
        bits == nodes + Len(ss.labels)
    IN /\ Len(ss.labels) = nodes - 1
       /\ nodes - 1 < Width * ss.leaves.words
       /\ bits - 1 < Width * ss.labelBitmap.words

\* A matcher means what it was made from, and its walks stay in its bitmaps.
MatcherInv == MatchesDomains /\ MatchesRules /\ DumpMeansTheSame /\ BitmapsCover
=============================================================================
