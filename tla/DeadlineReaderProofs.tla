------------------------- MODULE DeadlineReaderProofs -------------------------
(***************************************************************************)
(* The read side of deadline.Conn for any lengths of reads and any number  *)
(* of bytes and deadlines.                                                 *)
(*                                                                         *)
(* The token tells where a pipeRead can be: while done holds it there is   *)
(* none, and a fallback reader that reads by itself has had it.  A byte    *)
(* is in one of four places, and in the plain reader they are passed in a  *)
(* fixed order: what pipeRead holds is newer than what is in the result    *)
(* channel, and that is newer than what pipeReturn is about to put back,   *)
(* also when a second pipeRead fills the channel first.                    *)
(***************************************************************************)
EXTENDS DeadlineReader, SequenceTheorems, TLAPS

\* The bytes in the result channel.
Channel == IF result = << >> THEN << >> ELSE result[1]

Holds(s, b) == \E i \in 1 .. Len(s) : s[i] = b
Run(s, m) == \A i \in 1 .. Len(s) : s[i] = m + i

\* Where pipeRead and the caller can be.
Tokens ==
  /\ done => wpc = "none" /\ pc \notin {"token", "zero", "back"}
  /\ pc \in {"token", "zero", "back", "enter", "direct"} => wpc = "none" /\ fallback
  /\ setpc \in {"load", "disable"} => fallback
  /\ disablePipe => fallback
  /\ inRead => pc = "direct"
  /\ pc = "replaced" => disablePipe \/ (wpc = "none" /\ result = << >>)
  /\ held # << >> => pc = "push"
  /\ wgot # << >> => wpc = "send"

\* Every byte is somewhere, and only once: r returned, h to be put back, c in
\* the channel, g in pipeRead.
Complete(r, h, c, g, t) ==
  /\ Len(r) + Len(h) + Len(c) + Len(g) = t
  /\ \A b \in 1 .. t : Holds(r, b) \/ Holds(h, b) \/ Holds(c, b) \/ Holds(g, b)

\* The order of the places.
Queued(r, h, c, g) ==
  /\ Run(r, 0)
  /\ Run(h, Len(r))
  /\ Run(c, Len(r) + Len(h))
  /\ Run(g, Len(r) + Len(h) + Len(c))

ReaderIInv ==
  /\ ReaderTypeOK /\ Tokens
  /\ Complete(returned, held, Channel, wgot, taken)
  /\ ~fallback => Queued(returned, held, Channel, wgot)

-----------------------------------------------------------------------------
LEMMA EmptyRun == << >> \in Bytes /\ Len(<< >>) = 0 /\ (\A b : ~Holds(<< >>, b)) /\ (\A m : Run(<< >>, m))
<1>1. << >> \in Bytes /\ Len(<< >>) = 0 /\ 1 .. 0 = {}
  BY DEF Bytes
<1> QED BY <1>1 DEF Holds, Run

LEMMA LenIsNat == ASSUME NEW s \in Bytes PROVE Len(s) \in Nat /\ (s = << >> <=> Len(s) = 0)
  BY LenProperties, EmptySeq DEF Bytes

\* A sequence is cut in two.
LEMMA CutSeq ==
  ASSUME NEW c \in Bytes, NEW k \in 0 .. Len(c)
  PROVE  /\ SubSeq(c, 1, k) \in Bytes /\ Len(SubSeq(c, 1, k)) = k
         /\ \A i \in 1 .. k : SubSeq(c, 1, k)[i] = c[i]
         /\ SubSeq(c, k + 1, Len(c)) \in Bytes /\ Len(SubSeq(c, k + 1, Len(c))) = Len(c) - k
         /\ \A i \in 1 .. Len(c) - k : SubSeq(c, k + 1, Len(c))[i] = c[k + i]
<1>1. Len(c) \in Nat
  BY LenIsNat
<1>2. \A i \in 1 .. Len(c) : c[i] \in 1 .. MaxBytes
  BY ElementOfSeq DEF Bytes
<1>3. /\ SubSeq(c, 1, k) \in Bytes /\ Len(SubSeq(c, 1, k)) = k
      /\ \A i \in 1 .. k : SubSeq(c, 1, k)[i] = c[i]
  BY <1>1, <1>2, SubSeqProperties DEF Bytes
<1>4. /\ SubSeq(c, k + 1, Len(c)) \in Bytes /\ Len(SubSeq(c, k + 1, Len(c))) = Len(c) - k
      /\ \A i \in 1 .. Len(c) - k : SubSeq(c, k + 1, Len(c))[i] = c[k + i]
  BY <1>1, <1>2, SubSeqProperties DEF Bytes
<1> QED BY <1>3, <1>4

\* Two sequences are joined.
LEMMA JoinSeq ==
  ASSUME NEW r \in Bytes, NEW p \in Bytes
  PROVE  /\ r \o p \in Bytes /\ Len(r \o p) = Len(r) + Len(p)
         /\ \A i \in 1 .. Len(r) : (r \o p)[i] = r[i]
         /\ \A i \in 1 .. Len(p) : (r \o p)[Len(r) + i] = p[i]
<1>1. Len(r) \in Nat /\ Len(p) \in Nat
  BY LenIsNat
<1>2. /\ r \o p \in Seq(1 .. MaxBytes) /\ Len(r \o p) = Len(r) + Len(p)
      /\ \A i \in 1 .. Len(r) + Len(p) : (r \o p)[i] = IF i <= Len(r) THEN r[i] ELSE p[i - Len(r)]
  BY ConcatProperties DEF Bytes
<1>3. \A i \in 1 .. Len(r) : i \in 1 .. Len(r) + Len(p) /\ i <= Len(r)
  BY <1>1
<1>4. \A i \in 1 .. Len(p) : /\ Len(r) + i \in 1 .. Len(r) + Len(p) /\ ~(Len(r) + i <= Len(r))
                             /\ (Len(r) + i) - Len(r) = i
  BY <1>1
<1> QED BY <1>2, <1>3, <1>4 DEF Bytes

\* What joined sequences hold.
LEMMA JoinHolds ==
  ASSUME NEW r \in Bytes, NEW p \in Bytes, NEW b, Holds(r, b) \/ Holds(p, b)
  PROVE  Holds(r \o p, b)
<1> DEFINE e == r \o p
<1>1. /\ Len(e) = Len(r) + Len(p) /\ \A i \in 1 .. Len(r) : e[i] = r[i]
      /\ \A i \in 1 .. Len(p) : e[Len(r) + i] = p[i]
      /\ Len(r) \in Nat /\ Len(p) \in Nat
  BY JoinSeq, LenIsNat
<1> HIDE DEF e
<1>2. Holds(r, b) => Holds(e, b)
  BY <1>1 DEF Holds
<1>3. ASSUME Holds(p, b) PROVE Holds(e, b)
  <2>1. PICK i \in 1 .. Len(p) : p[i] = b
    BY <1>3 DEF Holds
  <2>2. Len(r) + i \in 1 .. Len(e) /\ e[Len(r) + i] = b
    BY <1>1, <2>1
  <2> QED BY <2>2 DEF Holds
<1>4. Holds(e, b)
  BY <1>2, <1>3
<1> QED BY <1>4 DEF e

\* A run is continued.
LEMMA JoinRun ==
  ASSUME NEW r \in Bytes, NEW p \in Bytes, NEW m \in Nat, Run(r, m), Run(p, m + Len(r))
  PROVE  Run(r \o p, m)
<1> DEFINE e == r \o p
<1>1. /\ Len(e) = Len(r) + Len(p) /\ \A i \in 1 .. Len(r) : e[i] = r[i]
      /\ \A i \in 1 .. Len(p) : e[Len(r) + i] = p[i]
      /\ Len(r) \in Nat /\ Len(p) \in Nat
  BY JoinSeq, LenIsNat
<1> HIDE DEF e
<1>2. ASSUME NEW i \in 1 .. Len(e) PROVE e[i] = m + i
  <2>1. CASE i <= Len(r)
    BY <1>1, <2>1 DEF Run
  <2>2. CASE i > Len(r)
    <3>1. i - Len(r) \in 1 .. Len(p) /\ Len(r) + (i - Len(r)) = i
      BY <1>1, <2>2
    <3>2. e[i] = p[i - Len(r)] /\ p[i - Len(r)] = m + Len(r) + (i - Len(r))
      BY <1>1, <3>1 DEF Run
    <3> QED BY <1>1, <3>2
  <2> QED BY <1>1, <2>1, <2>2
<1>3. Run(e, m)
  BY <1>2 DEF Run
<1> QED BY <1>3 DEF e

\* The bytes that upstream delivers.
LEMMA UpstreamRun ==
  ASSUME NEW n \in Nat, taken \in Nat, taken + n <= MaxBytes
  PROVE  /\ Upstream(n) \in Bytes /\ Len(Upstream(n)) = n /\ Run(Upstream(n), taken)
         /\ \A b \in 1 .. taken + n : b \in 1 .. taken \/ Holds(Upstream(n), b)
<1>1. \A i \in 1 .. n : taken + i \in 1 .. MaxBytes
  BY ReaderAssumption
<1>2. Upstream(n) \in [1 .. n -> 1 .. MaxBytes]
  BY <1>1 DEF Upstream
<1>3. Upstream(n) \in Bytes /\ Len(Upstream(n)) = n
  BY <1>2 DEF Bytes, Upstream
<1>4. \A i \in 1 .. n : Upstream(n)[i] = taken + i
  BY DEF Upstream
<1>5. ASSUME NEW b \in 1 .. taken + n, b \notin 1 .. taken PROVE Holds(Upstream(n), b)
  <2>1. b - taken \in 1 .. n /\ taken + (b - taken) = b
    BY <1>5
  <2> QED BY <1>3, <1>4, <2>1 DEF Holds
<1> QED BY <1>3, <1>4, <1>5 DEF Run

-----------------------------------------------------------------------------
\* pipeReturn: k bytes of the result are returned and the rest is held.
LEMMA ReturnMoves ==
  ASSUME NEW r \in Bytes, NEW c \in Bytes, NEW g \in Bytes, NEW t \in Nat, NEW k \in 0 .. Len(c),
         Complete(r, << >>, c, g, t)
  PROVE  LET e == r \o SubSeq(c, 1, k)
             q == SubSeq(c, k + 1, Len(c))
         IN  /\ e \in Bytes /\ q \in Bytes
             /\ Complete(e, q, << >>, g, t)
             /\ Queued(r, << >>, c, g) => Queued(e, q, << >>, g)
<1> DEFINE p == SubSeq(c, 1, k)
           q == SubSeq(c, k + 1, Len(c))
           e == r \o p
<1>1. /\ p \in Bytes /\ Len(p) = k /\ (\A i \in 1 .. k : p[i] = c[i])
      /\ q \in Bytes /\ Len(q) = Len(c) - k /\ (\A i \in 1 .. Len(c) - k : q[i] = c[k + i])
  BY CutSeq
<1>2. Len(r) \in Nat /\ Len(c) \in Nat /\ Len(g) \in Nat /\ k \in Nat /\ k <= Len(c)
  BY LenIsNat
<1> HIDE DEF p, q
<1>3. e \in Bytes /\ Len(e) = Len(r) + k
  BY <1>1, JoinSeq
<1>4. \A b : Holds(r, b) \/ Holds(p, b) => Holds(e, b)
  BY <1>1, JoinHolds
<1>5. Queued(r, << >>, c, g) => Run(e, 0)
  <2>1. Run(c, Len(r)) => Run(p, 0 + Len(r))
    <3>1. 0 + Len(r) = Len(r) /\ \A i \in 1 .. k : i \in 1 .. Len(c)
      BY <1>2
    <3> QED BY <1>1, <3>1 DEF Run
  <2>2. Queued(r, << >>, c, g) => Run(r, 0) /\ Run(c, Len(r))
    BY <1>2, EmptyRun DEF Queued
  <2> QED BY <1>1, <2>1, <2>2, JoinRun
<1> HIDE DEF e
<1>6. ASSUME NEW b, Holds(c, b) PROVE Holds(p, b) \/ Holds(q, b)
  <2>1. PICK i \in 1 .. Len(c) : c[i] = b
    BY <1>6 DEF Holds
  <2>2. CASE i <= k
    BY <1>1, <1>2, <2>1, <2>2 DEF Holds
  <2>3. CASE i > k
    <3>1. i - k \in 1 .. Len(c) - k /\ k + (i - k) = i
      BY <1>2, <2>3
    <3> QED BY <1>1, <2>1, <3>1 DEF Holds
  <2> QED BY <1>2, <2>2, <2>3
<1>7. Complete(e, q, << >>, g, t)
  <2>1. Len(e) + Len(q) + Len(<< >>) + Len(g) = t
    <3>1. Len(r) + 0 + Len(c) + Len(g) = t
      BY EmptyRun DEF Complete
    <3>2. Len(e) + Len(q) + 0 + Len(g) = t
      <4>1. Len(q) = Len(c) - k /\ Len(e) = Len(r) + k
        BY <1>1, <1>3
      <4>2. \A x, y, z, w \in Nat : (x + w) + (y - w) + 0 + z = x + 0 + y + z
        OBVIOUS
      <4> QED BY <1>2, <3>1, <4>1, <4>2
    <3> QED BY <3>2, EmptyRun
  <2>2. \A b \in 1 .. t : Holds(e, b) \/ Holds(q, b) \/ Holds(g, b)
    BY <1>4, <1>6, EmptyRun DEF Complete
  <2> QED BY <2>1, <2>2 DEF Complete
<1>8. Queued(r, << >>, c, g) => Queued(e, q, << >>, g)
  <2> SUFFICES ASSUME Queued(r, << >>, c, g) PROVE Queued(e, q, << >>, g)
    OBVIOUS
  <2>1. Run(q, Len(e))
    <3>1. ASSUME NEW i \in 1 .. Len(q) PROVE q[i] = Len(e) + i
      <4>1. k + i \in 1 .. Len(c) /\ q[i] = c[k + i]
        BY <1>1, <1>2
      <4>2. c[k + i] = Len(r) + Len(<< >>) + (k + i)
        BY <4>1 DEF Queued, Run
      <4> QED BY <1>1, <1>2, <1>3, <4>1, <4>2, EmptyRun
    <3> QED BY <3>1 DEF Run
  <2>2. Len(e) + Len(q) + Len(<< >>) = Len(r) + Len(<< >>) + Len(c)
    BY <1>1, <1>2, <1>3, EmptyRun
  <2> QED BY <1>5, <2>1, <2>2, EmptyRun DEF Queued
<1> QED BY <1>1, <1>3, <1>7, <1>8 DEF e, p, q

\* A result goes into the empty channel, from pipeReturn or from pipeRead.
LEMMA ChannelFills ==
  ASSUME NEW r \in Bytes, NEW h \in Bytes, NEW g \in Bytes, NEW t \in Nat, Complete(r, h, << >>, g, t)
  PROVE  /\ Complete(r, << >>, h, g, t) /\ Complete(r, h, g, << >>, t)
         /\ Queued(r, h, << >>, g) => Queued(r, << >>, h, g) /\ Queued(r, h, g, << >>)
<1>1. Len(r) \in Nat /\ Len(h) \in Nat /\ Len(g) \in Nat
  BY LenIsNat
<1>2. Complete(r, << >>, h, g, t) /\ Complete(r, h, g, << >>, t)
  BY <1>1, EmptyRun DEF Complete
<1>3. Queued(r, h, << >>, g) => Queued(r, << >>, h, g) /\ Queued(r, h, g, << >>)
  BY <1>1, EmptyRun DEF Queued
<1> QED BY <1>2, <1>3

\* Bytes come from upstream, to pipeRead or to the caller.
LEMMA UpstreamDelivers ==
  ASSUME NEW r \in Bytes, NEW h \in Bytes, NEW c \in Bytes, NEW g \in Bytes, taken \in Nat,
         NEW n \in Nat, taken + n <= MaxBytes, Complete(r, h, c, g, taken)
  PROVE  /\ r \o Upstream(n) \in Bytes /\ Complete(r \o Upstream(n), h, c, g, taken + n)
         /\ g = << >> => /\ Complete(r, h, c, Upstream(n), taken + n)
                         /\ Queued(r, h, c, g) => Queued(r, h, c, Upstream(n))
<1> DEFINE u == Upstream(n)  e == r \o u
<1>1. /\ u \in Bytes /\ Len(u) = n /\ Run(u, taken)
      /\ \A b \in 1 .. taken + n : b \in 1 .. taken \/ Holds(u, b)
  BY UpstreamRun
<1>2. Len(r) \in Nat /\ Len(h) \in Nat /\ Len(c) \in Nat /\ Len(g) \in Nat
  BY LenIsNat
<1> HIDE DEF u
<1>3. e \in Bytes /\ Len(e) = Len(r) + n
  BY <1>1, JoinSeq
<1>4. \A b : Holds(r, b) \/ Holds(u, b) => Holds(e, b)
  BY <1>1, JoinHolds
<1> HIDE DEF e
<1>5. Complete(e, h, c, g, taken + n)
  <2>1. Len(e) + Len(h) + Len(c) + Len(g) = taken + n
    BY <1>2, <1>3 DEF Complete
  <2>2. \A b \in 1 .. taken + n : Holds(e, b) \/ Holds(h, b) \/ Holds(c, b) \/ Holds(g, b)
    BY <1>1, <1>4 DEF Complete
  <2> QED BY <2>1, <2>2 DEF Complete
<1>6. g = << >> => Complete(r, h, c, u, taken + n)
  <2> SUFFICES ASSUME g = << >> PROVE Complete(r, h, c, u, taken + n)
    OBVIOUS
  <2>1. Len(r) + Len(h) + Len(c) + Len(u) = taken + n
    BY <1>1, <1>2, EmptyRun DEF Complete
  <2>2. \A b \in 1 .. taken + n : Holds(r, b) \/ Holds(h, b) \/ Holds(c, b) \/ Holds(u, b)
    BY <1>1, EmptyRun DEF Complete
  <2> QED BY <2>1, <2>2 DEF Complete
<1>7. g = << >> /\ Queued(r, h, c, g) => Queued(r, h, c, u)
  <2>1. g = << >> => taken = Len(r) + Len(h) + Len(c)
    BY <1>2, EmptyRun DEF Complete
  <2> QED BY <1>1, <2>1 DEF Queued
<1> QED BY <1>3, <1>5, <1>6, <1>7 DEF e, u

-----------------------------------------------------------------------------
\* ReaderTypeOK in two parts: the bytes, and everything else.
ResultOK == result = << >> \/ \E x \in Bytes : result = <<x>>
DataOK == held \in Bytes /\ wgot \in Bytes /\ returned \in Bytes /\ taken \in 0 .. MaxBytes /\ ResultOK
ControlOK ==
  /\ fallback \in Fallbacks
  /\ pc \in {"idle", "second", "token", "zero", "back", "enter", "direct", "third", "push",
             "replaced"}
  /\ plen \in ReadLens \cup {0} /\ gen \in Nat
  /\ done \in BOOLEAN
  /\ wpc \in {"none", "reading", "send", "token"} /\ wlen \in ReadLens \cup {0}
  /\ setpc \in {"idle", "load", "disable", "pipe", "set", "upstream"} /\ sarg \in Times
  /\ zero \in BOOLEAN /\ inRead \in BOOLEAN /\ disablePipe \in BOOLEAN
  /\ pipeDeadline!TypeOK
  /\ upDeadline \in {"none", "pending", "exceeded"}
  /\ setting \in Times /\ sets \in 0 .. MaxSets

LEMMA OneResult ==
  ASSUME NEW q
  PROVE  (q \in Seq(Bytes) /\ Len(q) <= 1) <=> (q = << >> \/ \E x \in Bytes : q = <<x>>)
<1>1. ASSUME q \in Seq(Bytes), Len(q) <= 1 PROVE q = << >> \/ \E x \in Bytes : q = <<x>>
  <2>1. Len(q) \in Nat /\ (Len(q) = 0 => q = << >>)
    BY <1>1, LenProperties, EmptySeq
  <2>2. CASE Len(q) = 1
    <3>1. q[1] \in Bytes
      BY <1>1, <2>2, ElementOfSeq
    <3>2. <<q[1]>> \in Seq(Bytes) /\ Len(<<q[1]>>) = 1 /\ <<q[1]>>[1] = q[1]
      BY <3>1
    <3>3. q = <<q[1]>>
      BY <1>1, <2>2, <3>2, SeqEqual
    <3> QED BY <3>1, <3>3
  <2>3. Len(q) = 0 \/ Len(q) = 1
    BY <1>1, <2>1
  <2> QED BY <2>1, <2>2, <2>3
<1>2. ASSUME q = << >> \/ \E x \in Bytes : q = <<x>> PROVE q \in Seq(Bytes) /\ Len(q) <= 1
  <2>1. << >> \in Seq(Bytes) /\ Len(<< >>) <= 1
    OBVIOUS
  <2>2. \A x \in Bytes : <<x>> \in Seq(Bytes) /\ Len(<<x>>) <= 1
    OBVIOUS
  <2> QED BY <1>2, <2>1, <2>2
<1> QED BY <1>1, <1>2

LEMMA TypeParts == (ReaderTypeOK <=> DataOK /\ ControlOK) /\ (ReaderTypeOK <=> DataOK /\ ControlOK)'
<1>1. ResultOK <=> result \in Seq(Bytes) /\ Len(result) <= 1
  BY OneResult DEF ResultOK
<1>2. ResultOK' <=> result' \in Seq(Bytes) /\ Len(result') <= 1
  BY OneResult DEF ResultOK
<1>3. ReaderTypeOK <=> DataOK /\ ControlOK
  BY <1>1, Zenon DEF ReaderTypeOK, DataOK, ControlOK
<1>4. ReaderTypeOK' <=> DataOK' /\ ControlOK'
  BY <1>2, Zenon DEF ReaderTypeOK, DataOK, ControlOK
<1> QED BY <1>3, <1>4

\* What is in the channel.
LEMMA ChannelIs ==
  /\ result = << >> => Channel = << >>
  /\ \A x \in Bytes : result = <<x>> => Channel = x /\ result[1] = x /\ result # << >>
  /\ ResultOK => Channel \in Bytes
  BY EmptyRun DEF Channel, ResultOK

LEMMA ControlInv == ControlOK /\ [ReaderNext]_readerVars => ControlOK'
<1> SUFFICES ASSUME ControlOK, [ReaderNext]_readerVars PROVE ControlOK'
  OBVIOUS
<1> USE DEF ControlOK, readVars, workVars, setVars, fallbackVars, deadlineVars, pipeDeadline!TypeOK
<1>1. CASE \E n \in ReadLens : Read(n)
  BY <1>1 DEF Read, TakeResult, pipeReturn, BackToIdle
<1>2. CASE PushBack \/ ReadResult \/ ReadTimeout
  <2>1. CASE PushBack
    BY <2>1 DEF PushBack, BackToIdle
  <2>2. CASE ReadResult
    BY <2>2 DEF ReadResult, TakeResult, pipeReturn, BackToIdle
  <2>3. CASE ReadTimeout
    BY <2>3 DEF ReadTimeout, pipeReturn, BackToIdle
  <2> QED BY <1>2, <2>1, <2>2, <2>3
<1>3. CASE ReadDone \/ FallbackDone \/ LoadDisablePipe \/ LoadDeadline \/ GiveBack
  <2>1. /\ pc' \in {"third", "token", "direct", "zero", "back", "enter"}
        /\ wpc' \in {wpc, "reading"} /\ wlen' \in {wlen, plen} /\ gen' \in {gen, epoch}
        /\ UNCHANGED <<fallback, plen, setpc, sarg, setting, sets, zero, inRead, disablePipe, upDeadline,
                      epoch, exceeded, pending>>
    <3>1. CASE ReadDone
      BY <3>1 DEF ReadDone, GoPipeRead
    <3>2. CASE FallbackDone
      BY <3>2 DEF FallbackDone
    <3>3. CASE LoadDisablePipe
      BY <3>3 DEF LoadDisablePipe
    <3>4. CASE LoadDeadline
      BY <3>4 DEF LoadDeadline, GoPipeRead
    <3>5. CASE GiveBack
      BY <3>5 DEF GiveBack
    <3> QED BY <1>3, <3>1, <3>2, <3>3, <3>4, <3>5
  <2>2. done' \in BOOLEAN
    BY <1>3, Zenon DEF ReadDone, FallbackDone, LoadDisablePipe, LoadDeadline, GiveBack
  <2> QED BY <2>1, <2>2
<1>4. CASE EnterDirect \/ DirectTimeout \/ ReaderReplaceable
  <2>1. inRead' \in BOOLEAN
    BY <1>4, Zenon DEF EnterDirect, DirectTimeout, LeaveDirect, ReaderReplaceable
  <2>2. /\ pc' \in {"direct", "idle", "replaced"} /\ plen' \in {plen, 0} /\ gen' \in {gen, 0}
        /\ UNCHANGED <<fallback, done, wpc, wlen, setpc, sarg, setting, sets, zero, disablePipe, upDeadline,
                      epoch, exceeded, pending>>
    <3>1. CASE EnterDirect
      BY <3>1 DEF EnterDirect
    <3>2. CASE DirectTimeout
      BY <3>2 DEF DirectTimeout, LeaveDirect, BackToIdle
    <3>3. CASE ReaderReplaceable
      BY <3>3 DEF ReaderReplaceable
    <3> QED BY <1>4, <3>1, <3>2, <3>3
  <2> QED BY <2>1, <2>2
<1>5. CASE WorkerSends \/ WorkerToken
  <2>1. CASE WorkerSends
    BY <2>1 DEF WorkerSends
  <2>2. CASE WorkerToken
    BY <2>2 DEF WorkerToken
  <2> QED BY <1>5, <2>1, <2>2
<1>6. CASE \E n \in 0 .. MaxBytes : DirectRead(n) \/ WorkerReads(n)
  <2>1. inRead' \in BOOLEAN
    BY <1>6, Zenon DEF DirectRead, WorkerReads, LeaveDirect
  <2>2. /\ pc' \in {pc, "idle"} /\ plen' \in {plen, 0} /\ gen' \in {gen, 0} /\ wpc' \in {wpc, "send"}
        /\ UNCHANGED <<fallback, done, wlen, setpc, sarg, setting, sets, zero, disablePipe, upDeadline,
                      epoch, exceeded, pending>>
    BY <1>6 DEF DirectRead, WorkerReads, LeaveDirect, BackToIdle
  <2> QED BY <2>1, <2>2
<1>7. CASE \E t \in Times : SetCheck(t)
  <2>1. /\ sets' \in 0 .. MaxSets /\ sarg' \in Times /\ setpc' \in {"load", "pipe", "upstream"}
    BY <1>7, ReaderAssumption DEF SetCheck
  <2>2. UNCHANGED <<fallback, pc, plen, gen, done, wpc, wlen, setting, zero, inRead, disablePipe,
                    upDeadline, epoch, exceeded, pending>>
    BY <1>7 DEF SetCheck
  <2> QED BY <2>1, <2>2
<1>8. CASE SetLoadInRead \/ SetDisable \/ SetStore
  <2>1. /\ setpc' \in {"disable", "pipe", "upstream", "set"}
        /\ UNCHANGED <<fallback, pc, plen, gen, done, wpc, wlen, sarg, setting, sets, inRead, upDeadline,
                      epoch, exceeded, pending>>
    BY <1>8 DEF SetLoadInRead, SetDisable, SetStore
  <2>2. zero' \in BOOLEAN /\ disablePipe' \in BOOLEAN
    BY <1>8, Zenon DEF SetLoadInRead, SetDisable, SetStore
  <2> QED BY <2>1, <2>2
<1>9. CASE SetPipe
  <2>1. setting' \in Times /\ setpc' = "idle" /\ epoch' \in {epoch, epoch + 1}
    BY <1>9 DEF SetPipe, pipeDeadline!SetPast, pipeDeadline!Refresh, pipeDeadline!NextEpoch
  <2>2. exceeded' \in BOOLEAN /\ pending' \in BOOLEAN
    BY <1>9, Zenon DEF SetPipe, pipeDeadline!SetPast, pipeDeadline!Refresh
  <2>3. UNCHANGED <<fallback, pc, plen, gen, done, wpc, wlen, sarg, sets, zero, inRead, disablePipe,
                    upDeadline>>
    BY <1>9 DEF SetPipe
  <2> QED BY <2>1, <2>2, <2>3
<1>10. CASE SetUpstream
  BY <1>10 DEF SetUpstream, Times
<1>11. CASE Expire
  <2>1. exceeded' \in BOOLEAN /\ pending' \in BOOLEAN
    BY <1>11, Zenon DEF Expire, pipeDeadline!Expire
  <2>2. /\ upDeadline' \in {upDeadline, "exceeded"} /\ epoch' = epoch
        /\ UNCHANGED <<fallback, pc, plen, gen, done, wpc, wlen, setpc, sarg, setting, sets, zero,
                      inRead, disablePipe>>
    BY <1>11 DEF Expire, pipeDeadline!Expire
  <2> QED BY <2>1, <2>2
<1>12. CASE UNCHANGED readerVars
  BY <1>12 DEF readerVars
<1> QED
  BY <1>1, <1>2, <1>3, <1>4, <1>5, <1>6, <1>7, <1>8, <1>9, <1>10, <1>11, <1>12
  DEF ReaderNext, ReadStep, WorkerStep, UpstreamStep, SetStep, ReadBuffer, ReadFrom, ReaderReadPacket

\* The invariant without what ControlInv is about.
BytesOK ==
  /\ DataOK /\ Tokens
  /\ Complete(returned, held, Channel, wgot, taken)
  /\ ~fallback => Queued(returned, held, Channel, wgot)

LEMMA InvParts == (ReaderIInv <=> ControlOK /\ BytesOK) /\ (ReaderIInv <=> ControlOK /\ BytesOK)'
  BY TypeParts, Zenon DEF ReaderIInv, BytesOK

LEMMA ReaderInitInv == ReaderInit => ReaderIInv
<1> SUFFICES ASSUME ReaderInit PROVE ReaderIInv
  OBVIOUS
<1>1. ControlOK
  <2>1. /\ done \in BOOLEAN /\ zero \in BOOLEAN /\ inRead \in BOOLEAN /\ disablePipe \in BOOLEAN
        /\ exceeded \in BOOLEAN /\ pending \in BOOLEAN
    BY DEF ReaderInit, pipeDeadline!Init
  <2>2. sets \in 0 .. MaxSets
    BY ReaderAssumption DEF ReaderInit
  <2> QED BY <2>1, <2>2 DEF ReaderInit, ControlOK, Times, pipeDeadline!Init, pipeDeadline!TypeOK
<1>2. DataOK /\ Tokens
  BY EmptyRun, ReaderAssumption DEF ReaderInit, DataOK, ResultOK, Tokens
<1>3. Channel = << >> /\ returned = << >> /\ held = << >> /\ wgot = << >> /\ taken = 0
  BY DEF ReaderInit, Channel
<1>4. Complete(<< >>, << >>, << >>, << >>, 0) /\ Queued(<< >>, << >>, << >>, << >>)
  BY EmptyRun DEF Complete, Queued
<1> QED BY <1>1, <1>2, <1>3, <1>4, InvParts DEF BytesOK

\* A step that moves no byte.
LEMMA NothingMoves ==
  ASSUME BytesOK, Tokens', UNCHANGED <<fallback, held, result, wgot, taken, returned>>
  PROVE  BytesOK'
<1>1. DataOK' /\ Channel' = Channel
  BY DEF BytesOK, DataOK, ResultOK, Channel
<1> QED BY <1>1 DEF BytesOK

\* A result is taken from the channel.
LEMMA TakeInv ==
  ASSUME ControlOK, BytesOK, NEW n \in ReadLens \cup {0}, TakeResult(n), pc \in {"idle", "second", "third"}
  PROVE  BytesOK'
<1>1. held = << >> /\ DataOK
  BY DEF BytesOK, Tokens
<1>2. PICK c \in Bytes : result = <<c>>
  BY <1>1 DEF DataOK, ResultOK, TakeResult
<1>3. Channel = c /\ result[1] = c
  BY <1>2, ChannelIs
<1> DEFINE k == AtMost(n, c)
           e == returned \o SubSeq(c, 1, k)
           q == SubSeq(c, k + 1, Len(c))
<1>4. k \in 0 .. Len(c) /\ Len(c) \in Nat
  BY LenIsNat, ReaderAssumption DEF AtMost
<1>5. taken \in Nat /\ Complete(returned, << >>, c, wgot, taken) /\ (~fallback => Queued(returned, << >>, c, wgot))
  BY <1>1, <1>3 DEF BytesOK, DataOK
<1>6. returned \in Bytes /\ wgot \in Bytes
  BY <1>1 DEF DataOK
<1>7. /\ e \in Bytes /\ q \in Bytes /\ Complete(e, q, << >>, wgot, taken)
      /\ Queued(returned, << >>, c, wgot) => Queued(e, q, << >>, wgot)
  BY <1>4, <1>5, <1>6, ReturnMoves
<1>8. Len(q) = Len(c) - k
  BY <1>4, CutSeq
<1>9. /\ returned' = e /\ result' = << >>
      /\ \/ Len(c) > k /\ pc' = "push" /\ held' = q
         \/ ~(Len(c) > k) /\ pc' = "idle" /\ held' = held
      /\ UNCHANGED <<fallback, done, wpc, wgot, setpc, inRead, disablePipe, taken>>
  BY <1>3 DEF TakeResult, pipeReturn, BackToIdle, workVars, setVars, fallbackVars
<1> HIDE DEF k, e, q
<1>10. held' = q
  <2>1. CASE ~(Len(c) > k)
    <3>1. Len(q) = 0
      BY <1>4, <1>8, <2>1
    <3>2. q = << >>
      BY <1>7, <3>1, LenIsNat
    <3> QED BY <1>1, <1>9, <2>1, <3>2
  <2> QED BY <1>9, <2>1
<1>11. DataOK' /\ Channel' = << >>
  BY <1>1, <1>7, <1>9, <1>10 DEF DataOK, ResultOK, Channel
<1>12. held' # << >> => pc' = "push"
  BY <1>1, <1>9
<1>13. Tokens'
  BY <1>9, <1>12 DEF BytesOK, Tokens
<1> QED
  BY <1>5, <1>7, <1>9, <1>10, <1>11, <1>13 DEF BytesOK

\* The channel is filled.
LEMMA FillInv ==
  ASSUME BytesOK, PushBack \/ WorkerSends
  PROVE  BytesOK'
<1>1. DataOK /\ result = << >> /\ Channel = << >>
  BY ChannelIs DEF BytesOK, PushBack, WorkerSends
<1>2. returned \in Bytes /\ held \in Bytes /\ wgot \in Bytes /\ taken \in Nat
  BY <1>1 DEF DataOK
<1>3. /\ Complete(returned, held, << >>, wgot, taken)
      /\ ~fallback => Queued(returned, held, << >>, wgot)
  BY <1>1 DEF BytesOK
<1>4. /\ Complete(returned, << >>, held, wgot, taken) /\ Complete(returned, held, wgot, << >>, taken)
      /\ ~fallback => Queued(returned, << >>, held, wgot) /\ Queued(returned, held, wgot, << >>)
  BY <1>2, <1>3, ChannelFills
<1>5. CASE PushBack
  <2>1. /\ pc = "push" /\ result' = <<held>> /\ held' = << >> /\ pc' = "idle"
        /\ UNCHANGED <<fallback, done, wpc, wgot, setpc, inRead, disablePipe, taken, returned>>
    BY <1>5 DEF PushBack, BackToIdle, workVars, setVars, fallbackVars
  <2>2. DataOK' /\ Channel' = held
    BY <1>1, <1>2, <2>1, EmptyRun DEF DataOK, ResultOK, Channel
  <2>3. Tokens'
    BY <2>1 DEF BytesOK, Tokens
  <2> QED BY <1>4, <2>1, <2>2, <2>3 DEF BytesOK
<1>6. CASE WorkerSends
  <2>1. /\ wpc = "send" /\ result' = <<wgot>> /\ wgot' = << >> /\ wpc' = "token"
        /\ UNCHANGED <<fallback, pc, done, held, setpc, inRead, disablePipe, taken, returned>>
    BY <1>6 DEF WorkerSends, readVars, setVars, fallbackVars
  <2>2. DataOK' /\ Channel' = wgot
    BY <1>1, <1>2, <2>1, EmptyRun DEF DataOK, ResultOK, Channel
  <2>3. Tokens'
    BY <2>1 DEF BytesOK, Tokens
  <2> QED BY <1>4, <2>1, <2>2, <2>3 DEF BytesOK
<1> QED BY <1>5, <1>6

\* Bytes come from upstream.
LEMMA DeliverInv ==
  ASSUME ControlOK, BytesOK, NEW n \in 0 .. MaxBytes, DirectRead(n) \/ WorkerReads(n)
  PROVE  BytesOK'
<1>1. DataOK /\ Channel \in Bytes
  BY ChannelIs DEF BytesOK, DataOK
<1>2. returned \in Bytes /\ held \in Bytes /\ wgot \in Bytes /\ taken \in Nat
  BY <1>1 DEF DataOK
<1>3. n \in Nat /\ taken + n <= MaxBytes /\ taken' = taken + n /\ taken' \in 0 .. MaxBytes
  BY <1>2 DEF DirectRead, WorkerReads
<1>4. Complete(returned, held, Channel, wgot, taken)
  BY DEF BytesOK
<1>5. /\ returned \o Upstream(n) \in Bytes /\ Complete(returned \o Upstream(n), held, Channel, wgot, taken + n)
      /\ wgot = << >> =>
           /\ Complete(returned, held, Channel, Upstream(n), taken + n)
           /\ Queued(returned, held, Channel, wgot) => Queued(returned, held, Channel, Upstream(n))
  BY <1>1, <1>2, <1>3, <1>4, UpstreamDelivers
<1>6. CASE DirectRead(n)
  <2>1. /\ pc = "direct" /\ returned' = returned \o Upstream(n) /\ pc' = "idle" /\ inRead' = FALSE
        /\ UNCHANGED <<fallback, held, result, done, wpc, wgot, setpc, disablePipe>>
    BY <1>6 DEF DirectRead, LeaveDirect, BackToIdle, workVars, setVars
  <2>2. DataOK' /\ Channel' = Channel
    BY <1>1, <1>3, <1>5, <2>1 DEF DataOK, ResultOK, Channel
  <2>3. Tokens' /\ fallback'
    BY <2>1 DEF BytesOK, Tokens
  <2> QED BY <1>3, <1>5, <2>1, <2>2, <2>3 DEF BytesOK
<1>7. CASE WorkerReads(n)
  <2>1. /\ wpc = "reading" /\ wgot' = Upstream(n) /\ wpc' = "send"
        /\ UNCHANGED <<fallback, pc, held, result, done, setpc, inRead, disablePipe, returned>>
    BY <1>7 DEF WorkerReads, readVars, setVars, fallbackVars
  <2>2. wgot = << >>
    BY <2>1 DEF BytesOK, Tokens
  <2>3. DataOK' /\ Channel' = Channel
    <3>1. Upstream(n) \in Bytes
      BY <1>2, <1>3, UpstreamRun
    <3> QED BY <1>1, <1>3, <2>1, <3>1 DEF DataOK, ResultOK, Channel
  <2>4. Tokens'
    BY <2>1 DEF BytesOK, Tokens
  <2> QED BY <1>3, <1>5, <2>1, <2>2, <2>3, <2>4 DEF BytesOK
<1> QED BY <1>6, <1>7

\* The steps that move no byte.
ControlStep ==
  \/ \E n \in ReadLens : pc = "idle" /\ pc' = "second" /\ Read(n) /\ result = << >>
  \/ ReadTimeout \/ ReadDone \/ FallbackDone \/ LoadDisablePipe \/ LoadDeadline \/ GiveBack
  \/ EnterDirect \/ DirectTimeout \/ WorkerToken \/ ReaderReplaceable
  \/ (\E t \in Times : SetCheck(t)) \/ SetLoadInRead \/ SetDisable \/ SetStore \/ SetPipe \/ SetUpstream
  \/ Expire \/ UNCHANGED readerVars

LEMMA ControlSteps ==
  ASSUME ControlOK, BytesOK, ControlStep
  PROVE  BytesOK'
<1> USE DEF readVars, workVars, setVars, fallbackVars, deadlineVars
<1>1. UNCHANGED <<fallback, held, result, wgot, taken, returned>>
  BY DEF ControlStep, Read, TakeResult, ReadTimeout, ReadDone, FallbackDone, LoadDisablePipe, LoadDeadline,
         GiveBack, EnterDirect, DirectTimeout, LeaveDirect, WorkerToken, ReaderReplaceable, SetCheck,
         SetLoadInRead, SetDisable, SetStore, SetPipe, SetUpstream, Expire, readerVars
<1>2. Tokens'
  <2>1. CASE \E n \in ReadLens : pc = "idle" /\ pc' = "second" /\ Read(n) /\ result = << >>
    BY <2>1 DEF BytesOK, Tokens, Read, TakeResult
  <2>2. CASE ReadTimeout \/ ReadDone \/ FallbackDone
    <3>1. CASE ReadTimeout
      BY <3>1 DEF BytesOK, Tokens, ReadTimeout, BackToIdle
    <3>2. CASE ReadDone
      BY <3>2 DEF BytesOK, Tokens, ReadDone, GoPipeRead
    <3>3. CASE FallbackDone
      BY <3>3 DEF BytesOK, Tokens, FallbackDone
    <3> QED BY <2>2, <3>1, <3>2, <3>3
  <2>3. CASE LoadDisablePipe \/ LoadDeadline \/ GiveBack
    <3>1. CASE LoadDisablePipe
      BY <3>1 DEF BytesOK, Tokens, LoadDisablePipe
    <3>2. CASE LoadDeadline
      BY <3>2 DEF BytesOK, Tokens, LoadDeadline, GoPipeRead
    <3>3. CASE GiveBack
      BY <3>3 DEF BytesOK, Tokens, GiveBack
    <3> QED BY <2>3, <3>1, <3>2, <3>3
  <2>4. CASE EnterDirect \/ DirectTimeout \/ WorkerToken \/ ReaderReplaceable
    BY <2>4 DEF BytesOK, Tokens, EnterDirect, DirectTimeout, LeaveDirect, BackToIdle, WorkerToken, ReaderReplaceable
  <2>5. CASE (\E t \in Times : SetCheck(t)) \/ SetLoadInRead \/ SetStore
    BY <2>5 DEF BytesOK, Tokens, SetCheck, SetLoadInRead, SetStore
  <2>6. CASE SetDisable
    BY <2>6 DEF BytesOK, Tokens, SetDisable
  <2>7. CASE SetPipe \/ SetUpstream \/ Expire \/ UNCHANGED readerVars
    BY <2>7 DEF BytesOK, Tokens, SetPipe, SetUpstream, Expire, readerVars
  <2> QED BY <2>1, <2>2, <2>3, <2>4, <2>5, <2>6, <2>7 DEF ControlStep
<1> QED BY <1>1, <1>2, NothingMoves

LEMMA ReaderNextInv == ReaderIInv /\ [ReaderNext]_readerVars => ReaderIInv'
<1> SUFFICES ASSUME ReaderIInv, [ReaderNext]_readerVars PROVE ReaderIInv'
  OBVIOUS
<1>1. ControlOK /\ BytesOK /\ ControlOK'
  BY InvParts, ControlInv
<1>2. CASE \E n \in ReadLens : Read(n)
  <2>1. PICK n \in ReadLens : Read(n)
    BY <1>2
  <2>2. CASE TakeResult(n)
    BY <1>1, <2>1, <2>2, TakeInv, InvParts DEF Read
  <2>3. CASE ~TakeResult(n)
    <3>1. pc = "idle" /\ pc' = "second" /\ result = << >>
      BY <2>1, <2>3 DEF Read
    <3> QED BY <1>1, <2>1, <3>1, ControlSteps, InvParts DEF ControlStep
  <2> QED BY <2>2, <2>3
<1>3. CASE ReadResult
  <2>1. plen \in ReadLens \cup {0} /\ TakeResult(plen) /\ pc \in {"idle", "second", "third"}
    BY <1>1, <1>3 DEF ReadResult, ControlOK
  <2> QED BY <1>1, <2>1, TakeInv, InvParts
<1>4. CASE PushBack \/ WorkerSends
  BY <1>1, <1>4, FillInv, InvParts
<1>5. CASE \E n \in 0 .. MaxBytes : DirectRead(n) \/ WorkerReads(n)
  BY <1>1, <1>5, DeliverInv, InvParts
<1>6. CASE ControlStep
  BY <1>1, <1>6, ControlSteps, InvParts
<1> QED
  BY <1>2, <1>3, <1>4, <1>5, <1>6
  DEF ReaderNext, ReadStep, WorkerStep, UpstreamStep, SetStep, ReadBuffer, ReadFrom, ReaderReadPacket, ControlStep

\* The invariant of the reader.
THEOREM ReaderInvariance == ReaderSpec => []ReaderIInv
  BY ReaderInitInv, ReaderNextInv, PTL DEF ReaderSpec

\* Never two goroutines in the upstream's Read, and a reader that may be
\* replaced has nothing left, for reads of any length.
THEOREM ReaderKeepsToken == ReaderSpec => []ReaderInv
<1>1. ReaderIInv => ReaderInv
  <2> SUFFICES ASSUME ReaderIInv PROVE ReaderInv
    OBVIOUS
  <2>1. ReaderTypeOK /\ Tokens /\ DataOK
    BY TypeParts DEF ReaderIInv
  <2>2. OneUpstreamReader
    BY <2>1 DEF Tokens, OneUpstreamReader
  <2>3. ASSUME pc = "replaced", ~disablePipe PROVE Len(returned) = taken
    <3>1. held = << >> /\ Channel = << >> /\ wgot = << >>
      BY <2>1, <2>3 DEF Tokens, Channel
    <3>2. Len(returned) + 0 + 0 + 0 = taken /\ Len(returned) \in Nat
      BY <2>1, <3>1, EmptyRun, LenIsNat DEF ReaderIInv, Complete, DataOK
    <3> QED BY <3>2
  <2>4. ReplaceableIsEmpty
    BY <2>1, <2>3 DEF Tokens, ReplaceableIsEmpty
  <2> QED BY <2>1, <2>2, <2>4 DEF ReaderInv
<1> QED BY <1>1, ReaderInvariance, PTL

\* No byte that was read from upstream is lost, and the plain reader returns
\* them in order, whenever results come late and whatever is put back.
THEOREM NoByteIsLost == ReaderSpec => []BytesInOrder
<1>1. ReaderIInv => BytesInOrder
  <2> SUFFICES ASSUME ReaderIInv PROVE BytesInOrder
    OBVIOUS
  <2>1. DataOK /\ Channel \in Bytes
    BY TypeParts, ChannelIs DEF ReaderIInv, DataOK
  <2>2. InOrder
    BY <2>1, LenIsNat DEF ReaderIInv, Queued, Run, InOrder, DataOK
  <2> DEFINE ch == Channel \o held
             w == ch \o wgot
             all == returned \o w
  <2>3. /\ ch \in Bytes /\ Len(ch) = Len(Channel) + Len(held)
        /\ \A b : Holds(Channel, b) \/ Holds(held, b) => Holds(ch, b)
    BY <2>1, JoinSeq, JoinHolds DEF DataOK
  <2> HIDE DEF ch
  <2>4. /\ w \in Bytes /\ Len(w) = Len(ch) + Len(wgot)
        /\ \A b : Holds(ch, b) \/ Holds(wgot, b) => Holds(w, b)
    BY <2>1, <2>3, JoinSeq, JoinHolds DEF DataOK
  <2> HIDE DEF w
  <2>5. /\ all \in Bytes /\ Len(all) = Len(returned) + Len(w)
        /\ \A b : Holds(returned, b) \/ Holds(w, b) => Holds(all, b)
    BY <2>1, <2>4, JoinSeq, JoinHolds DEF DataOK
  <2> HIDE DEF all
  <2>6. Len(all) = taken
    <3>1. Len(returned) \in Nat /\ Len(held) \in Nat /\ Len(Channel) \in Nat /\ Len(wgot) \in Nat
      BY <2>1, LenIsNat DEF DataOK
    <3> QED BY <2>3, <2>4, <2>5, <3>1 DEF ReaderIInv, Complete
  <2>7. \A b \in 1 .. taken : Holds(all, b)
    BY <2>3, <2>4, <2>5 DEF ReaderIInv, Complete
  <2>8. NoByteLost
    BY <2>6, <2>7 DEF NoByteLost, all, w, ch, Channel, Holds
  <2> QED BY <2>2, <2>8 DEF BytesInOrder
<1> QED BY <1>1, ReaderInvariance, PTL
=============================================================================
