------------------------------ MODULE PipeProofs ------------------------------
(***************************************************************************)
(* pipe.Pipe for any number of goroutines at both ends.                    *)
(*                                                                         *)
(* wrMu lets one Write at a time into the select, so there is at most one  *)
(* meeting under way, and what was copied last is a part of the Write that *)
(* holds the mutex.  Its bytes so far are the number it was told, and the  *)
(* number that is on its way to it.  That a meeting is always followed by  *)
(* its count rests on the buffers that NewBuffer makes: none is full.      *)
(***************************************************************************)
EXTENDS Pipe, SequenceTheorems, FiniteSetTheorems, TLAPS

Bytes == (1 .. MaxCalls) \X (1 .. MaxLen)

\* The operators of Pipe, of any sequence of bytes.
Got(d, c) == {i \in 1 .. Len(d) : d[i][1] = c}
Follows(d, i) ==
  \/ d[i + 1] = <<d[i][1], d[i][2] + 1>>
  \/ d[i + 1][2] = 1 /\ \A j \in 1 .. i : d[j][1] # d[i + 1][1]
Together(d) ==
  /\ d # << >> => d[1][2] = 1
  /\ \A i \in 1 .. Len(d) - 1 : Follows(d, i)
Extended(d, c, n, k) == d \o [i \in 1 .. k |-> <<c, n + i>>]
EndsWith(d, c, n) == n > 0 => d # << >> /\ d[Len(d)] = <<c, n>>

\* Who is in the select of a Write, or past it, holds wrMu.
MutexHeld == \A w \in Writers : wpc[w] \in {"select", "await"} <=> wrMu = w

\* Data and count belong together, and nobody else is between them.
OneMeeting ==
  /\ (\E r \in Readers : rpc[r] = "ack") <=> (\E w \in Writers : wpc[w] = "await")
  /\ \A r, q \in Readers : rpc[r] = "ack" /\ rpc[q] = "ack" => r = q

\* Every Write has a number of its own, and only such bytes were copied.
OwnNumbers ==
  /\ \A w \in Writers : call[w] <= calls /\ (wpc[w] # "idle" => call[w] # 0)
  /\ \A w, v \in Writers : call[w] # 0 /\ call[w] = call[v] => w = v
  /\ \A i \in 1 .. Len(delivered) : delivered[i][1] <= calls

\* n bytes of w's Write were copied, the last of all while it holds wrMu.
Progress(w, n) ==
  /\ n <= wlen[w] /\ Cardinality(Got(delivered, call[w])) = n
  /\ wrMu = w => EndsWith(delivered, call[w], n)
Accounts ==
  \A w \in Writers : call[w] # 0 =>
    /\ wpc[w] = "lock" => wn[w] = 0
    /\ wpc[w] # "await" => Progress(w, wn[w])
    /\ wpc[w] = "await" => \A r \in Readers : rpc[r] = "ack" => Progress(w, wn[w] + rgot[r])

\* No error yet, or all of b, or an error.
ResultIsMeant ==
  \A w \in Writers : call[w] # 0 /\ wres[w] = "ok" /\ wpc[w] = "idle" => wn[w] = wlen[w]

\* A buffer that waitReadBuffer has made has room.
RoomInBuffers ==
  \A r \in Readers : rbuf[r].by = "waitReadBuffer" => rbuf[r].free > 0

PipeIInv ==
  /\ TypeOK /\ MutexHeld /\ OneMeeting /\ OwnNumbers /\ Accounts /\ ResultIsMeant
  /\ RoomInBuffers /\ Together(delivered)

-----------------------------------------------------------------------------
\* NewBuffer leaves room for a byte between the headrooms.
LEMMA NewBufferHasRoom ==
  ASSUME NEW o \in Options
  PROVE  FreeLen(NewBuffer(o)) \in Nat \ {0}
<1>1. /\ o.front \in Nat /\ o.rear \in Nat /\ o.mtu \in Nat
  BY PipeAssumption
<1>2. /\ BufferSize \in Nat /\ IncreasedBufferSize \in Nat /\ MaxPooledBufferSize \in Nat
  BY SizeAssumption
<1>3. WantedSize(o) \in Nat
  BY <1>1, <1>2 DEF WantedSize, Smaller
<1>4. /\ Larger(WantedSize(o), o.front + o.rear + 1) \in Nat
      /\ Larger(WantedSize(o), o.front + o.rear + 1) >= o.front + o.rear + 1
  BY <1>1, <1>3 DEF Larger
<1> QED
  BY <1>1, <1>4 DEF NewBuffer, Reserved, FreeLen

\* What the buffers of a reader may be.
LEMMA BufferType ==
  /\ \A b \in Slices \cup Buffers \cup {NoBuffer} : b.free \in Nat
  /\ \A b \in Slices \cup Buffers : b.by = "waitReadBuffer" => b.free > 0
<1>1. \A b \in Buffers : b.free \in Nat \ {0}
  BY NewBufferHasRoom DEF Buffers
<1>2. \A b \in Slices : b.free \in Nat /\ b.by = "Read"
  BY PipeAssumption DEF Slices
<1>3. NoBuffer.free \in Nat
  BY DEF NoBuffer
<1> QED
  BY <1>1, <1>2, <1>3

\* The positions of a call's bytes can be counted.
LEMMA GotFinite ==
  ASSUME NEW d \in Seq(Bytes), NEW c
  PROVE  IsFiniteSet(Got(d, c)) /\ Cardinality(Got(d, c)) \in Nat
<1>1. Len(d) \in Nat
  BY LenProperties
<1>2. IsFiniteSet(1 .. Len(d))
  BY <1>1, FS_Interval
<1>3. Got(d, c) \in SUBSET (1 .. Len(d))
  BY DEF Got
<1>4. IsFiniteSet(Got(d, c))
  BY <1>2, <1>3, FS_Subset
<1> QED BY <1>4, FS_CardinalityType

\* The bytes that a meeting copies: k more of a Write, n of whose bytes are
\* the last that were copied.
LEMMA RunAppended ==
  ASSUME NEW d \in Seq(Bytes), NEW c \in 1 .. MaxCalls, NEW n \in Nat, NEW k \in Nat, n + k <= MaxLen
  PROVE  LET e == Extended(d, c, n, k)
         IN  /\ e \in Seq(Bytes) /\ Len(e) = Len(d) + k
             /\ \A i \in 1 .. Len(d) : e[i] = d[i]
             /\ \A i \in Len(d) + 1 .. Len(d) + k : e[i] = <<c, n + (i - Len(d))>>
<1> DEFINE run == [i \in 1 .. k |-> <<c, n + i>>]
<1>1. \A i \in 1 .. k : <<c, n + i>> \in Bytes
  BY PipeAssumption DEF Bytes
<1>2. run \in [1 .. k -> Bytes]
  BY <1>1
<1>3. run \in Seq(Bytes) /\ Len(run) = k /\ \A i \in 1 .. k : run[i] = <<c, n + i>>
  BY <1>2
<1> HIDE DEF run
<1>4. Len(d) \in Nat
  BY LenProperties
<1>5. /\ d \o run \in Seq(Bytes) /\ Len(d \o run) = Len(d) + Len(run)
      /\ \A i \in 1 .. Len(d) + Len(run) : (d \o run)[i] = IF i <= Len(d) THEN d[i] ELSE run[i - Len(d)]
  BY <1>3, ConcatProperties
<1> DEFINE e == d \o run
<1> HIDE DEF e
<1>6. /\ e \in Seq(Bytes) /\ Len(e) = Len(d) + k
      /\ \A i \in 1 .. Len(d) : e[i] = d[i]
      /\ \A i \in Len(d) + 1 .. Len(d) + k : e[i] = <<c, n + (i - Len(d))>>
  BY <1>3, <1>4, <1>5 DEF e
<1> QED BY <1>6 DEF e, run, Extended

\* A byte names its call.
LEMMA BytesAre ==
  ASSUME NEW d \in Seq(Bytes), NEW i \in 1 .. Len(d)
  PROVE  d[i][1] \in Nat
<1>1. d[i] \in Bytes
  BY ElementOfSeq, Zenon
<1> QED BY <1>1, PipeAssumption DEF Bytes

\* They keep the order, and count.
LEMMA RunCounts ==
  ASSUME NEW d \in Seq(Bytes), NEW c \in 1 .. MaxCalls, NEW n \in Nat, NEW k \in Nat, n + k <= MaxLen,
         Cardinality(Got(d, c)) = n, EndsWith(d, c, n), Together(d)
  PROVE  LET e == Extended(d, c, n, k) IN
         /\ e \in Seq(Bytes)
         /\ Cardinality(Got(e, c)) = n + k /\ EndsWith(e, c, n + k) /\ Together(e)
         /\ \A x : x # c => Got(e, x) = Got(d, x)
         /\ \A i \in 1 .. Len(e) : e[i][1] = c \/ (i \in 1 .. Len(d) /\ e[i] = d[i])
<1> DEFINE m == Len(d)  e == Extended(d, c, n, k)
<1>1. /\ e \in Seq(Bytes) /\ Len(e) = m + k /\ m \in Nat
      /\ \A i \in 1 .. m : e[i] = d[i]
      /\ \A i \in m + 1 .. m + k : e[i] = <<c, n + (i - m)>>
  <2>1. m \in Nat
    BY LenProperties
  <2>2. /\ e \in Seq(Bytes) /\ Len(e) = m + k
        /\ \A i \in 1 .. m : e[i] = d[i]
        /\ \A i \in m + 1 .. m + k : e[i] = <<c, n + (i - m)>>
    BY RunAppended, ZenonT(40)
  <2> QED BY <2>1, <2>2, Zenon
<1>2. \A i \in m + 1 .. m + k : e[i][1] = c /\ e[i][2] = n + (i - m)
  BY <1>1
<1>3. \A i \in 1 .. Len(e) : i \in 1 .. m \/ i \in m + 1 .. m + k
  BY <1>1
<1>4. d = << >> <=> m = 0
  BY EmptySeq
<1>5. e = << >> <=> Len(e) = 0
  BY <1>1, EmptySeq
<1> HIDE DEF m, e
<1>6. Got(e, c) = Got(d, c) \cup (m + 1 .. m + k)
  BY <1>1, <1>2, <1>3 DEF Got, m
<1>7. Cardinality(Got(e, c)) = n + k
  <2>1. IsFiniteSet(Got(d, c))
    BY GotFinite
  <2>2. /\ IsFiniteSet(m + 1 .. m + k) /\ Cardinality(m + 1 .. m + k) = k
    <3>1. m + 1 \in Int /\ m + k \in Int
      BY <1>1
    <3>2. /\ IsFiniteSet(m + 1 .. m + k)
          /\ Cardinality(m + 1 .. m + k) = IF m + 1 > m + k THEN 0 ELSE (m + k) - (m + 1) + 1
      BY <3>1, FS_Interval
    <3>3. k = IF m + 1 > m + k THEN 0 ELSE (m + k) - (m + 1) + 1
      BY <1>1
    <3> QED BY <3>2, <3>3
  <2>3. Got(d, c) \cap (m + 1 .. m + k) = {}
    BY <1>1 DEF Got, m
  <2>4. Cardinality(Got(e, c)) = Cardinality(Got(d, c)) + Cardinality(m + 1 .. m + k)
                                   - Cardinality(Got(d, c) \cap (m + 1 .. m + k))
    BY <1>6, <2>1, <2>2, FS_Union
  <2>5. Cardinality(Got(d, c) \cap (m + 1 .. m + k)) = 0
    BY <2>3, FS_EmptySet
  <2> QED BY <2>2, <2>4, <2>5
<1>8. \A x : x # c => Got(e, x) = Got(d, x)
  BY <1>1, <1>2, <1>3 DEF Got, m
<1>9. EndsWith(e, c, n + k)
  <2>1. CASE k = 0
    <3>1. e = d
      BY <1>1, <2>1, SeqEqual DEF m
    <3> QED BY <2>1, <3>1
  <2>2. CASE k > 0
    <3>1. m + k \in m + 1 .. m + k /\ (m + k) - m = k
      BY <1>1, <2>2
    <3>2. e[m + k] = <<c, n + k>>
      BY <1>1, <3>1
    <3>3. Len(e) = m + k /\ Len(e) # 0
      BY <1>1, <2>2
    <3>4. e # << >> /\ e[Len(e)] = <<c, n + k>>
      BY <1>5, <3>2, <3>3
    <3> QED BY <3>4 DEF EndsWith
  <2> QED BY <2>1, <2>2
<1>10. n = 0 => \A j \in 1 .. m : d[j][1] # c
  <2>1. n = 0 => Got(d, c) = {}
    BY GotFinite, FS_EmptySet
  <2> QED BY <2>1 DEF Got, m
<1>11. m = 0 => n = 0
  <2>1. m = 0 => Got(d, c) = {}
    BY DEF Got, m
  <2> QED BY <2>1, FS_EmptySet
<1>12. e # << >> => e[1][2] = 1
  <2>1. CASE m = 0
    BY <1>1, <1>2, <1>5, <1>11, <2>1
  <2>2. CASE m > 0
    <3>1. d # << >> /\ 1 \in 1 .. m
      BY <1>1, <1>4, <2>2
    <3>2. e[1] = d[1]
      BY <1>1, <3>1
    <3> QED BY <3>1, <3>2 DEF Together
  <2> QED BY <1>1, <2>1, <2>2
<1>13. ASSUME NEW i \in 1 .. Len(e) - 1 PROVE Follows(e, i)
  <2>0. i \in Nat /\ i + 1 \in Nat /\ i + 1 <= m + k /\ i >= 1
    BY <1>1
  <2>1. CASE i + 1 <= m
    <3>1. i \in 1 .. m - 1 /\ e[i] = d[i] /\ e[i + 1] = d[i + 1] /\ \A j \in 1 .. i : e[j] = d[j]
      <4>1. i \in 1 .. m - 1 /\ i \in 1 .. m /\ i + 1 \in 1 .. m /\ \A j \in 1 .. i : j \in 1 .. m
        BY <1>1, <2>0, <2>1
      <4> QED BY <1>1, <4>1
    <3>2. Follows(d, i)
      BY <3>1 DEF Together, m
    <3> QED BY <3>1, <3>2 DEF Follows
  <2>2. CASE i = m
    <3>1. i + 1 \in m + 1 .. m + k /\ e[i + 1] = <<c, n + 1>>
      BY <1>1, <2>0, <2>2
    <3>2. e[i] = d[m] /\ \A j \in 1 .. i : e[j] = d[j]
      BY <1>1, <2>0, <2>2
    <3>3. CASE n = 0
      <4>1. e[i + 1][2] = 1 /\ e[i + 1][1] = c
        <5>1. e[i + 1][1] = c /\ e[i + 1][2] = n + ((i + 1) - m)
          BY <1>2, <3>1
        <5> QED BY <1>1, <5>1, <3>3, <2>2
      <4>2. \A j \in 1 .. i : e[j][1] # c
        BY <1>10, <3>2, <3>3, <2>2
      <4> QED BY <4>1, <4>2 DEF Follows
    <3>4. CASE n > 0
      <4>1. d[m] = <<c, n>>
        BY <3>4 DEF EndsWith, m
      <4>2. <<e[i][1], e[i][2] + 1>> = <<c, n + 1>>
        <5>1. d[m][1] = c /\ d[m][2] = n
          BY <4>1
        <5> QED BY <3>2, <5>1
      <4> QED BY <3>1, <4>2 DEF Follows
    <3> QED BY <3>3, <3>4
  <2>3. CASE i > m
    <3>1. i \in m + 1 .. m + k /\ i + 1 \in m + 1 .. m + k
      BY <1>1, <2>0, <2>3
    <3>2. e[i] = <<c, n + (i - m)>> /\ e[i + 1] = <<c, n + (i - m) + 1>>
      BY <1>1, <2>0, <3>1
    <3>3. e[i][1] = c /\ e[i][2] = n + (i - m)
      BY <1>2, <3>1
    <3>4. <<e[i][1], e[i][2] + 1>> = <<c, n + (i - m) + 1>>
      BY <3>3
    <3> QED BY <3>2, <3>4 DEF Follows
  <2> QED BY <1>1, <2>0, <2>1, <2>2, <2>3
<1>14. \A i \in 1 .. Len(e) : e[i][1] = c \/ (i \in 1 .. Len(d) /\ e[i] = d[i])
  BY <1>1, <1>2, <1>3 DEF m
<1> QED
  BY <1>1, <1>7, <1>8, <1>9, <1>12, <1>13, <1>14 DEF Together, e

-----------------------------------------------------------------------------
\* TypeOK without the deadlines, and the deadlines.
StateOK ==
  /\ done \in SUBSET Ends
  /\ wrMu \in Writers \cup {Free}
  /\ rpc \in [Readers -> {"idle", "select", "ack"}]
  /\ wpc \in [Writers -> {"idle", "lock", "select", "await"}]
  /\ rbuf \in [Readers -> Slices \cup Buffers \cup {NoBuffer}]
  /\ rgot \in [Readers -> 0 .. MaxLen]
  /\ rgen \in [Readers -> Nat] /\ wgen \in [Writers -> Nat]
  /\ wres \in [Writers -> {"ok", "closed", "timeout"}]
  /\ call \in [Writers -> 0 .. MaxCalls] /\ calls \in 0 .. MaxCalls
  /\ wlen \in [Writers -> 0 .. MaxLen] /\ wn \in [Writers -> 0 .. MaxLen]
  /\ delivered \in Seq(Bytes)
DeadlinesOK == readDeadline!TypeOK /\ writeDeadline!TypeOK

LEMMA TypeParts == (TypeOK <=> StateOK /\ DeadlinesOK) /\ (TypeOK <=> StateOK /\ DeadlinesOK)'
  BY Zenon DEF TypeOK, StateOK, DeadlinesOK, Bytes

LEMMA DeadlinesInv == DeadlinesOK /\ [Next]_vars => DeadlinesOK'
<1> SUFFICES ASSUME DeadlinesOK, [Next]_vars PROVE DeadlinesOK'
  OBVIOUS
<1> USE DEF DeadlinesOK, readDeadline!TypeOK, writeDeadline!TypeOK, rdDeadline, wrDeadline
<1>1. CASE UNCHANGED <<rdDeadline, wrDeadline>>
  BY <1>1
<1>2. CASE SetReadDeadline \/ SetWriteDeadline
  <2>1. rdEpoch' \in {rdEpoch, rdEpoch + 1} /\ wrEpoch' \in {wrEpoch, wrEpoch + 1}
    BY <1>2 DEF SetReadDeadline, SetWriteDeadline, readDeadline!Refresh, readDeadline!SetPast,
              readDeadline!NextEpoch, writeDeadline!Refresh, writeDeadline!SetPast, writeDeadline!NextEpoch
  <2>2. rdExceeded' \in BOOLEAN /\ rdPending' \in BOOLEAN /\ wrExceeded' \in BOOLEAN /\ wrPending' \in BOOLEAN
    BY <1>2, Zenon DEF SetReadDeadline, SetWriteDeadline, readDeadline!Refresh, readDeadline!SetPast,
              writeDeadline!Refresh, writeDeadline!SetPast
  <2> QED BY <2>1, <2>2
<1>3. CASE Expire
  BY <1>3 DEF Expire, readDeadline!Expire, writeDeadline!Expire
<1>4. \/ UNCHANGED <<rdDeadline, wrDeadline>>
      \/ SetReadDeadline \/ SetWriteDeadline \/ Expire
  BY DEF Next, vars, ReadCall, ReadAbort, WriteCall, WriteLock, WriteAbort, Rendezvous, Ack, Close
<1> QED BY <1>1, <1>2, <1>3, <1>4

\* What the proofs below need of the deadlines' epochs.
LEMMA EpochsAreNumbers == DeadlinesOK => rdEpoch \in Nat /\ wrEpoch \in Nat
  BY DEF DeadlinesOK, readDeadline!TypeOK, writeDeadline!TypeOK

LEMMA PipeInitInv == Init => PipeIInv
<1> SUFFICES ASSUME Init PROVE PipeIInv
  OBVIOUS
<1>1. DeadlinesOK
  BY DEF Init, DeadlinesOK, readDeadline!Init, writeDeadline!Init, readDeadline!TypeOK, writeDeadline!TypeOK
<1>2. delivered = << >> /\ delivered \in Seq(Bytes) /\ Len(delivered) = 0 /\ 1 .. 0 = {} /\ 1 .. 0 - 1 = {}
  BY DEF Init
<1>3. StateOK
  BY <1>2, PipeAssumption DEF Init, StateOK, Ends, NoBuffer
<1>4. MutexHeld /\ OneMeeting /\ Accounts /\ ResultIsMeant
  BY PipeAssumption DEF Init, MutexHeld, OneMeeting, Accounts, ResultIsMeant
<1>5. OwnNumbers /\ RoomInBuffers /\ Together(delivered)
  BY <1>2 DEF Init, OwnNumbers, RoomInBuffers, NoBuffer, Together
<1> QED BY <1>1, <1>3, <1>4, <1>5, TypeParts DEF PipeIInv

\* A reader enters its select, or leaves it with an error.
LEMMA ReaderInv ==
  ASSUME PipeIInv, NEW r \in Readers,
         (\E b \in Slices \cup Buffers : ReadCall(r, b)) \/ ReadAbort(r)
  PROVE  StateOK' /\ (DeadlinesOK' => PipeIInv')
<1>1. StateOK /\ DeadlinesOK
  BY TypeParts DEF PipeIInv
<1>2. rdEpoch \in Nat
  BY <1>1, EpochsAreNumbers
<1>3. /\ UNCHANGED <<done, wrMu, wpc, wgen, wres, call, wlen, wn, calls, delivered>>
      /\ rpc[r] # "ack" /\ \E p \in {"idle", "select"} : rpc' = [rpc EXCEPT ![r] = p]
      /\ \E b \in Slices \cup Buffers \cup {NoBuffer} : rbuf' = [rbuf EXCEPT ![r] = b]
      /\ rgot' = rgot \/ rgot' = [rgot EXCEPT ![r] = 0]
      /\ \E e \in Nat : rgen' = [rgen EXCEPT ![r] = e]
  <2>1. CASE ReadAbort(r)
    BY <2>1 DEF ReadAbort, ReadReturns, writeVars
  <2>2. CASE \E b \in Slices \cup Buffers : ReadCall(r, b)
    BY <2>2, <1>2 DEF ReadCall, writeVars
  <2> QED BY <2>1, <2>2
<1>4. StateOK'
  <2>1. 0 \in 0 .. MaxLen
    BY PipeAssumption
  <2>2. /\ rpc' \in [Readers -> {"idle", "select", "ack"}] /\ rgen' \in [Readers -> Nat]
    BY <1>1, <1>3 DEF StateOK
  <2>3. rbuf' \in [Readers -> Slices \cup Buffers \cup {NoBuffer}]
    BY <1>1, <1>3, Zenon DEF StateOK
  <2>4. rgot' \in [Readers -> 0 .. MaxLen]
    BY <1>1, <1>3, <2>1 DEF StateOK
  <2> QED BY <1>1, <1>3, <2>2, <2>3, <2>4 DEF StateOK
<1>5. \A q \in Readers : /\ rpc'[q] = "ack" <=> rpc[q] = "ack"
                         /\ rpc[q] = "ack" => rgot'[q] = rgot[q]
  BY <1>1, <1>3 DEF StateOK
<1>6. MutexHeld' /\ OneMeeting' /\ OwnNumbers' /\ ResultIsMeant' /\ Together(delivered)'
  BY <1>3, <1>5 DEF PipeIInv, MutexHeld, OneMeeting, OwnNumbers, ResultIsMeant
<1>7. Accounts'
  BY <1>3, <1>5 DEF PipeIInv, Accounts, Progress
<1>8. RoomInBuffers'
  BY <1>1, <1>3, BufferType DEF PipeIInv, RoomInBuffers, StateOK, NoBuffer
<1> QED BY <1>4, <1>6, <1>7, <1>8, TypeParts DEF PipeIInv

\* A Write begins: it has a number of its own.
LEMMA WriteCallInv ==
  ASSUME PipeIInv, NEW w \in Writers, NEW n \in 0 .. MaxLen, WriteCall(w, n)
  PROVE  StateOK' /\ (DeadlinesOK' => PipeIInv')
<1>1. StateOK
  BY TypeParts DEF PipeIInv
<1>2. calls \in 0 .. MaxCalls /\ calls + 1 \in 1 .. MaxCalls /\ calls + 1 # 0 /\ calls' = calls + 1
  BY <1>1, PipeAssumption DEF StateOK, WriteCall
<1>3. /\ UNCHANGED <<done, wrMu, wgen, rpc, rbuf, rgot, rgen, delivered>>
      /\ wpc[w] = "idle"
      /\ call' = [call EXCEPT ![w] = calls + 1] /\ wlen' = [wlen EXCEPT ![w] = n]
      /\ wn' = [wn EXCEPT ![w] = 0] /\ wres' = [wres EXCEPT ![w] = "ok"]
      /\ wpc' = [wpc EXCEPT ![w] = "lock"]
  BY DEF WriteCall, readVars
<1>4. StateOK'
  <2>1. call' \in [Writers -> 0 .. MaxCalls] /\ calls' \in 0 .. MaxCalls
    BY <1>1, <1>2, <1>3 DEF StateOK
  <2>2. wlen' \in [Writers -> 0 .. MaxLen] /\ wn' \in [Writers -> 0 .. MaxLen]
    BY <1>1, <1>3, PipeAssumption DEF StateOK
  <2>3. /\ wres' \in [Writers -> {"ok", "closed", "timeout"}]
        /\ wpc' \in [Writers -> {"idle", "lock", "select", "await"}]
    BY <1>1, <1>3 DEF StateOK
  <2> QED BY <1>1, <1>3, <2>1, <2>2, <2>3 DEF StateOK
<1>5. \A v \in Writers : /\ v # w => /\ wpc'[v] = wpc[v] /\ call'[v] = call[v] /\ wlen'[v] = wlen[v]
                                     /\ wn'[v] = wn[v] /\ wres'[v] = wres[v]
                         /\ call[v] \in Nat /\ call[v] <= calls /\ call[v] # calls + 1
  BY <1>1, <1>2, <1>3 DEF StateOK, PipeIInv, OwnNumbers
<1>6. /\ wpc'[w] = "lock" /\ call'[w] = calls + 1 /\ wlen'[w] = n /\ wn'[w] = 0 /\ wres'[w] = "ok"
  BY <1>1, <1>3 DEF StateOK
<1>7. MutexHeld' /\ OneMeeting' /\ ResultIsMeant' /\ RoomInBuffers' /\ Together(delivered)'
  BY <1>3, <1>5, <1>6 DEF PipeIInv, MutexHeld, OneMeeting, ResultIsMeant, RoomInBuffers
<1>8. OwnNumbers'
  <2>1. \A i \in 1 .. Len(delivered) : delivered[i][1] <= calls + 1
    <3>1. \A i \in 1 .. Len(delivered) : delivered[i][1] \in Nat
      BY <1>1, BytesAre DEF StateOK
    <3> QED BY <1>2, <3>1 DEF PipeIInv, OwnNumbers
  <2>2. \A v \in Writers : call'[v] <= calls + 1 /\ (wpc'[v] # "idle" => call'[v] # 0)
    BY <1>2, <1>5, <1>6 DEF PipeIInv, OwnNumbers
  <2>3. \A v, u \in Writers : call'[v] # 0 /\ call'[v] = call'[u] => v = u
    BY <1>2, <1>5, <1>6 DEF PipeIInv, OwnNumbers
  <2> QED BY <1>2, <1>3, <2>1, <2>2, <2>3 DEF OwnNumbers
<1>9. Accounts'
  <2>1. Got(delivered, calls + 1) = {}
    <3>1. \A i \in 1 .. Len(delivered) : delivered[i][1] \in Nat
      BY <1>1, BytesAre DEF StateOK
    <3>2. \A i \in 1 .. Len(delivered) : delivered[i][1] # calls + 1
      BY <1>2, <3>1 DEF PipeIInv, OwnNumbers
    <3> QED BY <3>2 DEF Got
  <2>2. Cardinality(Got(delivered, calls + 1)) = 0
    BY <2>1, FS_EmptySet
  <2>3. Progress(w, wn[w])'
    BY <1>3, <1>6, <2>2 DEF Progress, EndsWith
  <2>4. ASSUME NEW v \in Writers, v # w, NEW k PROVE Progress(v, k) => Progress(v, k)'
    BY <1>3, <1>5, <2>4 DEF Progress
  <2>5. \A v \in Writers : v # w => \A k : Progress(v, k) => Progress(v, k)'
    BY <2>4
  <2> QED BY <1>3, <1>5, <1>6, <2>3, <2>5 DEF PipeIInv, Accounts
<1> QED BY <1>4, <1>7, <1>8, <1>9, TypeParts DEF PipeIInv

\* A Write takes the mutex and its first select.
LEMMA WriteLockInv ==
  ASSUME PipeIInv, NEW w \in Writers, WriteLock(w)
  PROVE  StateOK' /\ (DeadlinesOK' => PipeIInv')
<1>1. StateOK /\ wrEpoch \in Nat
  BY TypeParts, EpochsAreNumbers DEF PipeIInv
<1>2. /\ UNCHANGED <<done, rpc, rbuf, rgot, rgen, wres, call, wlen, wn, calls, delivered>>
      /\ wpc[w] = "lock" /\ wrMu = Free /\ wrMu' = w
      /\ wpc' = [wpc EXCEPT ![w] = "select"] /\ wgen' = [wgen EXCEPT ![w] = wrEpoch]
  BY DEF WriteLock, readVars
<1>3. StateOK'
  BY <1>1, <1>2 DEF StateOK
<1>4. /\ wpc'[w] = "select" /\ w # Free
      /\ \A v \in Writers : v # w => wpc'[v] = wpc[v] /\ wpc[v] \notin {"select", "await"}
  BY <1>1, <1>2, PipeAssumption DEF StateOK, PipeIInv, MutexHeld
<1>5. MutexHeld' /\ OneMeeting' /\ OwnNumbers' /\ ResultIsMeant' /\ RoomInBuffers' /\ Together(delivered)'
  BY <1>2, <1>4 DEF PipeIInv, MutexHeld, OneMeeting, OwnNumbers, ResultIsMeant, RoomInBuffers
<1>6. Accounts'
  <2>1. call[w] # 0 /\ wn[w] = 0 /\ Progress(w, wn[w])
    BY <1>2 DEF PipeIInv, Accounts, OwnNumbers
  <2>2. Progress(w, wn[w])'
    BY <1>2, <2>1 DEF Progress, EndsWith
  <2>3. \A v \in Writers : v # w => (Progress(v, wn[v]) => Progress(v, wn[v])')
    BY <1>2 DEF Progress
  <2> QED BY <1>2, <1>4, <2>2, <2>3 DEF PipeIInv, Accounts
<1> QED BY <1>3, <1>5, <1>6, TypeParts DEF PipeIInv

\* The select of a Write ends with an error.
LEMMA WriteAbortInv ==
  ASSUME PipeIInv, NEW w \in Writers, WriteAbort(w)
  PROVE  StateOK' /\ (DeadlinesOK' => PipeIInv')
<1>1. StateOK
  BY TypeParts DEF PipeIInv
<1>2. /\ UNCHANGED <<done, rpc, rbuf, rgot, rgen, call, wlen, wn, calls, delivered>>
      /\ wpc[w] = "select" /\ wrMu' = Free
      /\ wpc' = [wpc EXCEPT ![w] = "idle"] /\ wgen' = [wgen EXCEPT ![w] = 0]
      /\ \E e \in {"closed", "timeout"} : wres' = [wres EXCEPT ![w] = e]
  BY DEF WriteAbort, Errors, readVars
<1>3. StateOK'
  BY <1>1, <1>2 DEF StateOK
<1>4. /\ wpc'[w] = "idle" /\ wres'[w] # "ok" /\ wrMu = w
      /\ \A v \in Writers : /\ v # Free
                            /\ v # w => wpc'[v] = wpc[v] /\ wpc[v] \notin {"select", "await"} /\ wres'[v] = wres[v]
  BY <1>1, <1>2, PipeAssumption DEF StateOK, PipeIInv, MutexHeld
<1>5. MutexHeld' /\ OneMeeting' /\ OwnNumbers' /\ ResultIsMeant' /\ RoomInBuffers' /\ Together(delivered)'
  BY <1>2, <1>4 DEF PipeIInv, MutexHeld, OneMeeting, OwnNumbers, ResultIsMeant, RoomInBuffers
<1>6. Accounts'
  <2>1. \A v \in Writers : Progress(v, wn[v]) => Progress(v, wn[v])'
    BY <1>2, <1>4 DEF Progress
  <2> QED BY <1>2, <1>4, <2>1 DEF PipeIInv, Accounts
<1> QED BY <1>3, <1>5, <1>6, TypeParts DEF PipeIInv

\* What is copied fits, and is no more than what is left of b.
LEMMA CopiedFits ==
  ASSUME StateOK, NEW r \in Readers, NEW w \in Writers, wn[w] <= wlen[w]
  PROVE  Copied(r, w) \in Nat /\ wn[w] + Copied(r, w) <= wlen[w] /\ Copied(r, w) \in 0 .. MaxLen
<1>1. wlen[w] \in 0 .. MaxLen /\ wn[w] \in 0 .. MaxLen /\ rbuf[r] \in Slices \cup Buffers \cup {NoBuffer}
  BY DEF StateOK
<1>2. rbuf[r].free \in Nat
  BY <1>1, BufferType
<1> QED BY <1>1, <1>2, PipeAssumption DEF Copied

\* Reader and Write meet on the data channel.
LEMMA RendezvousInv ==
  ASSUME PipeIInv, NEW r \in Readers, NEW w \in Writers, Rendezvous(r, w)
  PROVE  StateOK' /\ (DeadlinesOK' => PipeIInv')
<1> DEFINE c == call[w]  n == wn[w]  k == Copied(r, w)
<1>1. StateOK
  BY TypeParts DEF PipeIInv
<1>2. rpc[r] = "select" /\ wpc[w] = "select" /\ wrMu = w
  BY DEF Rendezvous, PipeIInv, MutexHeld
<1>3. \A v \in Writers : v # w => wpc[v] \notin {"select", "await"} /\ wrMu # v
  BY <1>2 DEF PipeIInv, MutexHeld
<1>4. \A q \in Readers : rpc[q] # "ack"
  BY <1>2, <1>3 DEF PipeIInv, OneMeeting
<1>5. /\ c # 0 /\ n <= wlen[w] /\ Cardinality(Got(delivered, c)) = n
      /\ EndsWith(delivered, c, n) /\ Together(delivered)
  BY <1>2 DEF PipeIInv, OwnNumbers, Accounts, Progress
<1>6. /\ c \in 1 .. MaxCalls /\ n \in Nat /\ delivered \in Seq(Bytes)
      /\ wlen[w] \in 0 .. MaxLen /\ MaxLen \in Nat
  BY <1>1, <1>5, PipeAssumption DEF StateOK
<1>7. k \in Nat /\ n + k <= wlen[w] /\ k \in 0 .. MaxLen /\ n + k <= MaxLen
  BY <1>1, <1>5, <1>6, CopiedFits
<1>8. ~ShortBuffer(r, w)
  BY <1>6 DEF ShortBuffer, PipeIInv, RoomInBuffers
<1>9. /\ UNCHANGED <<done, wrMu, wgen, wres, call, wlen, wn, calls, rbuf, rgen>>
      /\ delivered' = Extended(delivered, c, n, k)
      /\ rgot' = [rgot EXCEPT ![r] = k] /\ rpc' = [rpc EXCEPT ![r] = "ack"]
      /\ wpc' = [wpc EXCEPT ![w] = "await"]
  BY <1>8 DEF Rendezvous, Extended
<1> HIDE DEF c, n, k
<1>10. /\ delivered' \in Seq(Bytes)
       /\ Cardinality(Got(delivered', c)) = n + k /\ EndsWith(delivered', c, n + k) /\ Together(delivered')
       /\ \A x : x # c => Got(delivered', x) = Got(delivered, x)
       /\ \A i \in 1 .. Len(delivered') : delivered'[i][1] = c \/ (i \in 1 .. Len(delivered) /\ delivered'[i] = delivered[i])
  BY <1>5, <1>6, <1>7, <1>9, RunCounts
<1>11. StateOK'
  BY <1>1, <1>7, <1>9, <1>10 DEF StateOK
<1>12. /\ \A v \in Writers : v # w => wpc'[v] = wpc[v]
       /\ wpc'[w] = "await" /\ rpc'[r] = "ack" /\ rgot'[r] = k
       /\ \A q \in Readers : rpc'[q] = "ack" <=> q = r
  BY <1>1, <1>4, <1>9 DEF StateOK
<1>13. MutexHeld' /\ OneMeeting' /\ ResultIsMeant' /\ RoomInBuffers' /\ Together(delivered)'
  BY <1>2, <1>9, <1>10, <1>12 DEF PipeIInv, MutexHeld, OneMeeting, ResultIsMeant, RoomInBuffers
<1>14. OwnNumbers'
  <2>1. \A i \in 1 .. Len(delivered') : delivered'[i][1] <= calls
    BY <1>10 DEF PipeIInv, OwnNumbers, c
  <2> QED BY <1>2, <1>9, <1>12, <2>1 DEF PipeIInv, OwnNumbers
<1>15. Accounts'
  <2>1. Progress(w, wn[w] + rgot[r])'
    BY <1>7, <1>9, <1>10, <1>12 DEF Progress, c, n
  <2>2. \A v \in Writers : v # w /\ call[v] # 0 => (Progress(v, wn[v]) => Progress(v, wn[v])')
    <3>1. \A v \in Writers : v # w /\ call[v] # 0 => call[v] # c
      BY DEF PipeIInv, OwnNumbers, c
    <3> QED BY <1>3, <1>9, <1>10, <3>1 DEF Progress
  <2> QED BY <1>3, <1>9, <1>12, <2>1, <2>2 DEF PipeIInv, Accounts
<1> QED BY <1>11, <1>13, <1>14, <1>15, TypeParts DEF PipeIInv

\* The count reaches the Write that it is about.
LEMMA AckInv ==
  ASSUME PipeIInv, NEW r \in Readers, NEW w \in Writers, Ack(r, w)
  PROVE  StateOK' /\ (DeadlinesOK' => PipeIInv')
<1> DEFINE n == wn[w] + rgot[r]
<1>1. StateOK /\ wrEpoch \in Nat
  BY TypeParts, EpochsAreNumbers DEF PipeIInv
<1>2. rpc[r] = "ack" /\ wpc[w] = "await" /\ wrMu = w
  BY DEF Ack, PipeIInv, MutexHeld
<1>3. \A v \in Writers : v # Free /\ (v # w => wpc[v] \notin {"select", "await"} /\ wrMu # v)
  BY <1>2, PipeAssumption DEF PipeIInv, MutexHeld
<1>4. \A q \in Readers : q # r => rpc[q] # "ack"
  BY <1>2 DEF PipeIInv, OneMeeting
<1>5. call[w] # 0 /\ Progress(w, n)
  BY <1>2 DEF PipeIInv, OwnNumbers, Accounts
<1>6. n \in 0 .. MaxLen
  <2>1. wn[w] \in 0 .. MaxLen /\ rgot[r] \in 0 .. MaxLen /\ wlen[w] \in 0 .. MaxLen
    BY <1>1 DEF StateOK
  <2>2. n <= wlen[w]
    BY <1>5 DEF Progress
  <2> QED BY <2>1, <2>2, PipeAssumption
<1>7. /\ UNCHANGED <<done, wres, call, wlen, calls, delivered>>
      /\ rpc' = [rpc EXCEPT ![r] = "idle"] /\ rbuf' = [rbuf EXCEPT ![r] = NoBuffer]
      /\ rgot' = [rgot EXCEPT ![r] = 0] /\ rgen' = [rgen EXCEPT ![r] = 0]
      /\ wn' = [wn EXCEPT ![w] = n]
      /\ \/ n = wlen[w] /\ wpc' = [wpc EXCEPT ![w] = "idle"] /\ wrMu' = Free /\ wgen' = [wgen EXCEPT ![w] = 0]
         \/ wpc' = [wpc EXCEPT ![w] = "select"] /\ wgen' = [wgen EXCEPT ![w] = wrEpoch] /\ wrMu' = wrMu
  BY DEF Ack, ReadReturns
<1> HIDE DEF n
<1>8. StateOK'
  <2>1. 0 \in 0 .. MaxLen
    BY PipeAssumption
  <2>2. /\ rpc' \in [Readers -> {"idle", "select", "ack"}] /\ rgen' \in [Readers -> Nat]
        /\ rgot' \in [Readers -> 0 .. MaxLen] /\ wn' \in [Writers -> 0 .. MaxLen]
    BY <1>1, <1>6, <1>7, <2>1 DEF StateOK
  <2>3. rbuf' \in [Readers -> Slices \cup Buffers \cup {NoBuffer}]
    BY <1>1, <1>7, Zenon DEF StateOK
  <2>4. /\ wpc' \in [Writers -> {"idle", "lock", "select", "await"}] /\ wgen' \in [Writers -> Nat]
        /\ wrMu' \in Writers \cup {Free}
    <3>1. \E p \in {"idle", "select"} : wpc' = [wpc EXCEPT ![w] = p]
      BY <1>7
    <3>2. \E e \in Nat : wgen' = [wgen EXCEPT ![w] = e]
      BY <1>1, <1>7
    <3>3. wrMu' \in {wrMu, Free}
      BY <1>7
    <3> QED BY <1>1, <3>1, <3>2, <3>3 DEF StateOK
  <2> QED BY <1>1, <1>7, <2>2, <2>3, <2>4 DEF StateOK
<1>9. /\ \A v \in Writers : v # w => wpc'[v] = wpc[v] /\ wn'[v] = wn[v]
      /\ wn'[w] = n /\ wpc'[w] \in {"idle", "select"} /\ (wpc'[w] = "idle" => n = wlen[w])
      /\ wpc'[w] = "select" <=> wrMu' = w
      /\ wrMu' \in {w, Free}
      /\ \A q \in Readers : rpc'[q] # "ack"
  BY <1>1, <1>2, <1>3, <1>4, <1>7 DEF StateOK
<1>10. MutexHeld' /\ OneMeeting' /\ OwnNumbers' /\ ResultIsMeant' /\ Together(delivered)'
  BY <1>2, <1>3, <1>5, <1>7, <1>9 DEF PipeIInv, MutexHeld, OneMeeting, OwnNumbers, ResultIsMeant
<1>11. RoomInBuffers'
  BY <1>1, <1>7 DEF PipeIInv, RoomInBuffers, NoBuffer, StateOK
<1>12. Accounts'
  <2>1. Progress(w, wn[w])'
    BY <1>2, <1>5, <1>7, <1>9 DEF Progress
  <2>2. \A v \in Writers : v # w => (Progress(v, wn[v]) => Progress(v, wn[v])')
    BY <1>3, <1>7, <1>9 DEF Progress
  <2> QED BY <1>3, <1>7, <1>9, <2>1, <2>2 DEF PipeIInv, Accounts
<1> QED BY <1>8, <1>10, <1>11, <1>12, TypeParts DEF PipeIInv

\* Close, the deadlines, and the steps of others.
LEMMA OthersInv ==
  ASSUME PipeIInv, UNCHANGED <<readVars, writeVars, delivered>>, done' \in SUBSET Ends
  PROVE  StateOK' /\ (DeadlinesOK' => PipeIInv')
<1>1. UNCHANGED <<wrMu, rpc, wpc, rbuf, rgot, rgen, wgen, wres, call, wlen, wn, calls, delivered>>
  BY DEF readVars, writeVars
<1>2. StateOK'
  BY <1>1, TypeParts DEF PipeIInv, StateOK
<1>3. MutexHeld' /\ OneMeeting' /\ OwnNumbers' /\ ResultIsMeant' /\ RoomInBuffers' /\ Together(delivered)'
  BY <1>1 DEF PipeIInv, MutexHeld, OneMeeting, OwnNumbers, ResultIsMeant, RoomInBuffers
<1>4. Accounts'
  BY <1>1 DEF PipeIInv, Accounts, Progress
<1> QED BY <1>2, <1>3, <1>4, TypeParts DEF PipeIInv

\* The invariant of the pipe, under every step of every goroutine.
LEMMA PipeNextInv == PipeIInv /\ [Next]_vars => PipeIInv'
<1> SUFFICES ASSUME PipeIInv, [Next]_vars PROVE PipeIInv'
  OBVIOUS
<1>1. DeadlinesOK'
  BY DeadlinesInv, TypeParts DEF PipeIInv
<1>2. CASE \E r \in Readers : (\E b \in Slices \cup Buffers : ReadCall(r, b)) \/ ReadAbort(r)
  BY <1>1, <1>2, ReaderInv
<1>3. CASE \E w \in Writers : (\E n \in 0 .. MaxLen : WriteCall(w, n)) \/ WriteLock(w) \/ WriteAbort(w)
  BY <1>1, <1>3, WriteCallInv, WriteLockInv, WriteAbortInv
<1>4. CASE \E r \in Readers, w \in Writers : Rendezvous(r, w) \/ Ack(r, w)
  BY <1>1, <1>4, RendezvousInv, AckInv
<1>5. CASE \/ \E e \in Ends : Close(e)
           \/ SetReadDeadline \/ SetWriteDeadline \/ Expire \/ UNCHANGED vars
  <2>1. UNCHANGED <<readVars, writeVars, delivered>>
    BY <1>5 DEF Close, SetReadDeadline, SetWriteDeadline, Expire, vars
  <2>2. done' \in SUBSET Ends
    BY <1>5, TypeParts DEF PipeIInv, StateOK, Close, SetReadDeadline, SetWriteDeadline, Expire, vars
  <2> QED BY <1>1, <2>1, <2>2, OthersInv
<1> QED BY <1>2, <1>3, <1>4, <1>5 DEF Next

THEOREM PipeInvariance == Spec => []PipeIInv
  BY PipeInitInv, PipeNextInv, PTL DEF Spec

-----------------------------------------------------------------------------
\* A set with one member, or none.
LEMMA MeetingCounts ==
  ASSUME PipeIInv
  PROVE  Cardinality(Reporting) = Cardinality(Awaiting)
<1>1. CASE \E r \in Readers : rpc[r] = "ack"
  <2>1. PICK r \in Readers, w \in Writers : rpc[r] = "ack" /\ wpc[w] = "await"
    BY <1>1 DEF PipeIInv, OneMeeting
  <2>2. Reporting = {r} /\ Awaiting = {w}
    BY <2>1 DEF PipeIInv, OneMeeting, MutexHeld, Reporting, Awaiting
  <2> QED BY <2>2, FS_Singleton
<1>2. CASE ~ \E r \in Readers : rpc[r] = "ack"
  <2>1. Reporting = {} /\ Awaiting = {}
    BY <1>2 DEF PipeIInv, OneMeeting, Reporting, Awaiting
  <2> QED BY <2>1
<1> QED BY <1>1, <1>2

\* For any number of goroutines at both ends, and any buffers: the count of
\* a meeting goes to the Write that was in it, and no Write waits for one
\* that nobody sends.
THEOREM CountsMeetTheirWrites == Spec => []PipeInv
<1>1. PipeIInv => PipeInv
  <2> SUFFICES ASSUME PipeIInv PROVE PipeInv
    OBVIOUS
  <2>1. Cardinality(Reporting) = Cardinality(Awaiting)
    BY MeetingCounts
  <2>2. ASSUME NEW w \in Awaiting
        PROVE  wrMu = w /\ \A r \in Reporting : Cardinality(Received(call[w])) = wn[w] + rgot[r]
    <3>1. w \in Writers /\ wpc[w] = "await" /\ call[w] # 0
      BY DEF Awaiting, PipeIInv, OwnNumbers
    <3>2. wrMu = w
      BY <3>1 DEF PipeIInv, MutexHeld
    <3>3. \A r \in Reporting : Progress(w, wn[w] + rgot[r])
      BY <3>1 DEF PipeIInv, Accounts, Reporting
    <3> QED BY <3>2, <3>3 DEF Progress, Got, Received
  <2> QED BY <2>1, <2>2 DEF PipeInv, PipeIInv, AckMeetsItsWrite
<1> QED BY <1>1, PipeInvariance, PTL

\* The bytes of one Write arrive together and in order, whoever reads and
\* writes besides, and a Write that returns reports exactly what arrived.
THEOREM WritesArriveTogether == Spec => []WritesAgree
<1>1. PipeIInv => WritesAgree
  <2> SUFFICES ASSUME PipeIInv PROVE WritesAgree
    OBVIOUS
  <2>1. WrittenTogether
    BY DEF PipeIInv, Together, Follows, WrittenTogether
  <2>2. WriteReportsDelivery
    BY DEF PipeIInv, Accounts, Progress, ResultIsMeant, WriteReportsDelivery, Got, Received
  <2> QED BY <2>1, <2>2 DEF WritesAgree
<1> QED BY <1>1, PipeInvariance, PTL
=============================================================================
