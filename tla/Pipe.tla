--------------------------------- MODULE Pipe ---------------------------------
(***************************************************************************)
(* pipe.Pipe (src/common/pipe/pipe.go, pipe_wait.go), one direction of it: *)
(* goroutines that Write at one end, goroutines that Read, or wait for a   *)
(* buffer, at the other, and both ends' Close and deadlines.  The other    *)
(* direction is the same code with channels of its own; the two share only *)
(* the two done channels.                                                  *)
(*                                                                         *)
(* A select of the reader and one of the writer meet on the unbuffered     *)
(* data channel; the reader copies, and then hands the count back on a     *)
(* second channel, where neither side listens to Close any more.           *)
(*                                                                         *)
(* A deadline is the one of AbstractDeadline: a select that took its       *)
(* channel in epoch e is woken once e is exceeded or over.                 *)
(***************************************************************************)
EXTENDS Naturals, Sequences, FiniteSets

CONSTANTS Readers,    \* goroutines that read
          Writers,    \* goroutines that write
          Options,    \* the ReadWaitOptions a reader may have been given
          SliceLens,  \* bound: lengths of the slices that Read is given
          MaxLen,     \* bound: bytes of one Write
          MaxCalls,   \* bound: calls of Write that pass the first checks
          MaxEpoch,   \* bound: epochs of the two deadlines
          Free,       \* wrMu is not held
          BufferSize,            \* buf.BufferSize
          IncreasedBufferSize,   \* 65535, the size without an MTU
          MaxPooledBufferSize    \* buf.MaxPooledBufferSize

ASSUME PipeAssumption ==
  /\ Free \notin Writers
  /\ MaxLen \in Nat /\ MaxCalls \in Nat /\ MaxEpoch \in Nat
  /\ SliceLens \subseteq Nat
  /\ Options \subseteq [front : Nat, rear : Nat, mtu : Nat, increase : BOOLEAN]

ASSUME SizeAssumption ==
  {BufferSize, IncreasedBufferSize, MaxPooledBufferSize} \subseteq Nat \ {0}

-----------------------------------------------------------------------------
(* The sizes of the buffers that ReadWaitOptions makes                     *)
(* (src/common/network/direct.go), as windows of a slice of raw bytes      *)
(* (src/common/buf/buffer.go): data lies in start .. end - 1, and may grow *)
(* up to capacity.                                                         *)

Smaller(a, b) == IF a < b THEN a ELSE b
Larger(a, b) == IF a < b THEN b ELSE a

\* FrontHeadroom, RearHeadroom, MTU and IncreaseBuffer.
OptionsUpTo(n) ==
  [front : 0 .. n, rear : 0 .. n, mtu : 0 .. n, increase : BOOLEAN]

FreeLen(b) == b.capacity - b.end

\* The size NewBuffer starts from.
WantedSize(o) ==
  LET mtuBufferSize == o.mtu + o.front + o.rear
  IN IF o.increase
     THEN Smaller(IF o.mtu > 0 THEN mtuBufferSize ELSE IncreasedBufferSize,
                  MaxPooledBufferSize)
     ELSE IF o.mtu > 0 THEN Smaller(mtuBufferSize, BufferSize) ELSE BufferSize

\* NewSize(size), Resize(front, 0), Reserve(rear).
Reserved(o, size) ==
  [start |-> o.front, end |-> o.front, capacity |-> size - o.rear, raw |-> size]

\* Mutation: the headrooms may use up the whole buffer.
NewBufferNoMinimum(o) ==
  Reserved(o, Larger(WantedSize(o), o.front + o.rear))

NewBuffer(o) ==
  Reserved(o, Larger(WantedSize(o), o.front + o.rear + 1))

-----------------------------------------------------------------------------
VARIABLES done,        \* the ends whose localDone is closed
          wrMu,        \* the Write that holds wrMu, or Free
          rpc, wpc,    \* where each reader and each writer is
          rbuf,        \* the reader's buffer: how it was made, its free bytes
          rgot,        \* what the reader is about to report on rdTx
          rgen, wgen,  \* the deadline epoch a select is listening to
          wres,        \* the error of the last return, "ok" when nil
          call,        \* the number of the writer's current or last Write
          wlen, wn,    \* its length, and n: what was reported as read
          calls,       \* how many calls of Write were made
          delivered,   \* history: <<call, index>> of the bytes copied, in order
          rdEpoch, rdExceeded, rdPending,   \* the reading end's readDeadline
          wrEpoch, wrExceeded, wrPending    \* the writing end's writeDeadline

readVars == <<rpc, rbuf, rgot, rgen>>
writeVars == <<wrMu, wpc, wgen, wres, call, wlen, wn, calls>>
rdDeadline == <<rdEpoch, rdExceeded, rdPending>>
wrDeadline == <<wrEpoch, wrExceeded, wrPending>>
vars == <<done, readVars, writeVars, delivered, rdDeadline, wrDeadline>>

readDeadline ==
  INSTANCE AbstractDeadline
    WITH epoch <- rdEpoch, exceeded <- rdExceeded, pending <- rdPending
writeDeadline ==
  INSTANCE AbstractDeadline
    WITH epoch <- wrEpoch, exceeded <- wrExceeded, pending <- wrPending

Ends == {"reading", "writing"}

\* What a reader reads into: the slice given to Read, or the buffer that
\* waitReadBuffer makes from the options.
Slices == [by : {"Read"}, free : SliceLens]
Buffers == [by : {"waitReadBuffer"}, free : {FreeLen(NewBuffer(o)) : o \in Options}]
NoBuffer == [by |-> "Read", free |-> 0]

TypeOK ==
  /\ done \in SUBSET Ends
  /\ wrMu \in Writers \cup {Free}
  /\ rpc \in [Readers -> {"idle", "select", "ack"}]
  /\ wpc \in [Writers -> {"idle", "lock", "select", "await"}]
  /\ rbuf \in [Readers -> Slices \cup Buffers \cup {NoBuffer}]
  /\ rgot \in [Readers -> 0 .. MaxLen]
  /\ rgen \in [Readers -> Nat] /\ wgen \in [Writers -> Nat]
  /\ wres \in [Writers -> {"ok", "closed", "timeout"}]
  /\ call \in [Writers -> 0 .. MaxCalls] /\ calls \in 0 .. MaxCalls
  /\ wlen \in [Writers -> 0 .. MaxLen] /\ wn \in [Writers -> 0 .. MaxLen]
  /\ delivered \in Seq((1 .. MaxCalls) \X (1 .. MaxLen))
  /\ readDeadline!TypeOK /\ writeDeadline!TypeOK

Init ==
  /\ done = {}
  /\ wrMu = Free
  /\ rpc = [r \in Readers |-> "idle"] /\ wpc = [w \in Writers |-> "idle"]
  /\ rbuf = [r \in Readers |-> NoBuffer]
  /\ rgot = [r \in Readers |-> 0]
  /\ rgen = [r \in Readers |-> 0] /\ wgen = [w \in Writers |-> 0]
  /\ wres = [w \in Writers |-> "ok"]
  /\ call = [w \in Writers |-> 0] /\ calls = 0
  /\ wlen = [w \in Writers |-> 0] /\ wn = [w \in Writers |-> 0]
  /\ delivered = << >>
  /\ readDeadline!Init /\ writeDeadline!Init

-----------------------------------------------------------------------------

\* The receive on a deadline channel that was taken in epoch e succeeds.
Expired(e, epoch, exceeded) == epoch > e \/ exceeded

\* The errors a select can return when it listens to a deadline that is over
\* or not; the switch before it makes the same three tests.  A reader gives
\* its errors other names, and nothing here depends on them.
Errors(epochOver) ==
     (IF done # {} THEN {"closed"} ELSE {})
\cup (IF epochOver THEN {"timeout"} ELSE {})

\* The reader's goroutine has left the call.
ReadReturns(r) ==
  /\ rpc' = [rpc EXCEPT ![r] = "idle"]
  /\ rbuf' = [rbuf EXCEPT ![r] = NoBuffer]
  /\ rgot' = [rgot EXCEPT ![r] = 0]
  /\ rgen' = [rgen EXCEPT ![r] = 0]

\* read and waitReadBuffer: the switch lets the call through to the select.
\* A call that it refuses leaves no trace.
ReadCall(r, b) ==
  /\ rpc[r] = "idle"
  /\ Errors(rdExceeded) = {}
  /\ rpc' = [rpc EXCEPT ![r] = "select"]
  /\ rbuf' = [rbuf EXCEPT ![r] = b]
  /\ rgen' = [rgen EXCEPT ![r] = rdEpoch]
  /\ UNCHANGED <<done, rgot, writeVars, delivered, rdDeadline, wrDeadline>>

\* The select of a reader ends with an error.
ReadAbort(r) ==
  /\ rpc[r] = "select"
  /\ Errors(Expired(rgen[r], rdEpoch, rdExceeded)) # {}
  /\ ReadReturns(r)
  /\ UNCHANGED <<done, writeVars, delivered, rdDeadline, wrDeadline>>

\* write: the switch before the mutex lets the call through.
WriteCall(w, n) ==
  /\ wpc[w] = "idle"
  /\ Errors(wrExceeded) = {}
  /\ calls < MaxCalls
  /\ calls' = calls + 1
  /\ call' = [call EXCEPT ![w] = calls + 1]
  /\ wlen' = [wlen EXCEPT ![w] = n]
  /\ wn' = [wn EXCEPT ![w] = 0]
  /\ wres' = [wres EXCEPT ![w] = "ok"]
  /\ wpc' = [wpc EXCEPT ![w] = "lock"]
  /\ UNCHANGED <<done, readVars, wrMu, wgen, delivered, rdDeadline, wrDeadline>>

\* wrMu.Lock(), and the first select.
WriteLock(w) ==
  /\ wpc[w] = "lock"
  /\ wrMu = Free
  /\ wrMu' = w
  /\ wpc' = [wpc EXCEPT ![w] = "select"]
  /\ wgen' = [wgen EXCEPT ![w] = wrEpoch]
  /\ UNCHANGED <<done, readVars, wres, call, wlen, wn, calls, delivered,
                 rdDeadline, wrDeadline>>

\* Mutations: a select that only listens to its own end; an error that hides
\* what was written before it.
WriteAbortForgets(w) ==
  /\ wpc[w] = "select"
  /\ \E e \in Errors(Expired(wgen[w], wrEpoch, wrExceeded)) :
       wres' = [wres EXCEPT ![w] = e]
  /\ wpc' = [wpc EXCEPT ![w] = "idle"]
  /\ wrMu' = Free
  /\ wgen' = [wgen EXCEPT ![w] = 0]
  /\ wn' = [wn EXCEPT ![w] = 0]
  /\ UNCHANGED <<done, readVars, call, wlen, calls, delivered, rdDeadline,
                 wrDeadline>>
WriteAbortLocal(w) ==
  /\ wpc[w] = "select"
  /\ "writing" \in done
  /\ wres' = [wres EXCEPT ![w] = "closed"]
  /\ wpc' = [wpc EXCEPT ![w] = "idle"]
  /\ wrMu' = Free
  /\ wgen' = [wgen EXCEPT ![w] = 0]
  /\ UNCHANGED <<done, readVars, call, wlen, wn, calls, delivered,
                 rdDeadline, wrDeadline>>

\* The select of a writer ends with an error: n may be short.
WriteAbort(w) ==
  /\ wpc[w] = "select"
  /\ \E e \in Errors(Expired(wgen[w], wrEpoch, wrExceeded)) :
       wres' = [wres EXCEPT ![w] = e]
  /\ wpc' = [wpc EXCEPT ![w] = "idle"]
  /\ wrMu' = Free
  /\ wgen' = [wgen EXCEPT ![w] = 0]
  /\ UNCHANGED <<done, readVars, call, wlen, wn, calls, delivered,
                 rdDeadline, wrDeadline>>

\* copy(b, bw), or buffer.Write(bw): what is left of w's slice goes into r's
\* buffer, as much as fits.
Copied(r, w) ==
  IF wlen[w] - wn[w] < rbuf[r].free THEN wlen[w] - wn[w] ELSE rbuf[r].free

\* buffer.Write refuses to write into a full buffer.
ShortBuffer(r, w) ==
  rbuf[r].by = "waitReadBuffer" /\ rbuf[r].free = 0 /\ wlen[w] > wn[w]

\* p.wrTx <- b meets bw := <-p.rdRx.
Rendezvous(r, w) ==
  /\ rpc[r] = "select" /\ wpc[w] = "select"
  /\ wpc' = [wpc EXCEPT ![w] = "await"]
  /\ \/ /\ ~ShortBuffer(r, w)
        /\ delivered' = delivered \o
             [i \in 1 .. Copied(r, w) |-> <<call[w], wn[w] + i>>]
        /\ rgot' = [rgot EXCEPT ![r] = Copied(r, w)]
        /\ rpc' = [rpc EXCEPT ![r] = "ack"]
        /\ UNCHANGED <<rbuf, rgen>>
     \/ /\ ShortBuffer(r, w)
        /\ ReadReturns(r)
        /\ UNCHANGED delivered
  /\ UNCHANGED <<done, wrMu, wgen, wres, call, wlen, wn, calls,
                 rdDeadline, wrDeadline>>

\* p.rdTx <- nr meets nw := <-p.wrRx; the writer offers the rest of b, or
\* returns.
Ack(r, w) ==
  /\ rpc[r] = "ack" /\ wpc[w] = "await"
  /\ ReadReturns(r)
  /\ wn' = [wn EXCEPT ![w] = @ + rgot[r]]
  /\ \/ /\ wn[w] + rgot[r] = wlen[w]
        /\ wpc' = [wpc EXCEPT ![w] = "idle"]
        /\ wrMu' = Free
        /\ wgen' = [wgen EXCEPT ![w] = 0]
     \/ /\ wn[w] + rgot[r] < wlen[w]
        /\ wpc' = [wpc EXCEPT ![w] = "select"]
        /\ wgen' = [wgen EXCEPT ![w] = wrEpoch]
        /\ UNCHANGED wrMu
  /\ UNCHANGED <<done, wres, call, wlen, calls, delivered,
                 rdDeadline, wrDeadline>>

-----------------------------------------------------------------------------
\* Close: once.Do.
Close(e) ==
  /\ e \notin done
  /\ done' = done \cup {e}
  /\ UNCHANGED <<readVars, writeVars, delivered, rdDeadline, wrDeadline>>

\* SetReadDeadline at the reading end, SetWriteDeadline at the writing end;
\* SetDeadline does one of these and then sets a deadline of the other
\* direction.  They are refused once an end is closed.
SetReadDeadline ==
  /\ done = {}
  /\ rdEpoch + wrEpoch < MaxEpoch
  /\ readDeadline!Refresh \/ readDeadline!SetPast
  /\ UNCHANGED <<done, readVars, writeVars, delivered, wrDeadline>>

SetWriteDeadline ==
  /\ done = {}
  /\ rdEpoch + wrEpoch < MaxEpoch
  /\ writeDeadline!Refresh \/ writeDeadline!SetPast
  /\ UNCHANGED <<done, readVars, writeVars, delivered, rdDeadline>>

Expire ==
  \/ /\ readDeadline!Expire
     /\ UNCHANGED <<done, readVars, writeVars, delivered, wrDeadline>>
  \/ /\ writeDeadline!Expire
     /\ UNCHANGED <<done, readVars, writeVars, delivered, rdDeadline>>

Next ==
  \/ \E r \in Readers, b \in Slices \cup Buffers : ReadCall(r, b)
  \/ \E r \in Readers : ReadAbort(r)
  \/ \E w \in Writers, n \in 0 .. MaxLen : WriteCall(w, n)
  \/ \E w \in Writers : WriteLock(w) \/ WriteAbort(w)
  \/ \E r \in Readers, w \in Writers : Rendezvous(r, w) \/ Ack(r, w)
  \/ \E e \in Ends : Close(e)
  \/ SetReadDeadline \/ SetWriteDeadline \/ Expire

\* A goroutine whose channel operation can go ahead goes ahead.  Nobody has
\* to call Read, Write, Close or to set a deadline, and timers may be long.
Fairness ==
  /\ \A r \in Readers : WF_vars(ReadAbort(r))
  /\ \A w \in Writers : WF_vars(WriteLock(w)) /\ WF_vars(WriteAbort(w))
  /\ \A r \in Readers, w \in Writers :
       WF_vars(Rendezvous(r, w)) /\ WF_vars(Ack(r, w))

Spec == Init /\ [][Next]_vars

FairSpec == Spec /\ Fairness

-----------------------------------------------------------------------------
\* The bytes of call c that were copied into some reader's buffer.
Received(c) == {i \in 1 .. Len(delivered) : delivered[i][1] = c}

Reporting == {r \in Readers : rpc[r] = "ack"}
Awaiting == {w \in Writers : wpc[w] = "await"}

\* "Successful receive on rdRx is always followed by send on rdTx", and it is
\* the one writer that sent which is waiting for the count: the count is
\* never handed to another Write, and no Write waits for a count that nobody
\* sends (not even the one waitReadBuffer met with a buffer it made itself).
AckMeetsItsWrite ==
  /\ Cardinality(Reporting) = Cardinality(Awaiting)
  /\ \A w \in Awaiting :
       /\ wrMu = w
       /\ \A r \in Reporting :
            Cardinality(Received(call[w])) = wn[w] + rgot[r]

\* The pipe's own invariant: types, and the meeting on the two channels.
PipeInv == TypeOK /\ AckMeetsItsWrite

\* "Ensure entirety of b is written together": the bytes of one Write arrive
\* in order, without gaps or repetitions, and no byte of another Write comes
\* between them, however many readers and writers there are.
WrittenTogether ==
  /\ delivered # << >> => delivered[1][2] = 1
  /\ \A i \in 1 .. Len(delivered) - 1 :
       LET a == delivered[i]
           b == delivered[i + 1]
       IN \/ b = <<a[1], a[2] + 1>>
          \/ b[2] = 1 /\ \A j \in 1 .. i : delivered[j][1] # b[1]

\* A Write that has returned reports in n exactly the bytes that readers were
\* given, also when a Close or a deadline cut it short, and it returns nil
\* only if that is all of b.
WriteReportsDelivery ==
  \A w \in Writers :
    wpc[w] = "idle" /\ call[w] # 0 =>
      /\ Cardinality(Received(call[w])) = wn[w]
      /\ wres[w] = "ok" => wn[w] = wlen[w]

\* What readers get and what writers are told about it agree.
WritesAgree == WrittenTogether /\ WriteReportsDelivery

\* The selects that listen to a deadline that has been replaced meanwhile.
Outdated ==
       {r \in Readers : rpc[r] = "select" /\ rgen[r] < rdEpoch}
  \cup {w \in Writers : wpc[w] = "select" /\ wgen[w] < wrEpoch}

\* A deadline that passed and was refreshed again before the goroutine ran
\* still ends the selects that were listening to it; when the deadlines are
\* left alone, none is left behind on a channel nobody will close.
DeadlineEndsSelect == Outdated # {} ~> Outdated = {}

\* Close of either end: every call under way returns, also the one that is
\* between the data and the count, and the queue on wrMu, and nobody blocks
\* on the pipe again.
CloseUnblocks ==
  (done # {}) ~> [](/\ \A r \in Readers : rpc[r] = "idle"
                    /\ \A w \in Writers : wpc[w] = "idle")

\* A deadline ends the selects under it, and Close everything.
PipeLive == DeadlineEndsSelect /\ CloseUnblocks
=============================================================================
