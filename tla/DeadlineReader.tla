---------------------------- MODULE DeadlineReader ----------------------------
(***************************************************************************)
(* The read side of deadline.Conn (src/common/bufio/deadline): a reader    *)
(* whose upstream cannot be interrupted is read by a goroutine, pipeRead,  *)
(* and the caller waits for its result or for the deadline.  A result that *)
(* comes too late, or that does not fit, stays in the result channel for   *)
(* the next Read.  The done channel holds a token while no pipeRead runs.  *)
(*                                                                         *)
(* With fallback the reader is the fallbackReader, which reads upstream    *)
(* itself while no deadline is set, and hands deadlines to the upstream    *)
(* once one arrived during such a read.                                    *)
(*                                                                         *)
(* One goroutine reads (SerialConn panics otherwise, "concurrent read on   *)
(* deadline conn"); another sets deadlines.                                *)
(***************************************************************************)
EXTENDS Naturals, Sequences

CONSTANTS Fallbacks,   \* may the reader be a fallbackReader, or a reader
          ReadLens,    \* bound: the lengths of the slices given to Read
          MaxBytes,    \* bound: bytes that the upstream delivers
          MaxSets      \* bound: calls of SetReadDeadline

ASSUME ReaderAssumption ==
  /\ Fallbacks \subseteq BOOLEAN
  /\ ReadLens \subseteq Nat \ {0}
  /\ MaxBytes \in Nat /\ MaxSets \in Nat

VARIABLES
  fallback,      \* the reader is a fallbackReader
  pc,            \* where the Read is
  plen,          \* len(p)
  gen,           \* the deadline epoch its select listens to
  held,          \* what pipeReturn has to put back
  result,        \* the result channel, capacity 1: bytes read, not returned
  done,          \* the done channel holds its token
  wpc, wlen,     \* the pipeRead goroutine, and the size of its buffer
  wgot,          \* the bytes it read
  setpc, sarg,     \* the SetReadDeadline call, and its time
  zero,          \* deadline.Load().IsZero()
  inRead, disablePipe,
  epoch, exceeded, pending,   \* the pipeDeadline
  upDeadline,    \* the upstream's own read deadline
  taken,         \* how many bytes were read from upstream
  returned,      \* history: the bytes returned to the caller, in order
  setting,       \* history: what the last SetReadDeadline asked for
  sets

readVars == <<fallback, pc, plen, gen, held>>
workVars == <<wpc, wlen, wgot>>
setVars == <<setpc, sarg, setting, sets>>
fallbackVars == <<inRead, disablePipe, upDeadline>>
deadlineVars == <<epoch, exceeded, pending>>
readerVars == <<readVars, result, done, workVars, setVars, zero, fallbackVars,
          deadlineVars, taken, returned>>

pipeDeadline == INSTANCE AbstractDeadline

Times == {"zero", "future", "past"}
Bytes == Seq(1 .. MaxBytes)

ReaderTypeOK ==
  /\ fallback \in Fallbacks
  /\ pc \in {"idle", "second", "token", "zero", "back", "enter", "direct", "third", "push",
             "replaced"}
  /\ plen \in ReadLens \cup {0}
  /\ gen \in Nat
  /\ held \in Bytes
  /\ result \in Seq(Bytes) /\ Len(result) <= 1
  /\ done \in BOOLEAN
  /\ wpc \in {"none", "reading", "send", "token"}
  /\ wlen \in ReadLens \cup {0}
  /\ wgot \in Bytes
  /\ setpc \in {"idle", "load", "disable", "pipe", "set", "upstream"} /\ sarg \in Times
  /\ zero \in BOOLEAN /\ inRead \in BOOLEAN /\ disablePipe \in BOOLEAN
  /\ pipeDeadline!TypeOK
  /\ upDeadline \in {"none", "pending", "exceeded"}
  /\ taken \in 0 .. MaxBytes
  /\ returned \in Bytes
  /\ setting \in Times /\ sets \in 0 .. MaxSets

ReaderInit ==
  /\ fallback \in Fallbacks
  /\ pc = "idle" /\ plen = 0 /\ gen = 0 /\ held = << >>
  /\ result = << >> /\ done = TRUE
  /\ wpc = "none" /\ wlen = 0 /\ wgot = << >>
  /\ setpc = "idle" /\ sarg = "zero" /\ setting = "zero" /\ sets = 0
  /\ zero = TRUE /\ inRead = FALSE /\ disablePipe = FALSE /\ upDeadline = "none"
  /\ pipeDeadline!Init
  /\ taken = 0 /\ returned = << >>

-----------------------------------------------------------------------------
\* Upstream delivers its next n bytes.
Upstream(n) == [i \in 1 .. n |-> taken + i]

BackToIdle ==
  /\ pc' = "idle" /\ plen' = 0 /\ gen' = 0

\* Mutations: what does not fit is released with the buffer; it is put back
\* whole.
pipeReturnReleases(bytes, n) ==
  /\ returned' = returned \o SubSeq(bytes, 1, n)
  /\ BackToIdle
  /\ UNCHANGED held

\* pipeReturn, pipeReturnBuffer: copy at most n bytes, and put the rest back.
pipeReturn(bytes, n) ==
  /\ returned' = returned \o SubSeq(bytes, 1, n)
  /\ IF Len(bytes) > n
     THEN /\ pc' = "push"
          /\ held' = SubSeq(bytes, n + 1, Len(bytes))
          /\ UNCHANGED <<plen, gen>>
     ELSE BackToIdle /\ UNCHANGED held

AtMost(n, s) == IF Len(s) < n THEN Len(s) ELSE n

\* case result := <-r.result, for a Read of n bytes.
TakeResult(n) ==
  /\ result # << >>
  /\ result' = << >>
  /\ pipeReturn(result[1], AtMost(n, result[1]))
  /\ UNCHANGED <<fallback, done, workVars, setVars, zero, fallbackVars, deadlineVars, taken>>

\* Read(p): the select with a default.
Read(n) ==
  /\ pc = "idle"
  /\ \/ TakeResult(n)
     \/ /\ result = << >>
        /\ pc' = "second" /\ plen' = n /\ gen' = epoch
        /\ UNCHANGED <<fallback, held, result, done, workVars, setVars, zero, fallbackVars,
                       deadlineVars, taken, returned>>

\* The other entrances go through the same selects, ...
ReadBuffer(n) == Read(n)

\* ... the ones of the packet reader too, whose pipeReturnFrom also puts the
\* rest of a packet back for the next read.
ReadFrom(n) == Read(n)
ReaderReadPacket(n) == Read(n)

\* r.result <- result in pipeReturn.
PushBack ==
  /\ pc = "push"
  /\ result = << >>
  /\ result' = <<held>>
  /\ held' = << >>
  /\ BackToIdle
  /\ UNCHANGED <<fallback, done, workVars, setVars, zero, fallbackVars, deadlineVars, taken,
                 returned>>

\* The second and the third select: the result ...
ReadResult ==
  /\ pc \in {"second", "third"}
  /\ TakeResult(plen)

\* Mutation: the third select does not listen to the deadline.
ReadTimeoutSecond ==
  /\ pc = "second"
  /\ epoch > gen \/ exceeded
  /\ BackToIdle
  /\ UNCHANGED <<fallback, held, result, done, workVars, setVars, zero, fallbackVars,
                 deadlineVars, taken, returned>>

\* ... the deadline ...
ReadTimeout ==
  /\ pc \in {"second", "third"}
  /\ epoch > gen \/ exceeded
  /\ BackToIdle
  /\ UNCHANGED <<fallback, held, result, done, workVars, setVars, zero, fallbackVars,
                 deadlineVars, taken, returned>>

\* go r.pipeRead(len(p)), and the third select.
GoPipeRead ==
  /\ wpc' = "reading" /\ wlen' = plen
  /\ pc' = "third" /\ gen' = epoch

\* ... and, in the second, the token.
ReadDone ==
  /\ pc = "second"
  /\ done
  /\ ~fallback
  /\ done' = FALSE
  /\ GoPipeRead
  /\ UNCHANGED <<fallback, plen, held, result, wgot, setVars, zero, fallbackVars,
                 deadlineVars, taken, returned>>

\* Mutation: the fallback reader does not wait for the token.
FallbackDoneNoToken ==
  /\ pc = "second"
  /\ fallback
  /\ done' = FALSE
  /\ pc' = "token"
  /\ UNCHANGED <<fallback, plen, gen, held, result, workVars, setVars, zero, fallbackVars,
                 deadlineVars, taken, returned>>

\* The fallback reader takes the token, ...
FallbackDone ==
  /\ pc = "second"
  /\ done
  /\ fallback
  /\ done' = FALSE
  /\ pc' = "token"
  /\ UNCHANGED <<fallback, plen, gen, held, result, workVars, setVars, zero, fallbackVars,
                 deadlineVars, taken, returned>>

\* ... keeps it when it was told to disable the pipe, ...
LoadDisablePipe ==
  /\ pc = "token"
  /\ pc' = IF disablePipe THEN "direct" ELSE "zero"
  /\ UNCHANGED <<fallback, plen, gen, held, result, done, workVars, setVars, zero,
                 fallbackVars, deadlineVars, taken, returned>>

\* ... starts a pipeRead when there is a deadline, ...
LoadDeadline ==
  /\ pc = "zero"
  /\ \/ /\ zero
        /\ pc' = "back"
        /\ UNCHANGED <<gen, wpc, wlen>>
     \/ ~zero /\ GoPipeRead
  /\ UNCHANGED <<fallback, plen, held, result, done, wgot, setVars, zero, fallbackVars,
                 deadlineVars, taken, returned>>

\* ... and gives it back when there is none: r.done <- struct{}{}.  It then
\* reads the upstream itself.
GiveBack ==
  /\ pc = "back"
  /\ ~done
  /\ done' = TRUE
  /\ pc' = "enter"
  /\ UNCHANGED <<fallback, plen, gen, held, result, workVars, setVars, zero, fallbackVars,
                 deadlineVars, taken, returned>>

\* r.inRead.Store(true)
EnterDirect ==
  /\ pc = "enter"
  /\ pc' = "direct"
  /\ inRead' = TRUE
  /\ UNCHANGED <<fallback, plen, gen, held, result, done, workVars, setVars, zero,
                 disablePipe, upDeadline, deadlineVars, taken, returned>>

LeaveDirect ==
  /\ BackToIdle
  /\ inRead' = FALSE
  /\ UNCHANGED <<fallback, held, result, done, workVars, setVars, zero, disablePipe,
                 upDeadline, deadlineVars>>

\* r.ExtendedReader.Read(p) returns n bytes (an error when 0) ...
DirectRead(n) ==
  /\ pc = "direct"
  /\ n <= plen /\ taken + n <= MaxBytes
  /\ taken' = taken + n
  /\ returned' = returned \o Upstream(n)
  /\ LeaveDirect

\* ... or meets the deadline that was set on the upstream.
DirectTimeout ==
  /\ pc = "direct"
  /\ upDeadline = "exceeded"
  /\ LeaveDirect
  /\ UNCHANGED <<taken, returned>>

\* pipeRead: buffer.ReadOnceFrom, with n bytes or an error ...
WorkerReads(n) ==
  /\ wpc = "reading"
  /\ n <= wlen /\ taken + n <= MaxBytes
  /\ taken' = taken + n
  /\ wgot' = Upstream(n)
  /\ wpc' = "send"
  /\ UNCHANGED <<readVars, result, done, wlen, setVars, zero, fallbackVars,
                 deadlineVars, returned>>

\* ... r.result <- ...
WorkerSends ==
  /\ wpc = "send"
  /\ result = << >>
  /\ result' = <<wgot>>
  /\ wgot' = << >>
  /\ wpc' = "token"
  /\ UNCHANGED <<readVars, done, wlen, setVars, zero, fallbackVars, deadlineVars,
                 taken, returned>>

\* ... and r.done <- struct{}{}.
WorkerToken ==
  /\ wpc = "token"
  /\ ~done
  /\ done' = TRUE
  /\ wpc' = "none" /\ wlen' = 0
  /\ UNCHANGED <<readVars, result, wgot, setVars, zero, fallbackVars, deadlineVars,
                 taken, returned>>

\* ReaderReplaceable returned true, and from now on the caller reads the
\* upstream itself.
ReaderReplaceable ==
  /\ pc = "idle"
  /\ (fallback /\ disablePipe) \/ (done /\ result = << >> /\ zero)
  /\ pc' = "replaced"
  /\ UNCHANGED <<fallback, plen, gen, held, result, done, workVars, setVars, zero,
                 fallbackVars, deadlineVars, taken, returned>>

-----------------------------------------------------------------------------
\* SetReadDeadline(t).  The fallback reader looks at disablePipe, ...
SetCheck(t) ==
  /\ setpc = "idle"
  /\ sets < MaxSets
  /\ sets' = sets + 1
  /\ sarg' = t
  /\ setpc' = CASE ~fallback -> "pipe"
              [] fallback /\ disablePipe -> "upstream"
              [] fallback /\ ~disablePipe -> "load"
  /\ UNCHANGED <<readVars, result, done, workVars, setting, zero, fallbackVars,
                 deadlineVars, taken, returned>>

\* ... at inRead, ...
SetLoadInRead ==
  /\ setpc = "load"
  /\ setpc' = IF inRead THEN "disable" ELSE "pipe"
  /\ UNCHANGED <<readVars, result, done, workVars, sarg, setting, sets, zero, fallbackVars,
                 deadlineVars, taken, returned>>

\* ... and disables the pipe of a Read that it found in the upstream.
SetDisable ==
  /\ setpc = "disable"
  /\ setpc' = "upstream"
  /\ disablePipe' = TRUE
  /\ UNCHANGED <<readVars, result, done, workVars, sarg, setting, sets, zero, inRead,
                 upDeadline, deadlineVars, taken, returned>>

\* reader.SetReadDeadline: r.deadline.Store(t), ...
SetStore ==
  /\ setpc = "pipe"
  /\ setpc' = "set"
  /\ zero' = (sarg = "zero")
  /\ UNCHANGED <<readVars, result, done, workVars, sarg, setting, sets, fallbackVars,
                 deadlineVars, taken, returned>>

\* ... and r.pipeDeadline.set(t).
SetPipe ==
  /\ setpc = "set"
  /\ setpc' = "idle"
  /\ setting' = sarg
  /\ \/ sarg = "past" /\ pipeDeadline!SetPast
     \/ sarg # "past" /\ pipeDeadline!Refresh /\ pending' = (sarg = "future")
  /\ UNCHANGED <<readVars, result, done, workVars, sarg, sets, zero, fallbackVars, taken,
                 returned>>

\* timeoutReader.SetReadDeadline, of the upstream.
SetUpstream ==
  /\ setpc = "upstream"
  /\ setpc' = "idle"
  /\ setting' = sarg
  /\ upDeadline' = CASE sarg = "zero" -> "none"
                     [] sarg = "future" -> "pending"
                     [] sarg = "past" -> "exceeded"
  /\ UNCHANGED <<readVars, result, done, workVars, sarg, sets, zero, inRead,
                 disablePipe, deadlineVars, taken, returned>>

Expire ==
  /\ \/ pipeDeadline!Expire /\ UNCHANGED upDeadline
     \/ upDeadline = "pending" /\ upDeadline' = "exceeded" /\ UNCHANGED deadlineVars
  /\ UNCHANGED <<readVars, result, done, workVars, setVars, zero, inRead,
                 disablePipe, taken, returned>>

ReadStep ==
  \/ PushBack \/ ReadResult \/ ReadTimeout \/ ReadDone
  \/ FallbackDone \/ LoadDisablePipe \/ LoadDeadline \/ GiveBack \/ EnterDirect
  \/ DirectTimeout
WorkerStep == WorkerSends \/ WorkerToken
SetStep == SetLoadInRead \/ SetDisable \/ SetStore \/ SetPipe \/ SetUpstream
UpstreamStep == \E n \in 0 .. MaxBytes : DirectRead(n) \/ WorkerReads(n)

ReaderNext ==
  \/ \E n \in ReadLens : Read(n) \/ ReadBuffer(n) \/ ReadFrom(n) \/ ReaderReadPacket(n)
  \/ ReadStep \/ WorkerStep \/ UpstreamStep \/ ReaderReplaceable
  \/ \E t \in Times : SetCheck(t)
  \/ SetStep \/ Expire

\* A goroutine that can go on does, and a select whose deadline has passed
\* does not wait.  Upstream may stay silent for ever: that is what the
\* deadline is for.
ReaderFairness == WF_readerVars(ReadStep) /\ WF_readerVars(WorkerStep) /\ WF_readerVars(SetStep)

ReaderSpec == ReaderInit /\ [][ReaderNext]_readerVars

ReaderFairSpec == ReaderSpec /\ ReaderFairness

-----------------------------------------------------------------------------
\* The caller sees the bytes of the upstream in order, without gaps and
\* without repetitions, however the results of late pipeReads, the pieces put
\* back by pipeReturn and the timeouts interleave.  This is so for the plain
\* reader only: the fallback reader's second select may find a result and the
\* token, take the token, and read the upstream past the result.
InOrder == fallback \/ \A i \in 1 .. Len(returned) : returned[i] = i

\* No byte that was read from upstream disappears: it was returned, or waits
\* in the result channel, in pipeReturn or in pipeRead.
NoByteLost ==
  LET Waiting == (IF result = << >> THEN << >> ELSE result[1]) \o held \o wgot
      All == returned \o Waiting
  IN Len(All) = taken /\ \A b \in 1 .. taken : \E i \in 1 .. Len(All) : All[i] = b

\* Never two goroutines in the upstream's Read at once, although the fallback
\* reader gives the token back before it reads.
OneUpstreamReader == ~(pc = "direct" /\ wpc = "reading")

\* When ReaderReplaceable says that the upstream may be used in place of this
\* reader, nobody else reads the upstream, and no byte is left behind.  This
\* is not so for a fallback reader that was told to disable its pipe: the
\* Store of a SetReadDeadline that found an earlier Read in the upstream can
\* come while a later one's pipeRead is there.
ReplaceableIsEmpty ==
  pc = "replaced" /\ ~disablePipe => wpc = "none" /\ Len(returned) = taken

\* The channels keep their capacities, one goroutine reads at a time, and a
\* reader that may be replaced has nothing left.
ReaderInv == ReaderTypeOK /\ OneUpstreamReader /\ ReplaceableIsEmpty

\* Every byte of the upstream comes through, and in order.
BytesInOrder == InOrder /\ NoByteLost

\* A Read that waits for a result or for the token ends once the deadline is
\* exceeded, although its goroutine in the upstream's Read may never return,
\* unless the deadline is refreshed.
DeadlineEndsSelect ==
  (pc \in {"second", "third"} /\ exceeded)
    ~> (pc \notin {"second", "third"} \/ ~exceeded)

\* Once SetReadDeadline with a time in the past has returned, a Read under
\* way ends, unless the deadline is refreshed.
DeadlineEndsRead ==
  (pc # "idle" /\ setting = "past") ~> (pc \in {"idle", "replaced"} \/ setting # "past")
=============================================================================
