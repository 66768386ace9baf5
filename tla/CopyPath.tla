------------------------------- MODULE CopyPath -------------------------------
(***************************************************************************)
(* One direction of a copy (bufio.Copy and CopyPacket, copy.go): how it    *)
(* takes the wrappers off its source and its destination, takes over what  *)
(* they hold, and picks the fastest loop that is left.                     *)
(*                                                                         *)
(* A connection is a chain of layers, the outermost first, the last one    *)
(* the connection itself.  Layers are                                      *)
(*   "counter"   CounterConn: counts what passes; can be unwrapped when    *)
(*               its counters are called in its place;                     *)
(*   "cached"    CachedConn: returns its buffer first;                     *)
(*   "early"     a protocol whose handshake goes along with the first      *)
(*               data: replaceable afterwards (N.EarlyReader, EarlyWriter; *)
(*               "lazy" is the deprecated N.EarlyConn);                    *)
(*   "plain"     a connection that can only be read and written,           *)
(*   "waiter"    one that lends its own buffers,                           *)
(*   "syscall"   a socket, "handled" one whose read errors may mean data   *)
(*               (N.SyscallReader).                                        *)
(* The goroutine of the other direction uses the same layers: a handshake  *)
(* may complete, and the connection may be closed, at any moment.          *)
(*                                                                         *)
(* A unit is a buffer or a packet, named by the layer it comes from and    *)
(* its number there.                                                       *)
(***************************************************************************)
EXTENDS Naturals, Sequences, FiniteSets, FiniteSetsExt

CONSTANTS Sources, Destinations,  \* the chains
          Cached,                 \* bound: units in a cached buffer
          MaxUnits                \* bound: units that the connection sends

Wrappers == {"counter", "cached", "early", "lazy"}
Sockets == {"plain", "waiter", "syscall", "handled"}

IsChain(c) ==
  /\ c \in Seq(Wrappers \cup Sockets) /\ c # << >>
  /\ c[Len(c)] \in Sockets
  /\ \A i \in 1 .. Len(c) - 1 : c[i] \in Wrappers

ASSUME PathAssumption ==
  /\ \A c \in Sources \cup Destinations : IsChain(c)
  /\ Cached \in Nat \ {0} /\ MaxUnits \in Nat

VARIABLES
  packets,                      \* CopyPacket, or Copy
  source, destination,          \* the chains
  buffer, cacheTaken,           \* of the cached layers: << >> is a nil buffer
  needRead, needWrite,          \* layers whose handshake is not completed
  reader, writer,               \* sourceReader and destinationWriter: layers
  readCounters, writeCounters,  \* how often the session calls each counter
  readPending, writePending,    \* the session's HandshakeState
  pc,
  path,                         \* the copy loop
  held,                         \* what was read and not yet written
  n,                            \* the result
  arrived,                      \* units read from the connection
  delivered,                    \* units written to the destination
  handed,                       \* history: units that ReadCached handed over
  countedRead, countedWrite,    \* by the counters of the two chains
  closing                       \* Close of the source, by another goroutine

chainVars == <<packets, source, destination>>
layerVars == <<buffer, cacheTaken, needRead, needWrite, closing>>
sessionVars == <<reader, writer, readCounters, writeCounters, readPending, writePending>>
dataVars == <<held, n, arrived, delivered, handed>>
countVars == <<countedRead, countedWrite>>
pathVars == <<chainVars, layerVars, sessionVars, pc, path, dataVars, countVars>>

Socket(chain) == Len(chain)
At(chain, kind) == {l \in 1 .. Len(chain) : chain[l] = kind}

\* What a cached layer of a packet connection holds is one packet.
CachedUnits == IF packets THEN 1 ELSE Cached
Units(l, k) == [i \in 1 .. k |-> <<l, i>>]

PathInit ==
  /\ packets \in BOOLEAN
  /\ source \in Sources /\ destination \in Destinations
  /\ buffer = [l \in At(source, "cached") |-> <<Units(l, CachedUnits)>>]
  /\ cacheTaken = [l \in At(source, "cached") |-> FALSE]
  /\ needRead = At(source, "early")
  /\ needWrite = At(destination, "early") \cup At(destination, "lazy")
  /\ reader = 1 /\ writer = 1
  /\ readCounters = [l \in At(source, "counter") |-> 0]
  /\ writeCounters = [l \in At(destination, "counter") |-> 0]
  /\ readPending = FALSE /\ writePending = FALSE
  /\ pc = "unwrap" /\ path = "none"
  /\ held = << >> /\ n = 0 /\ arrived = 0 /\ delivered = << >> /\ handed = 0
  /\ countedRead = [l \in At(source, "counter") |-> 0]
  /\ countedWrite = [l \in At(destination, "counter") |-> 0]
  /\ closing = "no"

-----------------------------------------------------------------------------
(* The wrappers.                                                           *)

\* Mutation: a cached layer can be replaced once its buffer was handed out or
\* read for the first time.
ReaderReplaceableEarly(l) ==
  \/ source[l] = "cached"
  \/ source[l] = "early" /\ l \notin needRead

ReaderReplaceable(l) ==
  \/ source[l] = "cached" /\ buffer[l] = << >>
  \/ source[l] = "early" /\ l \notin needRead

\* A CachedConn is written through.
WriterReplaceable(l) ==
  \/ destination[l] = "cached"
  \/ destination[l] \in {"early", "lazy"} /\ l \notin needWrite

\* The first layer from l on that does not satisfy Skip(_).
FirstNot(chain, l, Skip(_)) == Min({j \in l .. Len(chain) : ~Skip(j)})

\* UnwrapCountReader and UnwrapCountWriter, and their packet versions: the
\* layer that is left, and the counters on the way.  They also stop at a
\* replaceable layer that is itself a read waiter, a batch writer or a
\* syscall.Conn; no wrapper of these chains is one.
SkipReader(l) == source[l] = "counter" \/ ReaderReplaceable(l)
SkipWriter(l) == destination[l] = "counter" \/ WriterReplaceable(l)
UnwrapCountReader(l) == FirstNot(source, l, SkipReader)
UnwrapCountWriter(l) == FirstNot(destination, l, SkipWriter)
Counters(chain, l, j) ==
  [k \in At(chain, "counter") |-> IF k \in l .. j - 1 THEN 1 ELSE 0]
NoCounters(chain) == [k \in At(chain, "counter") |-> 0]
Plus(cs, ds) == [k \in DOMAIN cs |-> cs[k] + ds[k]]

\* NeedHandshakeForRead: Cast finds the outermost early layer.
NeedHandshakeForRead(l) ==
  LET Early == At(source, "early") \cap (l .. Len(source))
  IN Early # {} /\ Min(Early) \in needRead

\* NeedHandshakeForWrite: the deprecated interface only counts at the top.
NeedHandshakeForWrite(l) ==
  LET Early == At(destination, "early") \cap (l .. Len(destination))
  IN IF destination[l] = "lazy" THEN l \in needWrite
     ELSE Early # {} /\ Min(Early) \in needWrite

\* The searches for something better than Read and Write look below the
\* replaceable layers, down to the socket; a counter stops them ...
ReadsAt(l, kinds) ==
  LET j == FirstNot(source, l, ReaderReplaceable)
  IN j = Socket(source) /\ source[j] \in kinds
WritesAt(l, kinds) ==
  LET j == FirstNot(destination, l, WriterReplaceable)
  IN j = Socket(destination) /\ destination[j] \in kinds

SyscallAvailableForRead(l) == ReadsAt(l, {"syscall", "handled"})
SyscallAvailableForWrite(l) == WritesAt(l, {"syscall", "handled"})
CreateReadWaiter(l) == ReadsAt(l, {"waiter", "syscall"})
CreatePacketReadWaiter(l) == ReadsAt(l, {"waiter", "syscall"})
CreateVectorisedReadWaiter(l) == ReadsAt(l, {"syscall"})
CreateVectorisedWriter(l) == WritesAt(l, {"syscall"})

\* ... unless it is a CounterPacketConn, which counts for a batch as well.
CreatePacketBatchReadWaiter(l) ==
  LET j == UnwrapCountReader(l) IN j = Socket(source) /\ source[j] = "syscall"
CreatePacketBatchWriter(l) ==
  LET j == UnwrapCountWriter(l) IN j = Socket(destination) /\ destination[j] = "syscall"

\* Calling the counters cs for k units.
Call(counted, cs, k) ==
  [l \in DOMAIN counted |-> counted[l] + k * cs[l]]

-----------------------------------------------------------------------------
(* CopyWithIncreateBuffer and CopyPacket: unwrap, and take over what the   *)
(* source has cached, as often as there is something.                      *)

ReadCached(l) ==
  /\ source[l] = "cached" /\ ~cacheTaken[l]
  /\ cacheTaken' = [cacheTaken EXCEPT ![l] = TRUE]
  /\ held' = buffer[l][1]
  /\ buffer' = [buffer EXCEPT ![l] = << >>]

Unwrap ==
  /\ pc = "unwrap"
  /\ LET r == UnwrapCountReader(reader)
         w == UnwrapCountWriter(writer)
     IN /\ reader' = r /\ readCounters' = Plus(readCounters, Counters(source, reader, r))
        /\ writer' = w /\ writeCounters' = Plus(writeCounters, Counters(destination, writer, w))
        /\ \/ ReadCached(r) /\ pc' = "cached"
           \/ /\ ~(source[r] = "cached" /\ ~cacheTaken[r])
              /\ pc' = "session"
              /\ UNCHANGED <<cacheTaken, held, buffer>>
  /\ UNCHANGED <<chainVars, needRead, needWrite, closing, readPending, writePending, path,
                 n, arrived, delivered, handed, countVars>>

\* destination.Write, writePacketWithPool.  Copy leaves the cached bytes out
\* of its result.
WriteCached ==
  /\ pc = "cached"
  /\ delivered' = delivered \o held
  /\ held' = << >>
  /\ n' = IF packets THEN n + Len(held) ELSE n
  /\ handed' = handed + Len(held)
  /\ countedRead' = Call(countedRead, readCounters, Len(held))
  /\ countedWrite' =
       Call(countedWrite,
            Plus(writeCounters, Counters(destination, writer, Socket(destination))), Len(held))
  /\ pc' = "unwrap"
  /\ UNCHANGED <<chainVars, layerVars, sessionVars, path, arrived>>

-----------------------------------------------------------------------------
(* CopyWithCounters and copyPacketWithCounters.                            *)

\* NewHandshakeState.
NewHandshakeState(r, w) ==
  /\ readPending' = NeedHandshakeForRead(r)
  /\ writePending' = NeedHandshakeForWrite(w)

NewCopySession ==
  /\ pc = "session"
  /\ NewHandshakeState(reader, writer)
  /\ pc' = "path"
  /\ UNCHANGED <<chainVars, layerVars, reader, writer, readCounters, writeCounters, path,
                 dataVars, countVars>>

Choose(p) ==
  /\ pc = "path"
  /\ path' = p
  /\ pc' = "read"
  /\ UNCHANGED <<chainVars, layerVars, sessionVars, dataVars, countVars>>

\* copyDirect.  splice may find out that the system cannot do it.
copyDirect ==
  /\ ~packets
  /\ SyscallAvailableForRead(reader) /\ SyscallAvailableForWrite(writer)
  /\ Choose("splice")

\* copyExtended: a waiter that would have to copy, for want of headroom, is
\* not used.
copyExtended ==
  /\ ~packets
  /\ (CreateReadWaiter(reader) /\ Choose("wait")) \/ Choose("pool")

copyPacketWithCountersOnce ==
  /\ packets
  /\ \/ CreatePacketBatchReadWaiter(reader) /\ CreatePacketBatchWriter(writer) /\ Choose("batch")
     \/ CreatePacketReadWaiter(reader) /\ Choose("wait")
     \/ Choose("pool")

\* copyWaitWithPool goes on with several buffers at a time when enough was
\* copied and both sides can.
copyWaitVectorisedWithPool ==
  /\ ~packets
  /\ pc = "read" /\ path = "wait" /\ n > 0
  /\ CreateVectorisedReadWaiter(reader) /\ CreateVectorisedWriter(writer)
  /\ path' = "vectorised"
  /\ UNCHANGED <<chainVars, layerVars, sessionVars, pc, dataVars, countVars>>

\* The pool loop reads through the layers: counters count, and what a cached
\* layer holds comes first; a buffer that was read to its end goes with the
\* next read, the one of a packet at once.
Holder ==
  FirstNot(source, reader,
           LAMBDA l : l < Socket(source)
                        /\ ~(source[l] = "cached" /\ buffer[l] \notin {<< >>, <<<< >>>>}))

Emptied(h) ==
  [l \in DOMAIN buffer |-> IF l \in reader .. h - 1 THEN << >> ELSE buffer[l]]

ReadCachedLayer ==
  /\ pc = "read" /\ path = "pool"
  /\ Holder # Socket(source)
  /\ \E k \in 1 .. Len(buffer[Holder][1]) :
       /\ packets => k = Len(buffer[Holder][1])
       /\ held' = SubSeq(buffer[Holder][1], 1, k)
       /\ buffer' = [Emptied(Holder) EXCEPT ![Holder] =
                       IF packets THEN << >> ELSE <<SubSeq(@[1], k + 1, Len(@[1]))>>]
       /\ countedRead' = Call(countedRead, Counters(source, reader, Holder), k)
  /\ pc' = "write"
  /\ UNCHANGED <<chainVars, cacheTaken, needRead, needWrite, closing, sessionVars, path, n,
                 arrived, delivered, handed, countedWrite>>

\* Which counters count by themselves: the pool loop goes through every
\* layer, a batch through the waiters and writers of the counters.
CountsInReading ==
  IF path \in {"pool", "batch"} THEN Counters(source, reader, Socket(source))
  ELSE NoCounters(source)

ReadSocket(k) ==
  /\ pc = "read"
  /\ path = "pool" => Holder = Socket(source)
  /\ k > 1 => path \in {"vectorised", "batch"}
  /\ closing # "closed" /\ arrived + k <= MaxUnits
  /\ held' = [i \in 1 .. k |-> <<Socket(source), arrived + i>>]
  /\ arrived' = arrived + k
  /\ buffer' = IF path = "pool" THEN Emptied(Socket(source)) ELSE buffer
  /\ countedRead' = Call(countedRead, CountsInReading, k)
  /\ pc' = "write"
  /\ UNCHANGED <<chainVars, cacheTaken, needRead, needWrite, closing, sessionVars, path, n,
                 delivered, handed, countedWrite>>

\* io.EOF or another error; a failing write ends the copy as well.
Ends ==
  /\ pc \in {"read", "write", "cached"}
  /\ pc = "read" /\ path = "pool" => Holder = Socket(source)
  /\ pc' = "return"
  /\ UNCHANGED <<chainVars, layerVars, sessionVars, path, dataVars, countVars>>

CountsInWriting ==
  IF path \in {"pool", "wait", "batch"}
  THEN Counters(destination, writer, Socket(destination)) ELSE NoCounters(destination)

Write ==
  /\ pc = "write"
  /\ delivered' = delivered \o held
  /\ n' = n + Len(held)
  /\ countedWrite' = Call(countedWrite, CountsInWriting, Len(held))
  /\ pc' = "transfer"
  /\ UNCHANGED <<chainVars, layerVars, sessionVars, path, held, arrived, handed, countedRead>>

Check ==
  \/ readPending /\ ~NeedHandshakeForRead(reader)
  \/ writePending /\ ~NeedHandshakeForWrite(writer)

\* Mutation: the counters are collected anew from the outermost layers.
refreshUnwrapFromTop ==
  LET r == UnwrapCountReader(reader)
      w == UnwrapCountWriter(writer)
  IN /\ reader' = r /\ readCounters' = Plus(readCounters, Counters(source, 1, r))
     /\ writer' = w /\ writeCounters' = Plus(writeCounters, Counters(destination, 1, w))
     /\ NewHandshakeState(r, w)
     /\ pc' = "path"

refreshUnwrap ==
  LET r == UnwrapCountReader(reader)
      w == UnwrapCountWriter(writer)
  IN /\ reader' = r /\ readCounters' = Plus(readCounters, Counters(source, reader, r))
     /\ writer' = w /\ writeCounters' = Plus(writeCounters, Counters(destination, writer, w))
     /\ NewHandshakeState(r, w)
     /\ pc' = "path"

\* session.Transfer and TransferBatch: the unwrapped counters, and the check
\* whether a handshake is completed now (not while splicing).
Transfer ==
  /\ pc = "transfer"
  /\ countedRead' = Call(countedRead, readCounters, Len(held))
  /\ countedWrite' = Call(countedWrite, writeCounters, Len(held))
  /\ held' = << >>
  /\ \/ path # "splice" /\ Check /\ refreshUnwrap
     \/ /\ path = "splice" \/ ~Check
        /\ pc' = "read"
        /\ UNCHANGED sessionVars
  /\ UNCHANGED <<chainVars, layerVars, path, n, arrived, delivered, handed>>

\* splice: HandleSyscallReadError turned the error into data, which goes to
\* the pipe; then E.Cause is called with the error that is nil by now.
HandleSyscallReadError ==
  /\ pc = "read" /\ path = "splice" /\ source[Socket(source)] = "handled"
  /\ arrived < MaxUnits
  /\ arrived' = arrived + 1
  /\ held' = <<<<Socket(source), arrived + 1>>>>
  /\ pc' = "nil cause"
  /\ UNCHANGED <<chainVars, layerVars, sessionVars, path, n, delivered, handed, countVars>>

-----------------------------------------------------------------------------
(* The goroutine of the other direction.                                   *)

HandshakeDone ==
  /\ \/ \E l \in needRead : needRead' = needRead \ {l} /\ UNCHANGED needWrite
     \/ \E l \in needWrite : needWrite' = needWrite \ {l} /\ UNCHANGED needRead
  /\ UNCHANGED <<chainVars, buffer, cacheTaken, closing, sessionVars, pc, path, dataVars,
                 countVars>>

\* CachedConn.Close drops the buffer unless it was taken, ...
Close ==
  /\ closing = "no"
  /\ closing' = "dropped"
  /\ buffer' = [l \in DOMAIN buffer |-> IF cacheTaken[l] THEN buffer[l] ELSE << >>]
  /\ cacheTaken' = [l \in DOMAIN cacheTaken |-> TRUE]
  /\ UNCHANGED <<chainVars, needRead, needWrite, sessionVars, pc, path, dataVars, countVars>>

\* ... and then closes the connection below.
CloseSocket ==
  /\ closing = "dropped"
  /\ closing' = "closed"
  /\ UNCHANGED <<chainVars, buffer, cacheTaken, needRead, needWrite, sessionVars, pc, path,
                 dataVars, countVars>>

PathStep ==
  \/ Unwrap \/ WriteCached \/ NewCopySession
  \/ copyDirect \/ copyExtended \/ copyPacketWithCountersOnce
  \/ copyWaitVectorisedWithPool
  \/ ReadCachedLayer \/ (\E k \in 1 .. 2 : ReadSocket(k)) \/ Ends
  \/ Write \/ Transfer \/ HandleSyscallReadError

PathNext == PathStep \/ HandshakeDone \/ Close \/ CloseSocket

PathSpec == PathInit /\ [][PathNext]_pathVars

-----------------------------------------------------------------------------
PathTypeOK ==
  /\ packets \in BOOLEAN /\ source \in Sources /\ destination \in Destinations
  /\ DOMAIN buffer = At(source, "cached") /\ DOMAIN cacheTaken = DOMAIN buffer
  /\ \A l \in DOMAIN buffer : Len(buffer[l]) <= 1
  /\ needRead \subseteq At(source, "early") /\ needWrite \subseteq 1 .. Len(destination)
  /\ reader \in 1 .. Len(source) /\ writer \in 1 .. Len(destination)
  /\ pc \in {"unwrap", "cached", "session", "path", "read", "write", "transfer", "return",
             "nil cause"}
  /\ path \in {"none", "splice", "wait", "vectorised", "batch", "pool"}
  /\ n \in Nat /\ arrived \in 0 .. MaxUnits
  /\ closing \in {"no", "dropped", "closed"}

\* Every counter has counted every unit that passed it, once: whether it was
\* unwrapped before the first unit, after a handshake, or never, whichever
\* loop copied the unit, and although cached units below a counter pass it
\* and those above it do not.
CountedOnce ==
  pc \in {"unwrap", "session", "path", "read"} =>
    /\ \A l \in DOMAIN countedRead :
         countedRead[l] = Cardinality({i \in DOMAIN delivered : delivered[i][1] > l})
    /\ \A l \in DOMAIN countedWrite : countedWrite[l] = Len(delivered)

\* CountedOnce, with the types of the variables.
PathInv == PathTypeOK /\ CountedOnce

\* The destination gets what the outermost layer holds first, and what the
\* connection sends last, without gaps and repetitions, until the source is
\* closed (Close drops a buffer while the connection can still be read).
Earlier(u, v) == u[1] < v[1] \/ (u[1] = v[1] /\ u[2] < v[2])
All(l) == IF l = Socket(source) THEN MaxUnits ELSE CachedUnits
Expected ==
  {<<l, i>> : l \in DOMAIN buffer \cup {Socket(source)}, i \in 1 .. MaxUnits + Cached}
Forwarded ==
  closing = "no" =>
    LET got == delivered \o (IF pc = "transfer" THEN << >> ELSE held)
    IN \A i \in DOMAIN got :
         {got[j] : j \in 1 .. i - 1} =
           {u \in Expected : u[2] <= All(u[1]) /\ Earlier(u, got[i])}

\* The result is what was delivered; Copy leaves out what it took over from
\* caches before its loop.
ResultIsDelivered ==
  Len(delivered) = n + (IF packets THEN 0 ELSE handed)

\* The units arrive in order, and the caller is told how many.
UnitsForwarded == Forwarded /\ ResultIsDelivered

\* E.Cause is never given a nil error.
NeverNilCause == pc # "nil cause"
=============================================================================
