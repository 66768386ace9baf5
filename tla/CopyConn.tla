------------------------------- MODULE CopyConn -------------------------------
(***************************************************************************)
(* bufio.CopyConn and CopyPacketConn (src/common/bufio/copy.go): two tasks *)
(* of a task.Group, one per direction, copy until the end of their source, *)
(* and pass that end on: a half-close where the destination can do one, a  *)
(* Close otherwise or after an error.  The group's cleanup closes both     *)
(* connections.                                                            *)
(*                                                                         *)
(* A buffer is one unit of data.  The copy loop is the same in the paths   *)
(* of copy.go and copy_direct.go (read into a pool buffer, wait for a      *)
(* buffer, batches): read, write, count.                                   *)
(***************************************************************************)
EXTENDS TaskGroup

CONSTANTS Duplex,      \* connections that implement N.WriteCloser
          Reporters,   \* connections that implement N.HandshakeFailure
          MaxUpload,   \* bounds: buffers that the peers send
          MaxDownload

Conns == {"source", "destination"}

\* Neither function calls group.Concurrency.
ASSUME CopyAssumption ==
  /\ Tasks = {"upload", "download"} /\ Limit = 0
  /\ Duplex \subseteq Conns
  /\ Reporters \subseteq Conns
  /\ MaxUpload \in Nat /\ MaxDownload \in Nat

MaxSent == IF MaxUpload > MaxDownload THEN MaxUpload ELSE MaxDownload

VARIABLES cpc,         \* where the copy of each direction is
          notFirstTime,
          cerr,        \* it ended with an error
          sent, eof,   \* what the peer of each connection sent; it is done
          broken,      \* the peer has reset the connection
          taken,       \* what was read from it
          written,     \* what was written to it
          open,        \* it has not been closed on this side
          closedWrite  \* CloseWrite was called

connVars == <<taken, written, open, closedWrite>>
copyVars == <<cpc, notFirstTime, cerr>>
peerVars == <<sent, eof, broken>>
vars == <<groupVars, connVars, copyVars, peerVars>>

\* CopyPacketConn, the one of the two that calls group.FastFail(): packets
\* have no end of stream and no half-close.
Packets == fastFail

From(d) == IF d = "upload" THEN "source" ELSE "destination"
To(d) == IF d = "upload" THEN "destination" ELSE "source"

CopyTypeOK ==
  /\ cpc \in [Tasks -> {"read", "write", "close", "return"}]
  /\ notFirstTime \in [Tasks -> BOOLEAN] /\ cerr \in [Tasks -> BOOLEAN]
  /\ sent \in [Conns -> 0 .. MaxSent] /\ eof \in [Conns -> BOOLEAN]
  /\ broken \in [Conns -> BOOLEAN]
  /\ taken \in [Conns -> 0 .. MaxSent] /\ written \in [Conns -> 0 .. MaxSent]
  /\ open \in [Conns -> BOOLEAN] /\ closedWrite \in [Conns -> BOOLEAN]

CopyInit ==
  /\ Init
  /\ cpc = [d \in Tasks |-> "read"]
  /\ notFirstTime = [d \in Tasks |-> FALSE] /\ cerr = [d \in Tasks |-> FALSE]
  /\ sent = [c \in Conns |-> 0] /\ eof = [c \in Conns |-> FALSE]
  /\ broken = [c \in Conns |-> FALSE]
  /\ taken = [c \in Conns |-> 0] /\ written = [c \in Conns |-> 0]
  /\ open = [c \in Conns |-> TRUE] /\ closedWrite = [c \in Conns |-> FALSE]

-----------------------------------------------------------------------------
Works(c) == open[c] /\ ~broken[c]

CopyEnds(d, err) ==
  /\ cpc' = [cpc EXCEPT ![d] = "close"]
  /\ cerr' = [cerr EXCEPT ![d] = err]
  /\ UNCHANGED <<notFirstTime, groupVars, connVars, peerVars>>

\* source.ReadBuffer, and its relatives: data ...
ReadBuffer(d) ==
  /\ tpc[d] = "run" /\ cpc[d] = "read"
  /\ Works(From(d)) /\ taken[From(d)] < sent[From(d)]
  /\ taken' = [taken EXCEPT ![From(d)] = @ + 1]
  /\ cpc' = [cpc EXCEPT ![d] = "write"]
  /\ UNCHANGED <<groupVars, notFirstTime, cerr, written, open, closedWrite, peerVars>>

\* ... io.EOF, which is an end without error for a stream ...
ReadEOF(d) ==
  /\ tpc[d] = "run" /\ cpc[d] = "read"
  /\ Works(From(d)) /\ eof[From(d)] /\ taken[From(d)] = sent[From(d)]
  /\ CopyEnds(d, Packets)

\* Mutation: every failed read is taken for the end of the stream.
ReadFailsSilently(d) ==
  /\ tpc[d] = "run" /\ cpc[d] = "read"
  /\ ~Works(From(d))
  /\ CopyEnds(d, FALSE)

\* ... or another error.
ReadFails(d) ==
  /\ tpc[d] = "run" /\ cpc[d] = "read"
  /\ ~Works(From(d))
  /\ CopyEnds(d, TRUE)

\* destination.WriteBuffer, and session.Transfer: when it says that a
\* handshake is completed, the copy starts over with the unwrapped
\* connections, and a stream loop has not written anything yet.
WriteBuffer(d) ==
  /\ tpc[d] = "run" /\ cpc[d] = "write"
  /\ Works(To(d))
  /\ written' = [written EXCEPT ![To(d)] = @ + 1]
  /\ \E completed \in BOOLEAN :
       notFirstTime' = [notFirstTime EXCEPT ![d] = Packets \/ ~completed]
  /\ cpc' = [cpc EXCEPT ![d] = "read"]
  /\ UNCHANGED <<groupVars, cerr, taken, open, closedWrite, peerVars>>

\* N.ReportHandshakeFailure returns nil when the source has no handshake to
\* fail; the loops for streams return that in place of the error of their
\* first write, the ones for packets keep the error.
FirstWriteErr(d) == Packets \/ From(d) \in Reporters

\* ... or its error.  The first buffer may be one that the source had cached:
\* Copy writes it before the loop and keeps the error of that write.
WriteFails(d) ==
  /\ tpc[d] = "run" /\ cpc[d] = "write"
  /\ ~Works(To(d))
  /\ \E cached \in BOOLEAN :
       /\ cached => taken[From(d)] = 1
       /\ CopyEnds(d, cached \/ notFirstTime[d] \/ FirstWriteErr(d))

\* Mutation: no half-close.
FinishCloses(d) ==
  /\ tpc[d] = "run" /\ cpc[d] = "close"
  /\ open' = IF Packets THEN open ELSE [open EXCEPT ![To(d)] = FALSE]
  /\ cpc' = [cpc EXCEPT ![d] = "return"]
  /\ UNCHANGED <<groupVars, notFirstTime, cerr, taken, written, closedWrite, peerVars>>

\* The rest of the task's function: how the end is passed on.
Finish(d) ==
  /\ tpc[d] = "run" /\ cpc[d] = "close"
  /\ \/ /\ Packets
        /\ UNCHANGED <<open, closedWrite>>
     \/ /\ ~Packets /\ To(d) \in Duplex /\ ~cerr[d]
        /\ closedWrite' = [closedWrite EXCEPT ![To(d)] = TRUE]
        /\ UNCHANGED open
     \/ /\ ~Packets /\ (To(d) \notin Duplex \/ cerr[d])
        /\ open' = [open EXCEPT ![To(d)] = FALSE]
        /\ UNCHANGED closedWrite
  /\ cpc' = [cpc EXCEPT ![d] = "return"]
  /\ UNCHANGED <<groupVars, notFirstTime, cerr, taken, written, peerVars>>

Return(d) ==
  /\ cpc[d] = "return"
  /\ TaskReturns(d, cerr[d])
  /\ UNCHANGED <<connVars, copyVars, peerVars>>

\* Mutation: the cleanup forgets one side.
CleanupOne ==
  /\ Cleanup
  /\ open' = [open EXCEPT !["source"] = FALSE]
  /\ UNCHANGED <<taken, written, closedWrite, copyVars, peerVars>>

\* group.Cleanup: common.Close(source, destination).
CleanupClosesBoth ==
  /\ Cleanup
  /\ open' = [c \in Conns |-> FALSE]
  /\ UNCHANGED <<taken, written, closedWrite, copyVars, peerVars>>

\* The steps of the group that do not touch the connections.
InGroup(A) == A /\ UNCHANGED <<connVars, copyVars, peerVars>>

\* The peers: they send, finish sending, or reset the connection.
PeerSends(c) ==
  /\ sent[c] < (IF c = "source" THEN MaxUpload ELSE MaxDownload)
  /\ ~eof[c] /\ ~broken[c]
  /\ sent' = [sent EXCEPT ![c] = @ + 1]
  /\ UNCHANGED <<groupVars, connVars, copyVars, eof, broken>>
PeerFinishes(c) ==
  /\ ~eof[c] /\ ~broken[c]
  /\ eof' = [eof EXCEPT ![c] = TRUE]
  /\ UNCHANGED <<groupVars, connVars, copyVars, sent, broken>>
PeerResets(c) ==
  /\ ~broken[c]
  /\ broken' = [broken EXCEPT ![c] = TRUE]
  /\ UNCHANGED <<groupVars, connVars, copyVars, sent, eof>>

CopyStep(d) ==
  \/ ReadBuffer(d) \/ ReadEOF(d) \/ ReadFails(d) \/ WriteBuffer(d) \/ WriteFails(d)
  \/ Finish(d) \/ Return(d)

CopyNext ==
  \/ \E d \in Tasks : CopyStep(d) \/ InGroup(GroupStep(d))
  \/ InGroup(RunStep) \/ CleanupClosesBoth
  \/ InGroup(CtxCancel) \/ InGroup(CtxPropagates)
  \/ \E c \in Conns : PeerSends(c) \/ PeerFinishes(c) \/ PeerResets(c)

\* What a direction does without waiting for the peers, ...
CopyGoesOn(d) ==
  \/ ReadBuffer(d) \/ ReadEOF(d) \/ ReadFails(d) \/ WriteFails(d) \/ Finish(d) \/ Return(d)

\* ... and the goroutines run.  The peers owe nothing: a Read may wait for
\* ever for data, and a Write for a peer that reads, unless the connection is
\* closed or broken.
CopyFairness ==
  /\ \A d \in Tasks : WF_vars(CopyGoesOn(d) \/ InGroup(GroupStep(d)))
  /\ WF_vars(InGroup(RunStep) \/ CleanupClosesBoth)
  /\ WF_vars(InGroup(CtxPropagates))

CopySpec == CopyInit /\ [][CopyNext]_vars /\ CopyFairness

-----------------------------------------------------------------------------
\* The one error that is not reported: see FirstWriteErr.
Unreported(d) ==
  From(d) \notin Reporters /\ ~notFirstTime[d] /\ ~Works(To(d))

\* The end of a stream is passed on only after all of it, and only when the
\* peer really finished: a half-close never cuts data off, except on a
\* connection whose first write failed unreported.
HalfCloseAfterData ==
  \A d \in Tasks :
    closedWrite[To(d)] =>
      (eof[From(d)] /\ written[To(d)] = sent[From(d)]) \/ Unreported(d)

\* A direction that ends does not take the other one with it, unless it ended
\* with an error, the caller cancelled, or its destination knows no
\* half-close.
HalfCloseKeepsReverse ==
  \A c \in Conns :
    ~open[c] =>
      \/ ctxDone
      \/ Unfinished = {}
      \/ \E d \in Tasks : cerr[d] \/ (To(d) \notin Duplex /\ cpc[d] = "return")

\* A half-close neither cuts its own direction short nor ends the other one.
HalfCloses == CopyTypeOK /\ HalfCloseAfterData /\ HalfCloseKeepsReverse

\* CopyConn returns nil only if everything that either peer sent before its
\* end of stream was written to the other, with the same exception.
NilMeansForwarded ==
  runResult = "nil" =>
    \A d \in Tasks : written[To(d)] = sent[From(d)] \/ Unreported(d)

\* Both connections are closed, and CopyConn has returned.
BothEnded == rpc = "returned" /\ \A c \in Conns : ~open[c]

\* A Write of this direction waits for its peer to read.
WriteWaits(d) == cpc[d] = "write" /\ Works(To(d))

\* A cancelled ctx, and for packets an error in one direction, end both,
\* although the other one may be blocked for ever, in a Read or in a Write.
\* For streams an error does so too, unless the other direction comes to wait
\* for its peer in a Write: the error closes one connection, and a peer of
\* the other one that does not read holds that Write for ever.  When CopyConn
\* has returned, both connections are closed.
FailureEndsBoth ==
  (failed # {} \/ ctxDone)
    ~> (BothEnded \/ (~Packets /\ ~ctxDone /\ \E d \in Tasks : WriteWaits(d)))
=============================================================================
