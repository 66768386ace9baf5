----------------------------- MODULE IdleTimeout ------------------------------
(***************************************************************************)
(* canceler (src/common/canceler): a packet connection that is cancelled   *)
(* when nothing was read or written for a time.  A TimeoutPacketConn looks *)
(* whenever a read runs into its deadline; where the connection has no     *)
(* read deadline, a TimerPacketConn restarts a timer at each packet.  One  *)
(* goroutine reads, one writes, and a third may shorten the timeout.       *)
(***************************************************************************)
EXTENDS Naturals

CONSTANTS FirstTimeout, ShorterTimeout,
          MaxNow        \* bound

ASSUME IdleAssumption ==
  /\ FirstTimeout \in Nat /\ ShorterTimeout \in 1 .. FirstTimeout /\ MaxNow \in Nat

Off == MaxNow + 2 * FirstTimeout + 1   \* a timer that is stopped, a time that never was

VARIABLES
  hasDeadline,  \* the connection has a read deadline: it is a TimeoutPacketConn
  now, timeout,
  due,          \* of the read's deadline, or of the timer
  active,       \* c.active; of a TimerPacketConn, when a packet was last read or written
  reader,       \* "call", "arm", "waiting", "update", "reset", "ended"
  armed,        \* the deadline that the reader has computed and not yet set
  writer,       \* "idle", "update", "reset"
  setter,       \* "idle", "set", "reset", "done"
  idleCancelled

idleVars == <<hasDeadline, now, timeout, due, active, reader, armed, writer, setter, idleCancelled>>

\* NewPacketConn: NewTimeoutPacketConn, or a TimerPacketConn with its Instance
IdleInit ==
  /\ hasDeadline \in BOOLEAN /\ now = 0 /\ timeout = FirstTimeout
  /\ due = (IF hasDeadline THEN Off ELSE FirstTimeout)
  /\ active = Off /\ reader = "call" /\ armed = Off
  /\ writer = "idle" /\ setter = "idle" /\ idleCancelled = FALSE

\* Update, first half: Stop says whether the timer was running.  next is what
\* the caller does then, and rest what it does when the timer was not.
StopTimer(next, rest) == IF due # Off THEN due' = Off /\ next ELSE rest /\ UNCHANGED due

\* Mutation: the timer is stopped and left so.
ResetNothing == UNCHANGED due

\* Update, second half.  Reset of a stopped timer says FALSE: so does Update.
ResetTimer == due' = now + timeout

\* TimeoutPacketConn.ReadPacket: the deadline of a read.
ReadBegins ==
  /\ reader = "call"
  /\ IF hasDeadline THEN reader' = "arm" /\ armed' = now + timeout
     ELSE reader' = "waiting" /\ UNCHANGED armed
  /\ UNCHANGED <<hasDeadline, now, timeout, due, active, writer, setter, idleCancelled>>
ReadArms ==
  /\ reader = "arm" /\ reader' = "waiting" /\ due' = armed /\ armed' = Off
  /\ UNCHANGED <<hasDeadline, now, timeout, active, writer, setter, idleCancelled>>

\* A packet is read: active, or Update of the timer; the caller reads again.
ReadPacket ==
  /\ reader = "waiting" /\ ~idleCancelled
  /\ reader' = IF hasDeadline THEN "call" ELSE "update"
  /\ active' = now
  /\ UNCHANGED <<hasDeadline, now, timeout, due, armed, writer, setter, idleCancelled>>
ReaderUpdates ==
  /\ reader = "update" /\ StopTimer(reader' = "reset", reader' = "call")
  /\ UNCHANGED <<hasDeadline, now, timeout, active, armed, writer, setter, idleCancelled>>
ReaderResets ==
  /\ reader = "reset" /\ ResetTimer /\ reader' = "call"
  /\ UNCHANGED <<hasDeadline, now, timeout, active, armed, writer, setter, idleCancelled>>

Idle == active = Off \/ now - active > timeout

\* The read runs into its deadline: idle for too long, or once more.
ReadTimesOut ==
  /\ hasDeadline /\ reader = "waiting" /\ due # Off /\ now >= due
  /\ IF Idle THEN idleCancelled' = TRUE /\ reader' = "ended"
     ELSE reader' = "call" /\ UNCHANGED idleCancelled
  /\ UNCHANGED <<hasDeadline, now, timeout, due, active, armed, writer, setter>>

\* WritePacket
Write ==
  /\ writer = "idle" /\ ~idleCancelled
  /\ writer' = IF hasDeadline THEN "idle" ELSE "update"
  /\ active' = now
  /\ UNCHANGED <<hasDeadline, now, timeout, due, reader, armed, setter, idleCancelled>>
WriterUpdates ==
  /\ writer = "update" /\ StopTimer(writer' = "reset", writer' = "idle")
  /\ UNCHANGED <<hasDeadline, now, timeout, active, reader, armed, setter, idleCancelled>>
WriterResets ==
  /\ writer = "reset" /\ ResetTimer /\ writer' = "idle"
  /\ UNCHANGED <<hasDeadline, now, timeout, active, reader, armed, setter, idleCancelled>>

\* NewPacketConn of a connection that is one already: SetTimeout, when the
\* timeout is shorter.
SetTimeoutBegins ==
  /\ setter = "idle" /\ setter' = "set" /\ timeout' = ShorterTimeout
  /\ UNCHANGED <<hasDeadline, now, due, active, reader, armed, writer, idleCancelled>>
SetTimeoutSets ==
  /\ setter = "set"
  /\ IF hasDeadline THEN due' = now /\ setter' = "done" ELSE StopTimer(setter' = "reset", setter' = "done")
  /\ UNCHANGED <<hasDeadline, now, timeout, active, reader, armed, writer, idleCancelled>>
SetTimeoutResets ==
  /\ setter = "reset" /\ ResetTimer /\ setter' = "done"
  /\ UNCHANGED <<hasDeadline, now, timeout, active, reader, armed, writer, idleCancelled>>

\* wait: the timer, and CloseWithError
TimerFires ==
  /\ ~hasDeadline /\ due # Off /\ now >= due
  /\ due' = Off /\ idleCancelled' = TRUE
  /\ UNCHANGED <<hasDeadline, now, timeout, active, reader, armed, writer, setter>>

\* Time goes on when nothing is due and no goroutine is in the middle of it.
IdleTick ==
  /\ now < MaxNow /\ now' = now + 1
  /\ reader \in {"waiting", "ended"} /\ writer = "idle" /\ setter \in {"idle", "done"}
  /\ due = Off \/ now < due
  /\ UNCHANGED <<hasDeadline, timeout, due, active, reader, armed, writer, setter, idleCancelled>>

IdleNext ==
  \/ ReadBegins \/ ReadArms \/ ReadPacket \/ ReaderUpdates \/ ReaderResets \/ ReadTimesOut
  \/ Write \/ WriterUpdates \/ WriterResets
  \/ SetTimeoutBegins \/ SetTimeoutSets \/ SetTimeoutResets
  \/ TimerFires \/ IdleTick
IdleSpec == IdleInit /\ [][IdleNext]_idleVars

-----------------------------------------------------------------------------
Since(t) == IF t = Off THEN now ELSE now - t

\* A connection on which nothing happens is cancelled: a timer's after the
\* timeout, one with a deadline after at most twice the time, because its
\* reads look only when they run into theirs, and so a timer's that SetTimeout
\* has restarted.  No order of a read, a write and
\* SetTimeout leaves the timer stopped or the read without a deadline; a
\* shorter timeout may take effect late, when the reader has already computed
\* its next deadline.
IdleEnds ==
  ~idleCancelled => Since(active) <= IF hasDeadline \/ setter # "idle" THEN 2 * FirstTimeout ELSE FirstTimeout
=============================================================================
