------------------------------- MODULE Deadline -------------------------------
(***************************************************************************)
(* pipe.Deadline (src/common/pipe/pipe.go), and its private copy           *)
(* pipeDeadline (src/common/bufio/deadline/pipe.go), which is the same     *)
(* code: a mutex, a timer, and a channel that is closed when the deadline  *)
(* is exceeded.                                                            *)
(*                                                                         *)
(* The timer's callback runs in a goroutine of its own and does not take   *)
(* the mutex: it evaluates d.cancel and closes what it found.  Set must    *)
(* therefore make sure that no callback is under way when it looks at      *)
(* d.cancel, or replaces it.  Closing a closed channel panics.             *)
(***************************************************************************)
EXTENDS Naturals

CONSTANTS Setters,   \* goroutines that call Set
          Waiters,   \* goroutines that call Wait and block on the channel
          MaxMade,   \* bound: how many timers and channels Set makes
          NoSetter,  \* d.mu is not held
          NilRef     \* d.timer is nil, or a goroutine has no channel

ASSUME DeadlineAssumption ==
  /\ NoSetter \notin Setters
  /\ NilRef \notin Nat
  /\ MaxMade \in Nat

VARIABLES mu,        \* the Set that holds d.mu, or NoSetter
          timer,     \* d.timer: the number of the timer, or NilRef
          cancel,    \* d.cancel: the number of the channel
          closed,    \* channels that were closed
          armed,     \* timers the runtime has yet to expire
          fired,     \* timers whose callback has started
          loaded,    \* callbacks that have evaluated d.cancel: the channel
          timers,    \* how many timers were made
          pc,        \* where each Setter is
          arg,       \* the time it was given
          heldCh,    \* the channel a Waiter got from Wait
          setting,   \* history: what the last completed Set asked for
          panicked   \* history: a closed channel was closed again

deadlineVars == <<mu, timer, cancel, closed, armed, fired, loaded, timers, pc, arg,
                  heldCh, setting, panicked>>

\* What time.IsZero and time.Until tell Set about its argument.
Times == {"zero", "future", "past"}

DeadlineTypeOK ==
  /\ mu \in Setters \cup {NoSetter}
  /\ timer \in Nat \cup {NilRef}
  /\ cancel \in Nat
  /\ closed \in SUBSET Nat
  /\ armed \in SUBSET Nat
  /\ fired \in SUBSET Nat
  /\ loaded \in [fired -> Nat \cup {NilRef}]
  /\ timers \in Nat
  /\ pc \in [Setters -> {"idle", "stop", "await", "apply"}]
  /\ arg \in [Setters -> Times]
  /\ heldCh \in [Waiters -> Nat \cup {NilRef}]
  /\ setting \in Times
  /\ panicked \in BOOLEAN

DeadlineInit ==
  /\ mu = NoSetter
  /\ timer = NilRef
  /\ cancel = 0
  /\ closed = {}
  /\ armed = {}
  /\ fired = {}
  /\ loaded = [t \in {} |-> NilRef]
  /\ timers = 0
  /\ pc = [s \in Setters |-> "idle"]
  /\ arg = [s \in Setters |-> "zero"]
  /\ heldCh = [w \in Waiters |-> NilRef]
  /\ setting = "zero"
  /\ panicked = FALSE

-----------------------------------------------------------------------------
\* close(c): a panic when c is closed already.
CloseChan(c) ==
  /\ panicked' = (panicked \/ c \in closed)
  /\ closed' = closed \cup {c}

\* Set(t): d.mu.Lock().
SetLock(s, t) ==
  /\ pc[s] = "idle"
  /\ mu = NoSetter
  /\ timers + cancel < MaxMade
  /\ mu' = s
  /\ arg' = [arg EXCEPT ![s] = t]
  /\ pc' = [pc EXCEPT ![s] = "stop"]
  /\ UNCHANGED <<timer, cancel, closed, armed, fired, loaded, timers, heldCh,
                 setting, panicked>>

\* Mutations: Set does not wait for a callback under way; Set forgets to stop
\* the old timer; Set waits for the callback of a timer that it stopped.
SetStopNoWait(s) ==
  /\ pc[s] = "stop"
  /\ armed' = armed \ {timer}
  /\ pc' = [pc EXCEPT ![s] = "apply"]
  /\ UNCHANGED <<mu, timer, cancel, closed, fired, loaded, timers, arg, heldCh,
                 setting, panicked>>
SetStopForgotten(s) ==
  /\ pc[s] = "stop"
  /\ pc' = [pc EXCEPT ![s] = "apply"]
  /\ UNCHANGED <<mu, timer, cancel, closed, armed, fired, loaded, timers, arg,
                 heldCh, setting, panicked>>

\* if d.timer != nil && !d.timer.Stop(): Stop is true when the timer was
\* still armed, and then its callback never runs.
SetStop(s) ==
  /\ pc[s] = "stop"
  /\ armed' = armed \ {timer}
  /\ pc' = [pc EXCEPT ![s] =
              IF timer = NilRef \/ timer \in armed THEN "apply" ELSE "await"]
  /\ UNCHANGED <<mu, timer, cancel, closed, fired, loaded, timers, arg, heldCh,
                 setting, panicked>>

\* <-d.cancel: wait for the callback to close the channel.
SetAwait(s) ==
  /\ pc[s] = "await"
  /\ cancel \in closed
  /\ pc' = [pc EXCEPT ![s] = "apply"]
  /\ UNCHANGED <<mu, timer, cancel, closed, armed, fired, loaded, timers, arg,
                 heldCh, setting, panicked>>

\* Mutations: a new channel although waiters hold the open one; the timer is
\* recorded but never started.
RefreshedCancelAlways == cancel + 1
AfterFuncNotStarted ==
  /\ timers' = timers + 1
  /\ timer' = timers
  /\ UNCHANGED armed

\* d.timer = time.AfterFunc(dur, ...)
AfterFunc ==
  /\ timers' = timers + 1
  /\ timer' = timers
  /\ armed' = armed \cup {timers}

\* The channel Set leaves behind when it refreshes the deadline: a new one
\* only if the old one is closed.
RefreshedCancel == IF cancel \in closed THEN cancel + 1 ELSE cancel

\* The rest of Set, from d.timer = nil to the deferred unlock.
SetApply(s) ==
  /\ pc[s] = "apply"
  /\ \/ /\ arg[s] = "zero"
        /\ timer' = NilRef
        /\ cancel' = RefreshedCancel
        /\ UNCHANGED <<closed, armed, timers, panicked>>
     \/ /\ arg[s] = "future"
        /\ cancel' = RefreshedCancel
        /\ AfterFunc
        /\ UNCHANGED <<closed, panicked>>
     \/ /\ arg[s] = "past"
        /\ timer' = NilRef
        /\ IF cancel \in closed THEN UNCHANGED <<closed, panicked>>
                                ELSE CloseChan(cancel)
        /\ UNCHANGED <<cancel, armed, timers>>
  /\ setting' = arg[s]
  /\ mu' = NoSetter
  /\ pc' = [pc EXCEPT ![s] = "idle"]
  /\ UNCHANGED <<fired, loaded, arg, heldCh>>

-----------------------------------------------------------------------------
\* The runtime expires timer t: its callback goroutine starts, and Stop
\* returns false from now on.
TimerExpires(t) ==
  /\ t \in armed
  /\ armed' = armed \ {t}
  /\ fired' = fired \cup {t}
  /\ loaded' = [u \in fired \cup {t} |-> IF u = t THEN NilRef ELSE loaded[u]]
  /\ UNCHANGED <<mu, timer, cancel, closed, timers, pc, arg, heldCh,
                 setting, panicked>>

\* The callback evaluates d.cancel, without the mutex.
CallbackLoads(t) ==
  /\ t \in fired
  /\ loaded[t] = NilRef
  /\ loaded' = [loaded EXCEPT ![t] = cancel]
  /\ UNCHANGED <<mu, timer, cancel, closed, armed, fired, timers, pc, arg,
                 heldCh, setting, panicked>>

\* ... and closes it.
CallbackCloses(t) ==
  /\ t \in fired
  /\ loaded[t] # NilRef
  /\ CloseChan(loaded[t])
  /\ fired' = fired \ {t}
  /\ loaded' = [u \in fired \ {t} |-> loaded[u]]
  /\ UNCHANGED <<mu, timer, cancel, armed, timers, pc, arg, heldCh,
                 setting>>

\* Wait(): the caller blocks on the channel it was given.
Wait(w) ==
  /\ heldCh[w] = NilRef
  /\ mu = NoSetter
  /\ heldCh' = [heldCh EXCEPT ![w] = cancel]
  /\ UNCHANGED <<mu, timer, cancel, closed, armed, fired, loaded, timers, pc,
                 arg, setting, panicked>>

\* isClosedChan: the channel can be received from.
isClosedChan(c) == c \in closed

\* <-d.Wait() returns.
Woken(w) ==
  /\ heldCh[w] # NilRef
  /\ isClosedChan(heldCh[w])
  /\ heldCh' = [heldCh EXCEPT ![w] = NilRef]
  /\ UNCHANGED <<mu, timer, cancel, closed, armed, fired, loaded, timers, pc,
                 arg, setting, panicked>>

SetStep(s) == SetStop(s) \/ SetAwait(s) \/ SetApply(s)

Callback(t) == CallbackLoads(t) \/ CallbackCloses(t)

DeadlineNext ==
  \/ \E s \in Setters, t \in Times : SetLock(s, t)
  \/ \E s \in Setters : SetStep(s)
  \/ \E t \in armed : TimerExpires(t)
  \/ \E t \in fired : Callback(t)
  \/ \E w \in Waiters : Wait(w) \/ Woken(w)

\* A goroutine that can run runs, and an armed timer expires: the Go
\* scheduler and the runtime's timers.  Nobody has to call Set or Wait.
DeadlineFairness ==
  /\ \A s \in Setters : WF_deadlineVars(SetStep(s))
  /\ WF_deadlineVars(\E t \in armed : TimerExpires(t))
  /\ WF_deadlineVars(\E t \in fired : Callback(t))
  /\ \A w \in Waiters : WF_deadlineVars(Woken(w))

DeadlineSpec == DeadlineInit /\ [][DeadlineNext]_deadlineVars

DeadlineFairSpec == DeadlineSpec /\ DeadlineFairness

-----------------------------------------------------------------------------
\* Set is between d.timer.Stop() and its end: d.timer is about to be dropped.
Dropping == \E s \in Setters : pc[s] = "apply"

\* The parts of the inductive invariant.
MutexHeld == \A s \in Setters : pc[s] # "idle" <=> mu = s

OnlyTheTimerRuns ==
  /\ armed \cap fired = {}
  /\ \A t \in armed \cup fired : t = timer /\ ~isClosedChan(cancel)
  /\ \A t \in fired : loaded[t] \in {NilRef, cancel}

TimerSpent ==
  timer # NilRef /\ timer \notin armed \cup fired /\ ~Dropping
    => isClosedChan(cancel)

NothingRunsWhenDropping == Dropping => armed = {} /\ fired = {}

AwaitsAStartedCallback ==
  \A s \in Setters : pc[s] = "await" => timer # NilRef /\ timer \notin armed

ChannelsInOrder ==
  /\ \A c \in closed : c <= cancel
  /\ \A c \in 0 .. cancel : c = cancel \/ c \in closed

SettingInForce ==
  ~Dropping =>
    /\ setting = "zero" => timer = NilRef /\ ~isClosedChan(cancel)
    /\ setting = "future" => timer # NilRef
    /\ setting = "past" => isClosedChan(cancel)

HeldInOrder == \A w \in Waiters : heldCh[w] # NilRef => heldCh[w] <= cancel

\* No behaviour of the code closes a channel twice: the callback that runs
\* without d.mu and the Set that closes, or replaces, d.cancel never meet on
\* the same channel (Set, lines 38-39 and 64-66).
NoDoubleClose == ~panicked

\* While no Set is under way the deadline is exceeded only if the last Set
\* asked for it: never after Set of the zero time, and after Set of a future
\* time only once that very timer has expired, however late the callbacks of
\* the timers that earlier Sets replaced have run.
NoSpuriousTimeout ==
  mu = NoSetter /\ isClosedChan(cancel) =>
    /\ setting # "zero"
    /\ setting = "future" => timer \notin armed \cup fired

\* Set abandons a channel only when it is closed, so a goroutine that blocks
\* on what Wait returned is woken by the deadline in force, or was woken.
NoLostWaiter ==
  \A w \in Waiters :
    heldCh[w] # NilRef => heldCh[w] = cancel \/ isClosedChan(heldCh[w])

DeadlineInv ==
  /\ DeadlineTypeOK
  /\ MutexHeld
  /\ OnlyTheTimerRuns
  /\ TimerSpent
  /\ NothingRunsWhenDropping
  /\ AwaitsAStartedCallback
  /\ ChannelsInOrder
  /\ SettingInForce
  /\ HeldInOrder
  /\ NoDoubleClose

\* Every Set returns: the wait for the callback, <-d.cancel with d.mu held,
\* cannot block for ever.
SetReturns == \A s \in Setters : pc[s] # "idle" ~> pc[s] = "idle"

\* A goroutine that waits while a timer is pending is woken, unless another
\* Set intervenes.
WaiterWoken ==
  \A w \in Waiters :
    (heldCh[w] # NilRef /\ timer # NilRef) ~> (heldCh[w] = NilRef \/ mu # NoSetter)

\* Neither a Set nor a goroutine on the channel it was given waits for ever.
DeadlineLive == SetReturns /\ WaiterWoken

\* What the users of a deadline rely on: see AbstractDeadline.
Abstract ==
  INSTANCE AbstractDeadline
    WITH epoch <- cancel,
         exceeded <- isClosedChan(cancel),
         pending <- timer # NilRef /\ ~isClosedChan(cancel)

\* pipe.Deadline implements the abstract deadline.
ImplementsAbstract == Abstract!Spec
=============================================================================
