---------------------------- MODULE DeadlineProofs ----------------------------
(***************************************************************************)
(* pipe.Deadline for any number of goroutines, timers and channels.        *)
(*                                                                         *)
(* The invariant says where a callback can be.  At most one timer exists   *)
(* outside Set, d.timer, and while it is armed, or its callback runs, the  *)
(* channel in force is open and is the only one the callback can close.    *)
(* Set gives the timer up only after Stop succeeded or the channel was     *)
(* closed, and both leave nothing running.                                 *)
(***************************************************************************)
EXTENDS Deadline, TLAPS

\* The invariant holds of a deadline that MakeDeadline returned.
LEMMA InitInv == DeadlineInit => DeadlineInv
<1> SUFFICES ASSUME DeadlineInit
             PROVE  DeadlineInv
  OBVIOUS
<1> USE DeadlineAssumption DEF DeadlineInit
<1>1. DeadlineTypeOK
  BY DEF DeadlineTypeOK, Times
<1>2. MutexHeld /\ ~Dropping
  BY DEF MutexHeld, Dropping
<1>3. /\ OnlyTheTimerRuns
      /\ TimerSpent
      /\ NothingRunsWhenDropping
      /\ AwaitsAStartedCallback
  BY <1>2 DEF OnlyTheTimerRuns, TimerSpent, NothingRunsWhenDropping,
              AwaitsAStartedCallback
<1>4. ChannelsInOrder /\ SettingInForce /\ HeldInOrder /\ NoDoubleClose
  BY <1>2 DEF ChannelsInOrder, SettingInForce, HeldInOrder, NoDoubleClose,
              isClosedChan
<1> QED
  BY <1>1, <1>2, <1>3, <1>4 DEF DeadlineInv

\* The last part of Set keeps the invariant: nothing runs when it replaces,
\* closes or re-arms.
LEMMA ApplyInv ==
  ASSUME DeadlineInv, NEW s \in Setters, SetApply(s)
  PROVE  DeadlineInv'
<1> USE DeadlineAssumption
<1>1. armed = {} /\ fired = {}
  BY DEF DeadlineInv, NothingRunsWhenDropping, Dropping, SetApply
<1>2. /\ pc' = [r \in Setters |-> "idle"]
      /\ mu' = NoSetter
      /\ fired' = {}
      /\ UNCHANGED <<loaded, arg, heldCh>>
  <2>1. \A r \in Setters : r # s => pc[r] = "idle"
    BY DEF DeadlineInv, MutexHeld, SetApply
  <2> QED
    BY <1>1, <2>1 DEF SetApply, DeadlineInv, DeadlineTypeOK
<1>3. ~Dropping' /\ MutexHeld' /\ AwaitsAStartedCallback'
  BY <1>2 DEF Dropping, MutexHeld, AwaitsAStartedCallback
<1>4. /\ cancel' \in Nat /\ cancel <= cancel'
      /\ timer' \in Nat \cup {NilRef} /\ timers' \in Nat
      /\ armed' \in SUBSET Nat /\ closed' \in SUBSET Nat
      /\ setting' \in Times
  <2>1. /\ cancel \in Nat /\ timer \in Nat \cup {NilRef} /\ timers \in Nat
        /\ closed \in SUBSET Nat /\ arg[s] \in Times
    BY DEF DeadlineInv, DeadlineTypeOK
  <2>2. cancel' = cancel \/ cancel' = cancel + 1
    BY DEF SetApply, RefreshedCancel
  <2>3. \/ timer' = NilRef /\ timers' = timers /\ armed' = {}
        \/ timer' = timers /\ timers' = timers + 1 /\ armed' = {timers}
    BY <1>1 DEF SetApply, AfterFunc
  <2>4. closed' = closed \/ closed' = closed \cup {cancel}
    BY DEF SetApply, CloseChan
  <2>5. setting' = arg[s]
    BY DEF SetApply
  <2>6. cancel' \in Nat /\ cancel <= cancel'
    BY <2>1, <2>2
  <2>7. timer' \in Nat \cup {NilRef} /\ timers' \in Nat /\ armed' \in SUBSET Nat
    BY <2>1, <2>3
  <2> QED
    BY <2>1, <2>4, <2>5, <2>6, <2>7
<1>10. panicked' = FALSE
  <2>1. panicked = FALSE
    BY DEF DeadlineInv, DeadlineTypeOK, NoDoubleClose
  <2> QED
    BY <2>1, Zenon DEF SetApply, CloseChan
<1>5. DeadlineTypeOK'
  <2>1. loaded' \in [fired' -> Nat \cup {NilRef}]
    BY <1>1, <1>2 DEF DeadlineInv, DeadlineTypeOK
  <2> QED
    BY <1>2, <1>4, <1>10, <2>1 DEF DeadlineInv, DeadlineTypeOK
<1>6. /\ setting' = "zero" => timer' = NilRef /\ armed' = {} /\ cancel' \notin closed'
      /\ setting' = "future" => /\ timer' \in Nat /\ armed' = {timer'}
                               /\ cancel' \notin closed'
      /\ setting' = "past" => timer' = NilRef /\ armed' = {} /\ cancel' \in closed'
  <2>1. cancel + 1 \notin closed
    BY DEF DeadlineInv, DeadlineTypeOK, ChannelsInOrder
  <2> QED
    BY <1>1, <2>1 DEF SetApply, RefreshedCancel, AfterFunc, CloseChan, DeadlineInv,
                      DeadlineTypeOK
<1>7. OnlyTheTimerRuns' /\ TimerSpent' /\ NothingRunsWhenDropping' /\ SettingInForce'
  BY <1>2, <1>3, <1>5, <1>6
  DEF OnlyTheTimerRuns, TimerSpent, NothingRunsWhenDropping, SettingInForce,
      isClosedChan, DeadlineTypeOK, Times
<1>8. ChannelsInOrder'
  <2>0. /\ cancel \in Nat /\ closed \in SUBSET Nat
        /\ \A c \in closed : c <= cancel
        /\ \A c \in 0 .. cancel : c = cancel \/ c \in closed
    BY DEF DeadlineInv, DeadlineTypeOK, ChannelsInOrder
  <2>1. \/ cancel' = cancel /\ closed' = closed
        \/ cancel' = cancel /\ closed' = closed \cup {cancel}
        \/ cancel \in closed /\ cancel' = cancel + 1 /\ closed' = closed
    <3>1. CASE arg[s] = "past"
      BY <3>1 DEF SetApply, CloseChan
    <3>2. CASE arg[s] # "past"
      BY <3>2 DEF SetApply, RefreshedCancel
    <3> QED
      BY <3>1, <3>2
  <2>2. CASE cancel' = cancel /\ closed' = closed
    BY <2>0, <2>2 DEF ChannelsInOrder
  <2>3. CASE cancel' = cancel /\ closed' = closed \cup {cancel}
    BY <2>0, <2>3 DEF ChannelsInOrder
  <2>4. CASE cancel \in closed /\ cancel' = cancel + 1 /\ closed' = closed
    <3>1. \A c \in closed' : c <= cancel'
      BY <2>0, <2>4
    <3>2. ASSUME NEW c \in 0 .. cancel'
          PROVE  c = cancel' \/ c \in closed'
      BY <2>0, <2>4, <3>2
    <3> QED
      BY <3>1, <3>2 DEF ChannelsInOrder
  <2> QED
    BY <2>1, <2>2, <2>3, <2>4
<1>9. HeldInOrder'
  BY <1>2, <1>4 DEF DeadlineInv, DeadlineTypeOK, HeldInOrder
<1> QED
  BY <1>3, <1>5, <1>7, <1>8, <1>9, <1>10 DEF DeadlineInv, NoDoubleClose

\* A callback that closes a channel closes the one in force, which is open.
LEMMA CallbackInv ==
  ASSUME DeadlineInv, NEW t \in fired, CallbackCloses(t)
  PROVE  DeadlineInv'
<1> USE DeadlineAssumption
<1>1. t = timer /\ loaded[t] = cancel /\ cancel \notin closed
  BY DEF DeadlineInv, OnlyTheTimerRuns, CallbackCloses, isClosedChan
<1>2. armed = {} /\ fired = {t}
  BY <1>1 DEF DeadlineInv, OnlyTheTimerRuns
<1>3. ~Dropping
  BY <1>2 DEF DeadlineInv, NothingRunsWhenDropping
<1>4. /\ fired' = {} /\ armed' = {}
      /\ loaded' = [u \in {} |-> loaded[u]]
      /\ closed' = closed \cup {cancel}
      /\ panicked' = FALSE
      /\ UNCHANGED <<mu, timer, cancel, timers, pc, arg, heldCh, setting>>
  BY <1>1, <1>2 DEF CallbackCloses, CloseChan, DeadlineInv, NoDoubleClose
<1>5. DeadlineTypeOK'
  BY <1>4 DEF DeadlineInv, DeadlineTypeOK
<1>6. /\ ~Dropping' /\ MutexHeld' /\ AwaitsAStartedCallback'
      /\ NothingRunsWhenDropping' /\ OnlyTheTimerRuns' /\ TimerSpent'
  BY <1>2, <1>3, <1>4
  DEF DeadlineInv, Dropping, MutexHeld, AwaitsAStartedCallback,
      NothingRunsWhenDropping, OnlyTheTimerRuns, TimerSpent, isClosedChan
<1>7. ChannelsInOrder' /\ HeldInOrder'
  BY <1>4 DEF DeadlineInv, DeadlineTypeOK, ChannelsInOrder, HeldInOrder
<1>8. SettingInForce'
  BY <1>1, <1>2, <1>3, <1>4
  DEF DeadlineInv, DeadlineTypeOK, SettingInForce, Dropping, isClosedChan
<1> QED
  BY <1>4, <1>5, <1>6, <1>7, <1>8 DEF DeadlineInv, NoDoubleClose

\* Every step of Set, of the timers and of the waiters keeps the invariant.
LEMMA NextInv == DeadlineInv /\ [DeadlineNext]_deadlineVars => DeadlineInv'
<1> SUFFICES ASSUME DeadlineInv, [DeadlineNext]_deadlineVars
             PROVE  DeadlineInv'
  OBVIOUS
<1> USE DeadlineAssumption
<1> USE DEF DeadlineInv, DeadlineTypeOK, Times, MutexHeld, OnlyTheTimerRuns, TimerSpent,
            NothingRunsWhenDropping, AwaitsAStartedCallback, ChannelsInOrder,
            SettingInForce, HeldInOrder, NoDoubleClose, isClosedChan, Dropping,
            CloseChan
<1>1. ASSUME NEW s \in Setters, NEW t \in Times, SetLock(s, t)
      PROVE  DeadlineInv'
  BY <1>1 DEF SetLock
<1>2. ASSUME NEW s \in Setters, SetStop(s)
      PROVE  DeadlineInv'
  BY <1>2 DEF SetStop
<1>3. ASSUME NEW s \in Setters, SetAwait(s)
      PROVE  DeadlineInv'
  BY <1>3 DEF SetAwait
<1>4. ASSUME NEW s \in Setters, SetApply(s)
      PROVE  DeadlineInv'
  BY <1>4, ApplyInv
<1>5. ASSUME NEW t \in armed, TimerExpires(t)
      PROVE  DeadlineInv'
  BY <1>5 DEF TimerExpires
<1>6. ASSUME NEW t \in fired, CallbackLoads(t)
      PROVE  DeadlineInv'
  BY <1>6 DEF CallbackLoads
<1>7. ASSUME NEW t \in fired, CallbackCloses(t)
      PROVE  DeadlineInv'
  BY <1>7, CallbackInv
<1>8. ASSUME NEW w \in Waiters, Wait(w)
      PROVE  DeadlineInv'
  BY <1>8 DEF Wait
<1>9. ASSUME NEW w \in Waiters, Woken(w)
      PROVE  DeadlineInv'
  BY <1>9 DEF Woken
<1>10. CASE UNCHANGED deadlineVars
  BY <1>10 DEF deadlineVars
<1> QED
  BY <1>1, <1>2, <1>3, <1>4, <1>5, <1>6, <1>7, <1>8, <1>9, <1>10
     DEF DeadlineNext, SetStep, Callback

-----------------------------------------------------------------------------
\* pipe.Deadline keeps its invariant, the types of its fields included.
THEOREM Invariance == DeadlineSpec => []DeadlineInv
  BY InitInv, NextInv, PTL DEF DeadlineSpec

\* Neither Set nor a timer callback ever closes a closed channel.
THEOREM NeverClosesTwice == DeadlineSpec => []NoDoubleClose
<1>1. DeadlineInv => NoDoubleClose
  BY DEF DeadlineInv
<1> QED
  BY <1>1, Invariance, PTL

\* The deadline is exceeded only when the last Set asked for it.
THEOREM NeverSpurious == DeadlineSpec => []NoSpuriousTimeout
<1>1. DeadlineInv => NoSpuriousTimeout
  <2> SUFFICES ASSUME DeadlineInv, mu = NoSetter, isClosedChan(cancel)
               PROVE  /\ setting # "zero"
                      /\ setting = "future" => timer \notin armed \cup fired
    BY DEF NoSpuriousTimeout
  <2>1. ~Dropping
    BY DeadlineAssumption DEF DeadlineInv, MutexHeld, Dropping
  <2> QED
    BY <2>1 DEF DeadlineInv, SettingInForce, OnlyTheTimerRuns
<1> QED
  BY <1>1, Invariance, PTL

\* A goroutine never blocks on a channel that no Set can close any more.
THEOREM NeverLosesAWaiter == DeadlineSpec => []NoLostWaiter
<1>1. DeadlineInv => NoLostWaiter
  BY DeadlineAssumption
  DEF DeadlineInv, DeadlineTypeOK, NoLostWaiter, HeldInOrder, ChannelsInOrder, isClosedChan
<1> QED
  BY <1>1, Invariance, PTL

\* pipe.Deadline implements the deadline its users reason with: every step is
\* a refresh, a deadline set in the past, an expiry, or invisible.
THEOREM Refinement == DeadlineSpec => ImplementsAbstract
<1>1. DeadlineInit => Abstract!Init
  BY DeadlineAssumption DEF DeadlineInit, Abstract!Init, isClosedChan
<1>2. ASSUME DeadlineInv, [DeadlineNext]_deadlineVars
      PROVE  [Abstract!Next]_(Abstract!vars)
  <2> USE DeadlineAssumption
  <2>1. ASSUME NEW s \in Setters, SetApply(s)
        PROVE  [Abstract!Next]_(Abstract!vars)
    <3>1. cancel + 1 \notin closed /\ cancel \in Nat
      BY <1>2 DEF DeadlineInv, DeadlineTypeOK, ChannelsInOrder
    <3>2. CASE arg[s] = "past"
      BY <2>1, <3>1, <3>2
      DEF SetApply, CloseChan, isClosedChan, Abstract!Next, Abstract!SetPast
    <3>3. CASE arg[s] # "past"
      BY <2>1, <3>1, <3>3
      DEF SetApply, RefreshedCancel, isClosedChan, Abstract!Next, Abstract!Refresh,
          Abstract!NextEpoch
    <3> QED
      BY <3>2, <3>3
  <2>2. ASSUME NEW t \in fired, CallbackCloses(t)
        PROVE  [Abstract!Next]_(Abstract!vars)
    <3>1. t = timer /\ loaded[t] = cancel /\ cancel \notin closed /\ timer # NilRef
      BY <1>2, <2>2 DEF DeadlineInv, DeadlineTypeOK, OnlyTheTimerRuns, CallbackCloses, isClosedChan
    <3> QED
      BY <2>2, <3>1
      DEF CallbackCloses, CloseChan, isClosedChan, Abstract!Next, Abstract!Expire
  <2>3. CASE UNCHANGED <<timer, cancel, closed>>
    BY <2>3 DEF Abstract!vars, isClosedChan
  <2> QED
    BY <1>2, <2>1, <2>2, <2>3
    DEF DeadlineNext, SetStep, Callback, SetLock, SetStop, SetAwait, TimerExpires,
        CallbackLoads, Wait, Woken, deadlineVars
<1> QED
  BY <1>1, <1>2, Invariance, PTL DEF DeadlineSpec, ImplementsAbstract, Abstract!Spec
=============================================================================
