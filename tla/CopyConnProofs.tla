---------------------------- MODULE CopyConnProofs ----------------------------
(***************************************************************************)
(* task.Group.Run for any finite set of tasks and any concurrency limit.   *)
(*                                                                         *)
(* taskCount is the number of tasks that have yet to be counted, so the    *)
(* goroutine that brings it to zero is the last one, and it is the only    *)
(* one that finishes taskContext.  A task is skipped only while it is      *)
(* itself uncounted, hence before that moment: the context it found done   *)
(* was cancelled by the caller or by a failure.                            *)
(*                                                                         *)
(* And CopyConn and CopyPacketConn, which run their two directions as such *)
(* a group, for any amount of data, whichever of the two connections know  *)
(* half-closes and handshake failures.                                     *)
(*                                                                         *)
(* A copy holds at most one buffer, and one that ends without an error has *)
(* met the end of its source, with nothing left in its hands, or is the    *)
(* one whose first write failed unreported.  The end of a stream does not  *)
(* change any more, and a connection that no longer works stays so: what   *)
(* was true when the copy ended is true when its end is passed on, when    *)
(* the group returns, and ever after.                                      *)
(***************************************************************************)
EXTENDS CopyConn, FiniteSetTheorems, TLAPS

\* The set of tasks to wait for is finite, and empty when its count is 0.
LEMMA UnfinishedFinite ==
  /\ IsFiniteSet(Unfinished)
  /\ Cardinality(Unfinished) \in Nat
  /\ Cardinality(Unfinished) = 0 <=> Unfinished = {}
<1>1. IsFiniteSet(Unfinished)
  BY GroupAssumption, FS_Subset DEF Unfinished
<1> QED
  BY <1>1, FS_CardinalityType, FS_EmptySet

\* Counting one task brings taskCount down by one, and to 0 for the last.
LEMMA CountOne ==
  ASSUME GroupInv, NEW t \in Unfinished, Unfinished' = Unfinished \ {t},
         taskCount' = taskCount - 1
  PROVE  /\ taskCount' = Cardinality(Unfinished')
         /\ taskCount' \in Nat
         /\ taskCount' = 0 => Unfinished' = {}
<1>1. taskCount = Cardinality(Unfinished)
  BY DEF GroupInv, CountIsRight
<1>2. Cardinality(Unfinished \ {t}) = Cardinality(Unfinished) - 1
  BY UnfinishedFinite, FS_RemoveElement
<1>3. IsFiniteSet(Unfinished \ {t})
  BY UnfinishedFinite, FS_RemoveElement
<1>4. /\ Cardinality(Unfinished \ {t}) \in Nat
      /\ Cardinality(Unfinished \ {t}) = 0 <=> Unfinished \ {t} = {}
  BY <1>3, FS_CardinalityType, FS_EmptySet
<1> QED
  BY <1>1, <1>2, <1>4

\* The tasks that hold a token, one more or one less.
LEMMA HoldingFinite ==
  /\ Cardinality(Holding) \in Nat
  /\ \A t \in Holding :
       /\ Cardinality(Holding) > 0
       /\ Cardinality(Holding \ {t}) = Cardinality(Holding) - 1
  /\ \A t \in Tasks \ Holding :
       Cardinality(Holding \cup {t}) = Cardinality(Holding) + 1
<1>1. IsFiniteSet(Holding)
  BY GroupAssumption, FS_Subset DEF Holding
<1>2. Cardinality(Holding) \in Nat
  BY <1>1, FS_CardinalityType
<1>3. ASSUME NEW t \in Holding
      PROVE  /\ Cardinality(Holding) > 0
             /\ Cardinality(Holding \ {t}) = Cardinality(Holding) - 1
  BY <1>1, <1>2, <1>3, FS_EmptySet, FS_RemoveElement
<1>4. ASSUME NEW t \in Tasks \ Holding
      PROVE  Cardinality(Holding \cup {t}) = Cardinality(Holding) + 1
  BY <1>1, <1>4, FS_AddElement
<1> QED
  BY <1>2, <1>3, <1>4

\* The invariant holds when Run has started the goroutines.
LEMMA InitInv == Init => GroupInv
<1> SUFFICES ASSUME Init
             PROVE  GroupInv
  OBVIOUS
<1>1. Unfinished = Tasks
  BY DEF Init, Unfinished
<1>2. Holding = {} /\ Cardinality({}) = 0 /\ Cardinality(Tasks) \in Nat
  BY GroupAssumption, FS_CardinalityType, FS_EmptySet DEF Init, Holding
<1>3. TypeOK
  <2>1. tpc \in [Tasks -> {"start", "run", "counted", "release", "done"}]
    BY DEF Init
  <2>2. last \in [Tasks -> Nat] /\ taskCount \in Nat /\ queue \in 0 .. Limit
    BY <1>2, GroupAssumption DEF Init
  <2> QED
    BY <2>1, <2>2 DEF Init, TypeOK
<1>4. CountIsRight /\ LastOneSignals
  BY <1>1 DEF Init, CountIsRight, LastOneSignals
<1>5. SkippedForAReason /\ ReturnedWhenFinished /\ NilMeansDone
  BY DEF Init, SkippedForAReason, ReturnedWhenFinished, NilMeansDone
<1>6. TokensConserved
  BY <1>2, GroupAssumption DEF Init, TokensConserved
<1> QED
  BY <1>3, <1>4, <1>5, <1>6 DEF GroupInv

\* Every step of Run, of the tasks and of the caller keeps the invariant.
LEMMA NextInv == GroupInv /\ [Next]_groupVars => GroupInv'
<1> SUFFICES ASSUME GroupInv, [Next]_groupVars
             PROVE  GroupInv'
  OBVIOUS
<1> USE GroupAssumption
<1>1. ASSUME NEW t \in Tasks, Acquire(t)
      PROVE  GroupInv'
  <2>1. TypeOK'
    BY <1>1 DEF GroupInv, TypeOK, Acquire
  <2>2. Unfinished' = Unfinished
    BY <1>1 DEF GroupInv, TypeOK, Acquire, Unfinished
  <2>3. CountIsRight' /\ ReturnedWhenFinished'
    BY <1>1, <2>2 DEF GroupInv, CountIsRight, ReturnedWhenFinished, Acquire
  <2>4. LastOneSignals'
    BY <1>1, <2>2 DEF GroupInv, TypeOK, LastOneSignals, Acquire
  <2>5. SkippedForAReason'
    BY <1>1 DEF GroupInv, TypeOK, SkippedForAReason, Acquire
  <2>6. NilMeansDone'
    BY <1>1 DEF GroupInv, TypeOK, NilMeansDone, Acquire
  <2>7. t \notin Holding /\ Holding' = Holding \cup {t}
    BY <1>1 DEF GroupInv, TypeOK, Acquire, Holding
  <2>8. TokensConserved'
    BY <1>1, <2>7, HoldingFinite DEF GroupInv, TypeOK, TokensConserved, Acquire
  <2> QED
    BY <2>1, <2>3, <2>4, <2>5, <2>6, <2>8 DEF GroupInv
<1>2. ASSUME NEW t \in Tasks, Skip(t)
      PROVE  GroupInv'
  <2>1. t \in Unfinished /\ Unfinished' = Unfinished \ {t}
    BY <1>2 DEF GroupInv, TypeOK, Skip, Unfinished
  <2>2. /\ taskCount' = Cardinality(Unfinished') /\ taskCount' \in Nat
        /\ taskCount' = 0 => Unfinished' = {}
    BY <1>2, <2>1, CountOne DEF Skip
  <2>3. TypeOK'
    BY <1>2, <2>2 DEF GroupInv, TypeOK, Skip
  <2>4. finished' => Unfinished' = {}
    BY <1>2, <2>1, <2>2 DEF GroupInv, TypeOK, LastOneSignals, Skip
  <2>5. LastOneSignals'
    BY <1>2, <2>1, <2>4 DEF GroupInv, TypeOK, LastOneSignals, Skip
  <2>6. ctxDone \/ failed # {}
    BY <1>2, <2>1 DEF GroupInv, LastOneSignals, SkippedForAReason, Skip
  <2>7. SkippedForAReason'
    BY <1>2, <2>6 DEF GroupInv, TypeOK, SkippedForAReason, Skip
  <2>8. ReturnedWhenFinished' /\ NilMeansDone'
    BY <1>2 DEF GroupInv, ReturnedWhenFinished, NilMeansDone, Skip
  <2>9. TokensConserved'
    <3>1. Holding' = Holding
      BY <1>2 DEF GroupInv, TypeOK, Skip, Holding
    <3> QED
      BY <1>2, <3>1 DEF GroupInv, TokensConserved, Skip
  <2> QED
    BY <2>2, <2>3, <2>5, <2>7, <2>8, <2>9 DEF GroupInv, CountIsRight
<1>3. ASSUME NEW t \in Tasks, NEW err \in BOOLEAN, TaskReturns(t, err)
      PROVE  GroupInv'
  <2>1. t \in Unfinished /\ Unfinished' = Unfinished \ {t}
    BY <1>3 DEF GroupInv, TypeOK, TaskReturns, Unfinished
  <2>2. /\ taskCount' = Cardinality(Unfinished') /\ taskCount' \in Nat
        /\ taskCount' = 0 => Unfinished' = {}
    BY <1>3, <2>1, CountOne DEF TaskReturns
  <2>3. TypeOK'
    BY <1>3, <2>2 DEF GroupInv, TypeOK, TaskReturns
  <2>4. LastOneSignals'
    BY <1>3, <2>1, <2>2 DEF GroupInv, TypeOK, LastOneSignals, TaskReturns
  <2>5. failed \subseteq failed' /\ (err => t \in failed')
    BY <1>3 DEF TaskReturns
  <2>6. SkippedForAReason'
    BY <1>3, <2>5 DEF GroupInv, TypeOK, SkippedForAReason, TaskReturns
  <2>7. finished = FALSE
    BY <2>1 DEF GroupInv, TypeOK, LastOneSignals
  <2>8. ReturnedWhenFinished' /\ NilMeansDone'
    BY <1>3, <2>7 DEF GroupInv, ReturnedWhenFinished, NilMeansDone, TaskReturns
  <2>9. TokensConserved'
    <3>1. Holding' = Holding
      BY <1>3 DEF GroupInv, TypeOK, TaskReturns, Holding
    <3> QED
      BY <1>3, <3>1 DEF GroupInv, TokensConserved, TaskReturns
  <2> QED
    BY <2>2, <2>3, <2>4, <2>6, <2>8, <2>9 DEF GroupInv, CountIsRight
<1>4. ASSUME NEW t \in Tasks, Signal(t)
      PROVE  GroupInv'
  <2>1. Unfinished' = Unfinished
    BY <1>4 DEF GroupInv, TypeOK, Signal, Unfinished
  <2>2. TypeOK'
    BY <1>4 DEF GroupInv, TypeOK, Signal
  <2>3. LastOneSignals' /\ CountIsRight'
    BY <1>4, <2>1 DEF GroupInv, TypeOK, LastOneSignals, CountIsRight, Signal
  <2>4. SkippedForAReason'
    BY <1>4 DEF GroupInv, TypeOK, SkippedForAReason, Signal
  <2>5. ReturnedWhenFinished' /\ NilMeansDone'
    BY <1>4 DEF GroupInv, ReturnedWhenFinished, NilMeansDone, Signal
  <2>6. TokensConserved'
    <3>1. Holding' = Holding
      BY <1>4 DEF GroupInv, TypeOK, Signal, Holding
    <3> QED
      BY <1>4, <3>1 DEF GroupInv, TokensConserved, Signal
  <2> QED
    BY <2>2, <2>3, <2>4, <2>5, <2>6 DEF GroupInv
<1>5. ASSUME NEW t \in Tasks, Release(t)
      PROVE  GroupInv'
  <2>1. Unfinished' = Unfinished
    BY <1>5 DEF GroupInv, TypeOK, Release, Unfinished
  <2>2. t \in Holding /\ Holding' = Holding \ {t}
    BY <1>5 DEF GroupInv, TypeOK, Release, Holding
  <2>3. TokensConserved' /\ queue' \in 0 .. Limit
    BY <1>5, <2>2, HoldingFinite DEF GroupInv, TypeOK, TokensConserved, Release
  <2>4. TypeOK'
    BY <1>5, <2>3 DEF GroupInv, TypeOK, Release
  <2>5. LastOneSignals' /\ CountIsRight'
    BY <1>5, <2>1 DEF GroupInv, TypeOK, LastOneSignals, CountIsRight, Release
  <2>6. SkippedForAReason'
    BY <1>5 DEF GroupInv, TypeOK, SkippedForAReason, Release
  <2>7. ReturnedWhenFinished' /\ NilMeansDone'
    BY <1>5 DEF GroupInv, ReturnedWhenFinished, NilMeansDone, Release
  <2> QED
    BY <2>3, <2>4, <2>5, <2>6, <2>7 DEF GroupInv
<1>6. ASSUME UNCHANGED <<tpc, last, taskCount, queue, ran, failed>>,
             RunSelect \/ Cleanup \/ RunReturns \/ CtxCancel \/ CtxPropagates
                       \/ UNCHANGED groupVars
      PROVE  GroupInv'
  <2>1. Unfinished' = Unfinished /\ Holding' = Holding
    BY <1>6 DEF Unfinished, Holding
  <2>2. TypeOK'
    <3>1. CASE RunSelect
      BY <1>6, <3>1 DEF GroupInv, TypeOK, RunSelect
    <3>2. CASE Cleanup
      BY <1>6, <3>2 DEF GroupInv, TypeOK, Cleanup
    <3>3. CASE RunReturns
      BY <1>6, <3>3 DEF GroupInv, TypeOK, RunReturns
    <3>4. CASE CtxCancel \/ CtxPropagates \/ UNCHANGED groupVars
      BY <1>6, <3>4 DEF GroupInv, TypeOK, CtxCancel, CtxPropagates, groupVars
    <3> QED BY <1>6, <3>1, <3>2, <3>3, <3>4
  <2>3. UNCHANGED finished
    BY <1>6 DEF RunSelect, Cleanup, RunReturns, CtxCancel, CtxPropagates, groupVars
  <2>4. CountIsRight' /\ LastOneSignals' /\ TokensConserved'
    BY <1>6, <2>1, <2>3
    DEF GroupInv, CountIsRight, LastOneSignals, TokensConserved
  <2>5. SkippedForAReason'
    BY <1>6 DEF GroupInv, SkippedForAReason, RunSelect, Cleanup, RunReturns,
                CtxCancel, CtxPropagates, groupVars
  <2>6. ReturnedWhenFinished'
    BY <1>6 DEF GroupInv, ReturnedWhenFinished, RunSelect, Cleanup, RunReturns,
                CtxCancel, CtxPropagates, groupVars
  <2>7. NilMeansDone'
    <3>1. CASE RunReturns
      <4>1. \A t \in Tasks : tpc[t] \in {"counted", "release", "done"}
        BY <3>1 DEF GroupInv, TypeOK, LastOneSignals, Unfinished, RunReturns
      <4> QED
        BY <3>1, <4>1 DEF GroupInv, TypeOK, SkippedForAReason, NilMeansDone, RunReturns
    <3>2. CASE ~RunReturns
      BY <1>6, <3>2 DEF GroupInv, NilMeansDone, RunSelect, Cleanup, CtxCancel,
                        CtxPropagates, groupVars
    <3> QED
      BY <3>1, <3>2
  <2> QED
    BY <2>2, <2>4, <2>5, <2>6, <2>7 DEF GroupInv
<1>7. ASSUME RunSelect \/ Cleanup \/ RunReturns \/ CtxCancel \/ CtxPropagates
                       \/ UNCHANGED groupVars
      PROVE  GroupInv'
  BY <1>6, <1>7
  DEF RunSelect, Cleanup, RunReturns, CtxCancel, CtxPropagates, groupVars
<1> QED
  BY <1>1, <1>2, <1>3, <1>4, <1>5, <1>7 DEF Next, GroupStep, RunStep

-----------------------------------------------------------------------------
\* task.Group keeps its invariant, the types of its variables included.
THEOREM Invariance == Spec => []GroupInv
  BY InitInv, NextInv, PTL DEF Spec

\* Run returns only when no task is running, or still to be run.
THEOREM WaitsForEveryTask == Spec => []NoTaskOutlivesRun
<1>1. GroupInv => NoTaskOutlivesRun
  BY DEF GroupInv, NoTaskOutlivesRun, ReturnedWhenFinished, LastOneSignals
<1> QED
  BY <1>1, Invariance, PTL

\* A nil runResult hides neither a failure nor, unless ctx was cancelled, a task
\* that was never run.
THEOREM NilIsSuccess == Spec => []NilMeansDone
<1>1. GroupInv => NilMeansDone
  BY DEF GroupInv
<1> QED
  BY <1>1, Invariance, PTL

\* The concurrency limit is kept.
THEOREM LimitKept == Spec => []TokensConserved
<1>1. GroupInv => TokensConserved
  BY DEF GroupInv
<1> QED
  BY <1>1, Invariance, PTL

-----------------------------------------------------------------------------
\* All of the stream was forwarded, or its first write failed unreported.
Passed(d) == (eof[From(d)] /\ written[To(d)] = sent[From(d)]) \/ Unreported(d)

\* A copy holds the one buffer it has read and not written; it lets go of it
\* only when the write fails.
OneBuffer ==
  \A d \in Tasks :
    /\ cpc[d] = "read" => taken[From(d)] = written[To(d)]
    /\ cpc[d] = "write" => taken[From(d)] = written[To(d)] + 1
    /\ written[To(d)] <= taken[From(d)]
    /\ taken[From(d)] <= sent[From(d)]
    /\ cpc[d] \in {"read", "write"} => ~cerr[d]
    /\ cpc[d] \in {"close", "return"} => cerr[d] \/ Passed(d)

\* Only the copy into a connection half-closes it, when it has ended well.
HalfClosedByItsCopy ==
  \A d \in Tasks : closedWrite[To(d)] => cpc[d] = "return" /\ ~cerr[d]

\* A task returns when its copy is over, with the error of that copy.
TaskIsItsCopy ==
  \A d \in Tasks :
    /\ tpc[d] = "start" => cpc[d] = "read"
    /\ tpc[d] \in {"counted", "release", "done"} =>
         cpc[d] = "return" /\ (cerr[d] <=> d \in failed)
    /\ d \in failed => cerr[d]

\* Run calls the cleanup function when a context is done.
CleanupForAReason == rpc # "select" => cancelled

CopyInv ==
  /\ GroupInv /\ CopyTypeOK
  /\ OneBuffer /\ HalfClosedByItsCopy /\ TaskIsItsCopy /\ CleanupForAReason
  /\ HalfCloseKeepsReverse

-----------------------------------------------------------------------------
\* The two directions, and the connections they connect.
LEMMA Directions ==
  /\ \A d \in Tasks : From(d) \in Conns /\ To(d) \in Conns /\ From(d) # To(d)
  /\ \A d, e \in Tasks : d # e => From(d) = To(e) /\ To(d) = From(e)
  /\ \A c \in Conns : \E d \in Tasks : c = To(d)
  BY CopyAssumption DEF From, To, Conns

\* The larger of the two bounds.
LEMMA MaxSentBounds == MaxSent \in Nat /\ MaxUpload <= MaxSent /\ MaxDownload <= MaxSent
  BY CopyAssumption DEF MaxSent

\* The invariant holds before the first step of the group.
LEMMA CopyInitInv == CopyInit => CopyInv
<1> SUFFICES ASSUME CopyInit
             PROVE  CopyInv
  OBVIOUS
<1> USE CopyAssumption
<1>1. GroupInv
  BY InitInv DEF CopyInit
<1>2. CopyTypeOK
  BY DEF CopyInit, CopyTypeOK, MaxSent
<1>3. OneBuffer /\ HalfClosedByItsCopy
  BY Directions DEF CopyInit, OneBuffer, HalfClosedByItsCopy
<1>4. TaskIsItsCopy /\ CleanupForAReason
  BY DEF CopyInit, Init, TaskIsItsCopy, CleanupForAReason
<1>5. HalfCloseKeepsReverse
  BY DEF CopyInit, HalfCloseKeepsReverse
<1> QED
  BY <1>1, <1>2, <1>3, <1>4, <1>5 DEF CopyInv

\* A step of the group that leaves the copies and connections alone.
LEMMA GroupStepInv ==
  ASSUME CopyInv, [Next]_groupVars, UNCHANGED <<connVars, copyVars, peerVars>>,
         \A d \in Tasks :
           /\ tpc[d] # "run" \/ tpc'[d] = "run"
           /\ tpc'[d] \in {"counted", "release", "done"} => tpc[d] \in {"counted", "release"}
                                                          \/ tpc'[d] = tpc[d],
         failed' = failed
  PROVE  CopyInv'
<1>1. GroupInv'
  BY NextInv DEF CopyInv
<1>2. CopyTypeOK' /\ OneBuffer' /\ HalfClosedByItsCopy'
  BY DEF CopyInv, CopyTypeOK, OneBuffer, HalfClosedByItsCopy, Passed, Unreported, Works,
         connVars, copyVars, peerVars
<1>3. TaskIsItsCopy'
  <2>1. \A d \in Tasks : tpc'[d] = "start" => tpc[d] = "start"
    BY DEF Next, GroupStep, RunStep, Acquire, Skip, Signal, Release, TaskReturns, RunSelect,
           RunReturns, Cleanup, CtxCancel, CtxPropagates, groupVars, CopyInv, GroupInv, TypeOK
  <2> QED
    BY <2>1 DEF CopyInv, TaskIsItsCopy, copyVars
<1>4. CleanupForAReason'
  BY DEF CopyInv, CleanupForAReason, Next, GroupStep, RunStep, Acquire, Skip, Signal, Release,
         TaskReturns, RunSelect, RunReturns, Cleanup, CtxCancel, CtxPropagates, groupVars
<1>5. HalfCloseKeepsReverse'
  <2>1. ctxDone => ctxDone'
    BY DEF Next, GroupStep, RunStep, Acquire, Skip, Signal, Release, TaskReturns, RunSelect,
           RunReturns, Cleanup, CtxCancel, CtxPropagates, groupVars
  <2>2. Unfinished = {} => Unfinished' = {}
    BY DEF Next, GroupStep, RunStep, Acquire, Skip, Signal, Release, TaskReturns, RunSelect,
           RunReturns, Cleanup, CtxCancel, CtxPropagates, groupVars, Unfinished, CopyInv,
           GroupInv, TypeOK
  <2> QED
    BY <2>1, <2>2 DEF CopyInv, HalfCloseKeepsReverse, connVars, copyVars
<1> QED
  BY <1>1, <1>2, <1>3, <1>4, <1>5 DEF CopyInv

\* A step of one copy keeps the invariant.
LEMMA CopyStepInv ==
  ASSUME CopyInv, NEW d \in Tasks, CopyStep(d)
  PROVE  CopyInv'
<1> USE CopyAssumption, Directions
<1> DEFINE Kept == /\ CopyTypeOK' /\ OneBuffer' /\ HalfClosedByItsCopy' /\ TaskIsItsCopy'
                   /\ HalfCloseKeepsReverse'
<1>0. /\ GroupInv /\ CopyTypeOK /\ OneBuffer /\ HalfClosedByItsCopy /\ TaskIsItsCopy
      /\ HalfCloseKeepsReverse /\ CleanupForAReason
  BY DEF CopyInv
<1>1. ASSUME UNCHANGED groupVars, Kept
      PROVE  CopyInv'
  <2>1. GroupInv'
    BY <1>0, <1>1, NextInv
  <2>2. CleanupForAReason'
    BY <1>0, <1>1 DEF CleanupForAReason, groupVars
  <2> QED
    BY <1>1, <2>1, <2>2 DEF CopyInv
<1>2. ASSUME UNCHANGED groupVars
      PROVE  Unfinished' = Unfinished /\ ctxDone' = ctxDone
  BY <1>2 DEF Unfinished, groupVars
<1>3. CASE ReadBuffer(d)
  <2>1. CopyTypeOK'
    <3>1. taken[From(d)] + 1 \in 0 .. MaxSent
      BY <1>0, <1>3, MaxSentBounds DEF ReadBuffer, CopyTypeOK
    <3> QED
      BY <1>0, <1>3, <3>1 DEF ReadBuffer, CopyTypeOK, peerVars
  <2>2. OneBuffer'
    BY <1>0, <1>3 DEF ReadBuffer, CopyTypeOK, OneBuffer, Passed, Unreported, Works, peerVars
  <2>3. HalfClosedByItsCopy' /\ TaskIsItsCopy'
    BY <1>0, <1>3 DEF ReadBuffer, CopyTypeOK, HalfClosedByItsCopy, TaskIsItsCopy, groupVars
  <2>4. HalfCloseKeepsReverse'
    BY <1>0, <1>2, <1>3 DEF ReadBuffer, CopyTypeOK, HalfCloseKeepsReverse
  <2> QED
    BY <1>1, <1>3, <2>1, <2>2, <2>3, <2>4 DEF ReadBuffer
<1>4. ASSUME NEW err \in BOOLEAN, cpc[d] \in {"read", "write"}, tpc[d] = "run",
             CopyEnds(d, err), err \/ Passed(d)
      PROVE  CopyInv'
  <2>1. CopyTypeOK'
    BY <1>0, <1>4 DEF CopyEnds, CopyTypeOK, connVars, peerVars
  <2>2. OneBuffer'
    BY <1>0, <1>4
    DEF CopyEnds, CopyTypeOK, OneBuffer, Passed, Unreported, Works, connVars, peerVars
  <2>3. HalfClosedByItsCopy' /\ TaskIsItsCopy'
    BY <1>0, <1>4
    DEF CopyEnds, CopyTypeOK, HalfClosedByItsCopy, TaskIsItsCopy, OneBuffer, groupVars, connVars
  <2>4. HalfCloseKeepsReverse'
    BY <1>0, <1>2, <1>4
    DEF CopyEnds, CopyTypeOK, HalfCloseKeepsReverse, OneBuffer, connVars
  <2> QED
    BY <1>1, <1>4, <2>1, <2>2, <2>3, <2>4 DEF CopyEnds
<1>5. CASE ReadEOF(d) \/ ReadFails(d)
  <2>1. Packets \in BOOLEAN
    BY <1>0 DEF GroupInv, TypeOK, Packets
  <2>2. ReadEOF(d) => Passed(d)
    BY <1>0 DEF ReadEOF, OneBuffer, Passed
  <2> QED
    BY <1>4, <1>5, <2>1, <2>2 DEF ReadEOF, ReadFails
<1>6. CASE WriteBuffer(d)
  <2>1. CopyTypeOK'
    <3>1. written' \in [Conns -> 0 .. MaxSent]
      <4>1. written[To(d)] + 1 \in 0 .. MaxSent
        BY <1>0, <1>6, MaxSentBounds DEF WriteBuffer, CopyTypeOK, OneBuffer
      <4> QED
        BY <1>0, <1>6, <4>1 DEF WriteBuffer, CopyTypeOK
    <3>2. notFirstTime' \in [Tasks -> BOOLEAN]
      BY <1>0, <1>6, Zenon DEF WriteBuffer, CopyTypeOK
    <3> QED
      BY <1>0, <1>6, <3>1, <3>2 DEF WriteBuffer, CopyTypeOK, peerVars
  <2>2. OneBuffer'
    BY <1>0, <1>6 DEF WriteBuffer, CopyTypeOK, OneBuffer, Passed, Unreported, Works, peerVars
  <2>3. HalfClosedByItsCopy' /\ TaskIsItsCopy'
    BY <1>0, <1>6 DEF WriteBuffer, CopyTypeOK, HalfClosedByItsCopy, TaskIsItsCopy, groupVars
  <2>4. HalfCloseKeepsReverse'
    BY <1>0, <1>2, <1>6 DEF WriteBuffer, CopyTypeOK, HalfCloseKeepsReverse
  <2> QED
    BY <1>1, <1>6, <2>1, <2>2, <2>3, <2>4 DEF WriteBuffer
<1>7. CASE WriteFails(d)
  <2>1. PICK cached \in BOOLEAN : CopyEnds(d, cached \/ notFirstTime[d] \/ FirstWriteErr(d))
    BY <1>7 DEF WriteFails
  <2>2. notFirstTime[d] \/ FirstWriteErr(d) \/ Passed(d)
    BY <1>7 DEF WriteFails, FirstWriteErr, Passed, Unreported
  <2>3. (cached \/ notFirstTime[d] \/ FirstWriteErr(d)) \in BOOLEAN
    BY Zenon
  <2> QED
    BY <1>4, <1>7, <2>1, <2>2, <2>3 DEF WriteFails
<1>8. CASE Finish(d)
  <2>1. CopyTypeOK'
    BY <1>0, <1>8 DEF Finish, CopyTypeOK, peerVars
  <2>2. OneBuffer'
    BY <1>0, <1>8 DEF Finish, CopyTypeOK, OneBuffer, Passed, Unreported, Works, peerVars
  <2>3. HalfClosedByItsCopy' /\ TaskIsItsCopy'
    BY <1>0, <1>8 DEF Finish, CopyTypeOK, HalfClosedByItsCopy, TaskIsItsCopy, groupVars
  <2>4. HalfCloseKeepsReverse'
    BY <1>0, <1>2, <1>8 DEF Finish, CopyTypeOK, HalfCloseKeepsReverse
  <2> QED
    BY <1>1, <1>8, <2>1, <2>2, <2>3, <2>4 DEF Finish
<1>9. CASE Return(d)
  <2>1. cerr[d] \in BOOLEAN /\ TaskReturns(d, cerr[d])
    BY <1>0, <1>9 DEF Return, CopyTypeOK
  <2>2. GroupInv'
    BY <1>0, <2>1, NextInv DEF Next
  <2>3. CopyTypeOK' /\ OneBuffer' /\ HalfClosedByItsCopy'
    BY <1>0, <1>9 DEF Return, CopyTypeOK, OneBuffer, HalfClosedByItsCopy, Passed, Unreported,
                      Works, connVars, copyVars, peerVars
  <2>4. TaskIsItsCopy'
    BY <1>0, <1>9, <2>1
    DEF Return, TaskReturns, TaskIsItsCopy, GroupInv, TypeOK, copyVars
  <2>5. CleanupForAReason'
    BY <1>0, <2>1 DEF CleanupForAReason, TaskReturns
  <2>6. HalfCloseKeepsReverse'
    <3>1. Unfinished = {} => Unfinished' = {}
      BY <1>0, <2>1 DEF Unfinished, TaskReturns, GroupInv, TypeOK
    <3> QED
      BY <1>0, <1>9, <2>1, <3>1
      DEF Return, TaskReturns, HalfCloseKeepsReverse, connVars, copyVars
  <2> QED
    BY <2>2, <2>3, <2>4, <2>5, <2>6 DEF CopyInv
<1> QED
  BY <1>3, <1>5, <1>6, <1>7, <1>8, <1>9 DEF CopyStep

\* Run's cleanup closes both connections when the group has a reason to end.
LEMMA CleanupInv ==
  ASSUME CopyInv, CleanupClosesBoth
  PROVE  CopyInv'
<1> USE Directions
<1>1. GroupInv'
  BY NextInv DEF CopyInv, Next, CleanupClosesBoth
<1>2. CopyTypeOK' /\ HalfClosedByItsCopy' /\ TaskIsItsCopy' /\ CleanupForAReason'
  BY DEF CopyInv, CopyTypeOK, HalfClosedByItsCopy, TaskIsItsCopy, CleanupForAReason,
         CleanupClosesBoth, Cleanup, copyVars, peerVars
<1>3. OneBuffer'
  BY DEF CopyInv, CopyTypeOK, OneBuffer, Passed, Unreported, Works, CleanupClosesBoth,
         copyVars, peerVars
<1>4. HalfCloseKeepsReverse'
  <2>1. ctxDone \/ finished \/ failed # {}
    BY DEF CopyInv, CleanupForAReason, GroupInv, SkippedForAReason, CleanupClosesBoth, Cleanup
  <2>2. finished => Unfinished = {}
    BY DEF CopyInv, GroupInv, LastOneSignals
  <2>3. failed # {} => \E d \in Tasks : cerr[d]
    BY DEF CopyInv, GroupInv, TypeOK, TaskIsItsCopy
  <2>4. UNCHANGED <<ctxDone, Unfinished, cerr>>
    BY DEF CleanupClosesBoth, Cleanup, Unfinished, copyVars
  <2> QED
    BY <2>1, <2>2, <2>3, <2>4 DEF HalfCloseKeepsReverse
<1> QED
  BY <1>1, <1>2, <1>3, <1>4 DEF CopyInv

\* What the peers do keeps the invariant: nothing comes after the end.
LEMMA PeerInv ==
  ASSUME CopyInv, NEW c \in Conns, PeerSends(c) \/ PeerFinishes(c) \/ PeerResets(c)
  PROVE  CopyInv'
<1> USE CopyAssumption, Directions DEF PeerSends, PeerFinishes, PeerResets
<1>1. UNCHANGED <<groupVars, connVars, copyVars>>
  OBVIOUS
<1>2. GroupInv'
  BY <1>1, NextInv DEF CopyInv
<1>3. CopyTypeOK'
  <2>1. sent' \in [Conns -> 0 .. MaxSent]
    BY MaxSentBounds DEF CopyInv, CopyTypeOK
  <2>2. eof' \in [Conns -> BOOLEAN] /\ broken' \in [Conns -> BOOLEAN]
    BY DEF CopyInv, CopyTypeOK
  <2> QED
    BY <1>1, <2>1, <2>2 DEF CopyInv, CopyTypeOK, connVars, copyVars
<1>4. OneBuffer'
  <2>1. \A d \in Tasks : Passed(d) => Passed(d)'
    BY <1>1 DEF CopyInv, CopyTypeOK, Passed, Unreported, Works, connVars, copyVars
  <2>2. \A d \in Tasks : sent[From(d)] <= sent'[From(d)]
    BY DEF CopyInv, CopyTypeOK
  <2> QED
    BY <1>1, <1>3, <2>1, <2>2 DEF CopyInv, CopyTypeOK, OneBuffer, connVars, copyVars
<1>5. HalfClosedByItsCopy' /\ TaskIsItsCopy' /\ CleanupForAReason'
  BY <1>1 DEF CopyInv, HalfClosedByItsCopy, TaskIsItsCopy, CleanupForAReason, groupVars,
              connVars, copyVars
<1>6. HalfCloseKeepsReverse'
  BY <1>1 DEF CopyInv, HalfCloseKeepsReverse, Unfinished, groupVars, connVars, copyVars
<1> QED
  BY <1>2, <1>3, <1>4, <1>5, <1>6 DEF CopyInv

\* Every step of CopyConn keeps the invariant.
LEMMA CopyNextInv == CopyInv /\ [CopyNext]_vars => CopyInv'
<1> SUFFICES ASSUME CopyInv, [CopyNext]_vars
             PROVE  CopyInv'
  OBVIOUS
<1>1. ASSUME NEW d \in Tasks, InGroup(GroupStep(d))
      PROVE  CopyInv'
  <2>1. ~Skip(d)
    BY CopyAssumption DEF Skip
  <2>2. Acquire(d) \/ Signal(d) \/ Release(d)
    BY <1>1, <2>1 DEF InGroup, GroupStep
  <2>3. tpc \in [Tasks -> {"start", "run", "counted", "release", "done"}]
    BY DEF CopyInv, GroupInv, TypeOK
  <2>4. /\ failed' = failed
        /\ \A e \in Tasks :
             /\ tpc[e] # "run" \/ tpc'[e] = "run"
             /\ tpc'[e] \in {"counted", "release", "done"} => tpc[e] \in {"counted", "release"}
                                                            \/ tpc'[e] = tpc[e]
    BY <2>2, <2>3 DEF Acquire, Signal, Release
  <2> QED
    BY <1>1, <2>4, GroupStepInv DEF InGroup, Next
<1>2. ASSUME InGroup(RunStep) \/ InGroup(CtxCancel) \/ InGroup(CtxPropagates)
      PROVE  CopyInv'
  <2>1. UNCHANGED <<tpc, failed>>
    BY <1>2 DEF InGroup, RunStep, RunSelect, RunReturns, CtxCancel, CtxPropagates
  <2> QED
    BY <1>2, <2>1, GroupStepInv DEF InGroup, Next
<1>3. CASE UNCHANGED vars
  BY <1>3, GroupStepInv DEF vars, groupVars
<1> QED
  BY <1>1, <1>2, <1>3, CopyStepInv, CleanupInv, PeerInv DEF CopyNext

-----------------------------------------------------------------------------
\* The inductive invariant of CopyConn and CopyPacketConn.
THEOREM CopyInvariance == CopySpec => []CopyInv
  BY CopyInitInv, CopyNextInv, PTL DEF CopySpec

\* A half-close is passed on after all of the stream, and a direction that
\* ends well leaves the other one alone.
THEOREM HalfClosesHold == CopySpec => []HalfCloses
<1>1. CopyInv => HalfCloses
  BY DEF CopyInv, HalfCloses, OneBuffer, HalfClosedByItsCopy, HalfCloseAfterData, Passed
<1> QED
  BY <1>1, CopyInvariance, PTL

\* A nil runResult of CopyConn hides no data that was not forwarded.
THEOREM NilIsForwarded == CopySpec => []NilMeansForwarded
<1>1. CopyInv => NilMeansForwarded
  <2> SUFFICES ASSUME CopyInv, runResult = "nil", NEW d \in Tasks
               PROVE  Passed(d)
    BY DEF NilMeansForwarded, Passed
  <2>1. failed = {} /\ Unfinished = {}
    BY DEF CopyInv, GroupInv, NilMeansDone, ReturnedWhenFinished, LastOneSignals
  <2>2. tpc[d] \in {"counted", "release", "done"}
    BY <2>1 DEF CopyInv, GroupInv, TypeOK, Unfinished
  <2> QED
    BY <2>1, <2>2 DEF CopyInv, TaskIsItsCopy, OneBuffer
<1> QED
  BY <1>1, CopyInvariance, PTL
=============================================================================
