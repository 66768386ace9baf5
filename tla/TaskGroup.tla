------------------------------ MODULE TaskGroup -------------------------------
(***************************************************************************)
(* task.Group.Run (src/common/task/task.go): the tasks run in goroutines   *)
(* of their own, at most Limit at a time when Concurrency was called; Run  *)
(* waits until a context is done, calls the cleanup function, and waits    *)
(* for the last task.                                                      *)
(*                                                                         *)
(* What a task does is up to the module that composes with this one        *)
(* (CopyConn); here its function returns, with or without an error.        *)
(***************************************************************************)
EXTENDS Naturals, FiniteSets

CONSTANTS Tasks,      \* g.tasks
          Limit       \* Concurrency(n), or 0 when there is no queue

\* Run of a group without tasks never returns: nobody calls taskFinish.
ASSUME GroupAssumption ==
  /\ IsFiniteSet(Tasks) /\ Tasks # {}
  /\ Limit \in Nat

VARIABLES fastFail,     \* g.fastFail
          tpc,          \* where each task's goroutine is
          last,         \* its currentCount
          taskCount,
          queue,        \* tokens in g.queue
          ran,          \* tasks whose function was called
          failed,       \* tasks whose error is part of returnError
          cancelled,    \* taskCancelContext is done
          finished,     \* taskContext is done
          ctxDone,      \* the caller's ctx is done
          rpc,          \* where Run is
          upstreamErr,
          runResult        \* what Run returned

groupVars == <<fastFail, tpc, last, taskCount, queue, ran, failed, cancelled, finished,
               ctxDone, rpc, upstreamErr, runResult>>

TypeOK ==
  /\ fastFail \in BOOLEAN
  /\ tpc \in [Tasks -> {"start", "run", "counted", "release", "done"}]
  /\ last \in [Tasks -> Nat]
  /\ taskCount \in Nat
  /\ queue \in 0 .. Limit
  /\ ran \in SUBSET Tasks
  /\ failed \in SUBSET Tasks
  /\ cancelled \in BOOLEAN
  /\ finished \in BOOLEAN
  /\ ctxDone \in BOOLEAN
  /\ rpc \in {"select", "cleanup", "await", "returned"}
  /\ upstreamErr \in BOOLEAN
  /\ runResult \in {"none", "nil", "error", "ctx"}

Init ==
  /\ fastFail \in BOOLEAN
  /\ tpc = [t \in Tasks |-> "start"]
  /\ last = [t \in Tasks |-> 0]
  /\ taskCount = Cardinality(Tasks)
  /\ queue = Limit
  /\ ran = {}
  /\ failed = {}
  /\ cancelled = FALSE
  /\ finished = FALSE
  /\ ctxDone = FALSE
  /\ rpc = "select"
  /\ upstreamErr = FALSE
  /\ runResult = "none"

-----------------------------------------------------------------------------
\* The goroutine takes a token, if there is a queue, and calls the function.
Acquire(t) ==
  /\ tpc[t] = "start"
  /\ Limit > 0 => queue > 0
  /\ queue' = IF Limit > 0 THEN queue - 1 ELSE queue
  /\ tpc' = [tpc EXCEPT ![t] = "run"]
  /\ ran' = ran \cup {t}
  /\ UNCHANGED <<fastFail, last, taskCount, failed, cancelled, finished, ctxDone, rpc,
                 upstreamErr, runResult>>

\* Mutation: a task that was never run is not counted.
SkipUncounted(t) ==
  /\ Limit > 0 /\ tpc[t] = "start" /\ cancelled
  /\ tpc' = [tpc EXCEPT ![t] = "done"]
  /\ UNCHANGED <<fastFail, last, taskCount, queue, ran, failed, cancelled, finished, ctxDone,
                 rpc, upstreamErr, runResult>>

\* ... or the context is done while it waits for a token.
Skip(t) ==
  /\ Limit > 0
  /\ tpc[t] = "start"
  /\ cancelled
  /\ taskCount' = taskCount - 1
  /\ finished' = (finished \/ taskCount = 1)
  /\ tpc' = [tpc EXCEPT ![t] = "done"]
  /\ UNCHANGED <<fastFail, last, queue, ran, failed, cancelled, ctxDone, rpc, upstreamErr,
                 runResult>>

\* The function returned: from errorAccess.Lock() to Unlock().
TaskReturns(t, err) ==
  /\ tpc[t] = "run"
  /\ failed' = IF err THEN failed \cup {t} ELSE failed
  /\ cancelled' = (cancelled \/ (err /\ fastFail))
  /\ taskCount' = taskCount - 1
  /\ last' = [last EXCEPT ![t] = taskCount - 1]
  /\ tpc' = [tpc EXCEPT ![t] = "counted"]
  /\ UNCHANGED <<fastFail, queue, ran, finished, ctxDone, rpc, upstreamErr, runResult>>

\* Mutation: off by one.
SignalEarly(t) ==
  /\ tpc[t] = "counted"
  /\ cancelled' = (cancelled \/ last[t] <= 1)
  /\ finished' = (finished \/ last[t] <= 1)
  /\ tpc' = [tpc EXCEPT ![t] = "release"]
  /\ UNCHANGED <<fastFail, last, taskCount, queue, ran, failed, ctxDone, rpc, upstreamErr,
                 runResult>>

\* if currentCount == 0, after the mutex was unlocked.
Signal(t) ==
  /\ tpc[t] = "counted"
  /\ cancelled' = (cancelled \/ last[t] = 0)
  /\ finished' = (finished \/ last[t] = 0)
  /\ tpc' = [tpc EXCEPT ![t] = "release"]
  /\ UNCHANGED <<fastFail, last, taskCount, queue, ran, failed, ctxDone, rpc, upstreamErr,
                 runResult>>

\* g.queue <- struct{}{}
Release(t) ==
  /\ tpc[t] = "release"
  /\ queue' = IF Limit > 0 THEN queue + 1 ELSE queue
  /\ tpc' = [tpc EXCEPT ![t] = "done"]
  /\ UNCHANGED <<fastFail, last, taskCount, ran, failed, cancelled, finished, ctxDone, rpc,
                 upstreamErr, runResult>>

-----------------------------------------------------------------------------
\* Run's select.  Both contexts are done once the caller's is.
RunSelect ==
  /\ rpc = "select"
  /\ \/ cancelled /\ UNCHANGED <<cancelled, upstreamErr>>
     \/ ctxDone /\ upstreamErr' = TRUE /\ cancelled' = TRUE
  /\ rpc' = "cleanup"
  /\ UNCHANGED <<fastFail, tpc, last, taskCount, queue, ran, failed, finished, ctxDone, runResult>>

\* g.cleanup()
Cleanup ==
  /\ rpc = "cleanup"
  /\ rpc' = "await"
  /\ UNCHANGED <<fastFail, tpc, last, taskCount, queue, ran, failed, cancelled, finished,
                 ctxDone, upstreamErr, runResult>>

\* <-taskContext.Done(), and the return.
RunReturns ==
  /\ rpc = "await"
  /\ finished
  /\ rpc' = "returned"
  /\ runResult' = IF upstreamErr THEN "ctx" ELSE IF failed # {} THEN "error" ELSE "nil"
  /\ UNCHANGED <<fastFail, tpc, last, taskCount, queue, ran, failed, cancelled, finished,
                 ctxDone, upstreamErr>>

\* The caller cancels ctx: its own Done channel is closed before those of the
\* contexts derived from it.
CtxCancel ==
  /\ ~ctxDone
  /\ ctxDone' = TRUE
  /\ UNCHANGED <<fastFail, tpc, last, taskCount, queue, ran, failed, cancelled, finished, rpc,
                 upstreamErr, runResult>>

CtxPropagates ==
  /\ ctxDone /\ ~cancelled
  /\ cancelled' = TRUE
  /\ UNCHANGED <<fastFail, tpc, last, taskCount, queue, ran, failed, finished, ctxDone, rpc,
                 upstreamErr, runResult>>

GroupStep(t) == Acquire(t) \/ Skip(t) \/ Signal(t) \/ Release(t)
RunStep == RunSelect \/ RunReturns

Next ==
  \/ \E t \in Tasks : GroupStep(t)
  \/ \E t \in Tasks, err \in BOOLEAN : TaskReturns(t, err)
  \/ RunStep \/ Cleanup \/ CtxCancel \/ CtxPropagates

\* Goroutines run, and the functions of the tasks return.
Fairness ==
  /\ \A t \in Tasks :
       WF_groupVars(GroupStep(t)) /\ WF_groupVars(\E err \in BOOLEAN : TaskReturns(t, err))
  /\ WF_groupVars(RunStep) /\ WF_groupVars(Cleanup) /\ WF_groupVars(CtxPropagates)

Spec == Init /\ [][Next]_groupVars

FairSpec == Spec /\ Fairness

-----------------------------------------------------------------------------
\* Tasks that Run still has to wait for.
Unfinished == {t \in Tasks : tpc[t] \in {"start", "run"}}

\* Tasks that have taken a token and not given it back.
Holding == {t \in Tasks : tpc[t] \in {"run", "counted", "release"}}

\* Run returns only after the function of every task has returned or will
\* never be called: no task outlives it, also not when ctx is cancelled while
\* tasks wait for a token and others run.
NoTaskOutlivesRun == rpc = "returned" => Unfinished = {}

\* Run returns nil only if no task failed, and then every task was run unless
\* the caller's ctx was cancelled.
NilMeansDone == runResult = "nil" => failed = {} /\ (ran = Tasks \/ ctxDone)

\* Concurrency(n): never more than n functions at once, and no token is lost
\* or invented by the tasks that gave up waiting for one.
TokensConserved == Limit > 0 => queue + Cardinality(Holding) = Limit

\* The parts of the inductive invariant behind them.
CountIsRight == taskCount = Cardinality(Unfinished)

LastOneSignals ==
  /\ finished => Unfinished = {}
  /\ \A t \in Tasks :
       tpc[t] \in {"counted", "release"} /\ last[t] = 0 => Unfinished = {}

SkippedForAReason ==
  /\ \A t \in Tasks : tpc[t] \in {"run", "counted", "release"} => t \in ran
  /\ \A t \in Tasks : tpc[t] = "done" => t \in ran \/ ctxDone \/ failed # {}
  /\ cancelled => ctxDone \/ finished \/ failed # {}

ReturnedWhenFinished ==
  /\ rpc = "returned" => finished
  /\ runResult # "none" => rpc = "returned"

GroupInv ==
  /\ TypeOK
  /\ CountIsRight
  /\ LastOneSignals
  /\ SkippedForAReason
  /\ ReturnedWhenFinished
  /\ NilMeansDone
  /\ TokensConserved

\* A Run that has called a task's function, or whose ctx is cancelled, returns
\* once the functions of the tasks have.
RunEnds == (ran # {} \/ ctxDone) ~> rpc = "returned"
=============================================================================
