-------------------------------- MODULE MCCopy --------------------------------
(***************************************************************************)
(* The copies of bufio, one at a time: CopyConn between two connections,   *)
(* and one direction of it along a chain of wrappers.                      *)
(***************************************************************************)
EXTENDS CopyConn, CopyPath

\* Each wrapper above and below each other one.
MCSources ==
  {<<"counter", "cached", "counter", "syscall">>,
   <<"cached", "cached", "waiter">>,
   <<"counter", "early", "counter", "syscall">>,
   <<"early", "cached", "counter", "syscall">>,
   <<"early", "early", "plain">>,
   <<"counter", "handled">>}

MCDestinations ==
  {<<"counter", "syscall">>,
   <<"cached", "early", "counter", "syscall">>,
   <<"counter", "lazy", "counter", "plain">>}

VARIABLE part   \* the copy that runs
bothVars == <<part, vars, pathVars>>

MCCopyInit ==
  /\ part \in {"conn", "path"}
  /\ CopyInit
  /\ part = "conn" \/ fastFail = FALSE
  /\ part = "path" \/ (packets = TRUE /\ source = <<"counter", "handled">> /\ destination = <<"counter", "syscall">>)
  /\ PathInit

MCCopyNext ==
  \/ part = "conn" /\ CopyNext /\ UNCHANGED <<part, pathVars>>
  \/ part = "path" /\ PathNext /\ UNCHANGED <<part, vars>>

\* CopyFairness, when CopyConn is the part that runs.
MCCopyFairness ==
  /\ \A d \in Tasks : WF_vars(part = "conn" /\ (CopyGoesOn(d) \/ InGroup(GroupStep(d))))
  /\ WF_vars(part = "conn" /\ (InGroup(RunStep) \/ CleanupClosesBoth))
  /\ WF_vars(part = "conn" /\ InGroup(CtxPropagates))

MCCopySpec == MCCopyInit /\ [][MCCopyNext]_bothVars /\ MCCopyFairness
=============================================================================
