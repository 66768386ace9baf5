------------------------------ MODULE MCSessions ------------------------------
(***************************************************************************)
(* Long-lived sessions, one kind at a time: the two NAT tables, the        *)
(* observer and the idle timeout.  The parts that are not at work stay     *)
(* in an initial state, where nothing that fairness speaks of is enabled.  *)
(***************************************************************************)
EXTENDS UdpNat2, UdpNat, Observer, IdleTimeout

VARIABLE part   \* the session that is at work
sessionVars == <<part, nat2Vars, natVars, observerVars, idleVars>>

SessionsInit ==
  /\ part \in {"udpnat2", "udpnat", "observer", "canceler"}
  /\ Nat2Init /\ ObserverInit
  /\ part = "udpnat" \/ ex = TRUE
  /\ NatInit
  /\ part = "canceler" \/ hasDeadline = TRUE
  /\ IdleInit

SessionsNext ==
  \/ part = "udpnat2" /\ Nat2Next /\ UNCHANGED <<part, natVars, observerVars, idleVars>>
  \/ part = "udpnat" /\ NatNext /\ UNCHANGED <<part, nat2Vars, observerVars, idleVars>>
  \/ part = "observer" /\ ObserverNext /\ UNCHANGED <<part, nat2Vars, natVars, idleVars>>
  \/ part = "canceler" /\ IdleNext /\ UNCHANGED <<part, nat2Vars, natVars, observerVars>>

SessionsSpec ==
  SessionsInit /\ [][SessionsNext]_sessionVars /\ Nat2Fairness /\ NatFairness /\ ObserverFairness

-----------------------------------------------------------------------------
\* A connection takes down with it what depends on it (EndsWithConn, of
\* udpnat2), and nothing else takes it down (ClosedForAReason, of udpnat).
ConnsEndTogether == EndsWithConn /\ ClosedForAReason
=============================================================================
