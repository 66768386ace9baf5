--------------------------- MODULE AbstractDeadline ---------------------------
(***************************************************************************)
(* What pipe.Deadline (src/common/pipe/pipe.go) promises to the code that  *)
(* waits on it.  A deadline is a sequence of epochs, one per channel that  *)
(* Set makes: within an epoch the deadline is exceeded at most once, and a *)
(* goroutine that took its channel in epoch e is woken as soon as epoch e  *)
(* is exceeded, or is already over.  Pipe and UdpNat use this view.        *)
(***************************************************************************)
EXTENDS Naturals

VARIABLES epoch,      \* which channel Wait returns, counted from 0
          exceeded,   \* that channel is closed
          pending     \* a timer may still close it

vars == <<epoch, exceeded, pending>>

TypeOK ==
  /\ epoch \in Nat
  /\ exceeded \in BOOLEAN
  /\ pending \in BOOLEAN

Init ==
  /\ epoch = 0
  /\ exceeded = FALSE
  /\ pending = FALSE

\* An epoch that was exceeded ends; one that was not goes on.
NextEpoch == IF exceeded THEN epoch + 1 ELSE epoch

\* Set with the zero time, or with a time in the future: nobody who waits
\* from now on is woken, unless a timer expires.
Refresh ==
  /\ epoch' = NextEpoch
  /\ exceeded' = FALSE
  /\ pending' \in BOOLEAN

\* Set with a time in the past.
SetPast ==
  /\ exceeded' = TRUE
  /\ pending' = FALSE
  /\ UNCHANGED epoch

\* The timer of the last Set expires.
Expire ==
  /\ pending
  /\ ~exceeded
  /\ exceeded' = TRUE
  /\ pending' = FALSE
  /\ UNCHANGED epoch

Next == Refresh \/ SetPast \/ Expire

Spec == Init /\ [][Next]_vars
=============================================================================
