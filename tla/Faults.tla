------------------------------- MODULE Faults -------------------------------
(***************************************************************************)
(* What the gateway cannot rely on: a call to one of the databases, or the *)
(* connection to the web server, may fail, and what that server sends may  *)
(* be malformed.  Each kind fails at most once in a behaviour and at most  *)
(* MaxFaults kinds fail, so `faults' also tells which failed so far.       *)
(* Failures, and everything else that comes from outside, are together at  *)
(* most MaxEvents.                                                         *)
(***************************************************************************)
EXTENDS Naturals, FiniteSets

CONSTANTS MaxFaults, MaxEvents
ASSUME BoundsAssumption == MaxFaults \in Nat /\ MaxEvents \in Nat

VARIABLES faults,  \* the kinds of calls that failed
          events   \* how many things came from outside

Works == UNCHANGED <<faults, events>>

Happens == events < MaxEvents /\ events' = events + 1

Fails(kind) ==
    /\ kind \notin faults /\ Cardinality(faults) < MaxFaults
    /\ faults' = faults \cup {kind} /\ Happens
=============================================================================
