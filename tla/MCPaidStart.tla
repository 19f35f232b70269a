---------------------------- MODULE MCPaidStart ----------------------------
(* Instances of PaidStart for TLC.                                         *)
EXTENDS PaidStart

CONSTANT A

\* Every session is for the one charger.
OneCharger == [p \in Pub |-> A]
=============================================================================
