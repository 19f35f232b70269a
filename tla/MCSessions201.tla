---------------------------- MODULE MCSessions201 ----------------------------
(* Instances of Sessions201 for TLC.                                       *)
EXTENDS Sessions201, TLC

CONSTANT A

\* An old and a new connection of one charger.
SameCharger == [c \in Conn |-> A]

Symmetry == Permutations(Sid) \cup Permutations(Conn) \cup Permutations(Txn)
=============================================================================
