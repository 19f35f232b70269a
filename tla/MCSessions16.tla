---------------------------- MODULE MCSessions16 ----------------------------
(* Instances of Sessions16 for TLC.                                        *)
EXTENDS Sessions16, TLC

CONSTANTS c1, c2, A, B

\* An old and a new connection of one charger.
SameCharger == [c \in Conn |-> A]

\* One connection for each of two chargers.
TwoChargers == c1 :> A @@ c2 :> B

SidPermutations == Permutations(Sid)

Symmetry == Permutations(Sid) \cup Permutations(Conn)
=============================================================================
