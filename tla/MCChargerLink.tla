--------------------------- MODULE MCChargerLink ---------------------------
(* Instances of ChargerLink for TLC.                                       *)
EXTENDS ChargerLink

CONSTANTS c1, c2, c3, A, B

\* Sockets of one charger.
OneCharger == [c \in Conn |-> A]

\* Two sockets of one charger and one of another.
TwoChargers == [c \in Conn |-> IF c = c3 THEN B ELSE A]
=============================================================================
