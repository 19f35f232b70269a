---------------------------- MODULE SessionLedger ----------------------------
(***************************************************************************)
(* What session handling promises the billing, whatever protocol, retry,   *)
(* interleaving or crash produced it: a session opens once, its energy     *)
(* only grows while it is active, closing fixes the energy for good, and a *)
(* closed session is billed at most once, for that energy.                 *)
(***************************************************************************)
EXTENDS Naturals, Sequences

CONSTANT Sid

VARIABLES phase, energy, bills

vars == <<phase, energy, bills>>

Init ==
    /\ phase = [s \in Sid |-> "none"]
    /\ energy = [s \in Sid |-> 0]
    /\ bills = [s \in Sid |-> <<>>]

Open(s) ==
    /\ phase[s] = "none"
    /\ phase' = [phase EXCEPT ![s] = "active"]
    /\ UNCHANGED <<energy, bills>>

\* The running energy of an active session grows.
Grow(s) ==
    /\ phase[s] = "active"
    /\ energy'[s] > energy[s]
    /\ energy' = [energy EXCEPT ![s] = energy'[s]]
    /\ UNCHANGED <<phase, bills>>

\* The final energy may be lower than the running one: the register of the
\* StopTransaction decides.
Close(S) ==
    /\ S # {}
    /\ \A s \in S : phase[s] = "active"
    /\ phase' = [s \in Sid |-> IF s \in S THEN "completed" ELSE phase[s]]
    /\ \E e \in {energy'[s] : s \in S} :
          energy' = [s \in Sid |-> IF s \in S THEN e ELSE energy[s]]
    /\ UNCHANGED bills

Bill(s) ==
    /\ phase[s] = "completed"
    /\ bills[s] = <<>>
    /\ bills' = [bills EXCEPT ![s] = <<energy[s]>>]
    /\ UNCHANGED <<phase, energy>>

Next ==
    \/ \E s \in Sid : Open(s) \/ Grow(s) \/ Bill(s)
    \/ \E S \in SUBSET Sid : Close(S)

Spec == Init /\ [][Next]_vars
=============================================================================
