---------------------------- MODULE ChargerReach ----------------------------
(***************************************************************************)
(* What the rest of the system sees of the connections: whether a charger  *)
(* has an open socket, and what becomes of a command sent to it.  Nothing  *)
(* is promised about when the entry of an open socket is lost: the end of  *)
(* an older socket may take it away.  ChargerLink implements this.         *)
(***************************************************************************)
CONSTANT Charger

VARIABLES
    up,  \* the charger has an open socket
    reg  \* the registered socket: never any, none now, open, or dead

reachVars == <<up, reg>>

ReachTypeOK ==
    /\ up \in [Charger -> BOOLEAN]
    /\ reg \in [Charger -> {"never", "none", "open", "dead"}]

ReachInit ==
    /\ up = [a \in Charger |-> FALSE]
    /\ reg = [a \in Charger |-> "never"]

\* A charger without an open socket opens one, which is registered.
Arrive(a) ==
    /\ ~up[a]
    /\ up' = [up EXCEPT ![a] = TRUE]
    /\ reg' = [reg EXCEPT ![a] = "open"]

\* The socket is lost; the server does not know yet.
Lose(a) ==
    /\ up[a]
    /\ up' = [up EXCEPT ![a] = FALSE]
    /\ reg' = [reg EXCEPT ![a] = IF @ = "open" THEN "dead" ELSE @]

\* A socket of the charger ends, the registered one or an older one.
Forget(a) ==
    /\ reg[a] \in {"open", "dead"}
    /\ reg' = [reg EXCEPT ![a] = "none"]
    /\ UNCHANGED up

\* The server closes every socket.
Reset ==
    /\ up' = [a \in Charger |-> FALSE]
    /\ reg' = [a \in Charger |-> IF reg[a] = "never" THEN "never" ELSE "none"]

\* What a command to charger a does: "sent" on an open socket; to a socket
\* whose charger is gone the send may still succeed, and the charger never sees
\* it, or raise; "unreachable" without a registered socket.
SendTo(a) ==
    CASE reg[a] = "open" -> {"sent"}
      [] reg[a] = "dead" -> {"lost", "unreachable"}
      [] OTHER           -> {"unreachable"}

ReachNext == Reset \/ \E a \in Charger : Arrive(a) \/ Lose(a) \/ Forget(a)

ReachSpec == ReachInit /\ [][ReachNext]_reachVars
=============================================================================
