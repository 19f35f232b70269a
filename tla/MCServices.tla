----------------------------- MODULE MCServices -----------------------------
(***************************************************************************)
(* The fleet, the drivers' accounts, the closer of stale sessions and the  *)
(* live feeds.  Each has tables of its own, so a behaviour of the instance *)
(* takes the steps of one of them.                                         *)
(***************************************************************************)
EXTENDS Fleet, Drivers, StaleCloser, LiveFeed, TLC

VARIABLE part   \* the component whose steps are taken

services == <<fleetVars, driverVars, closerVars, feedVars, part>>

Resting(p) ==
    /\ p # "fleet" => UNCHANGED fleetVars
    /\ p # "drivers" => UNCHANGED driverVars
    /\ p # "closer" => UNCHANGED closerVars
    /\ p # "feed" => UNCHANGED feedVars

ServicesInit ==
    /\ FleetInit /\ DriverInit /\ CloserInit /\ FeedInit
    /\ part \in {"fleet", "drivers", "closer", "feed"}

ServicesNext ==
    /\ UNCHANGED part
    /\ \/ part = "fleet" /\ FleetNext
       \/ part = "drivers" /\ DriverNext
       \/ part = "closer" /\ CloserNext
       \/ part = "feed" /\ FeedNext
    /\ Resting(part)

ServicesSpec == ServicesInit /\ [][ServicesNext]_services

\* Type invariant of the four components: every row, hash, stream, local
\* variable and history variable is of its kind.
ServicesTypeOK == FleetTypeOK /\ DriverTypeOK /\ CloserTypeOK /\ FeedTypeOK

Symmetry == Permutations(Operator)
=============================================================================
