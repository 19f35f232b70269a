------------------------------ MODULE MCAccess ------------------------------
(***************************************************************************)
(* Who is let in to charge: the operator's own cards (ocpp.tokens, read by *)
(* the 1.6 Authorize) and roaming tokens (ocpp.authorization_cache, read   *)
(* by the 2.0.1 one).  The two keep no state in common, so a behaviour of  *)
(* the instance takes the steps of one of them.  Cards have two parts:     *)
(* "cards" has all their steps for all cards but the spare ones; "purge"   *)
(* has all cards, and no groups and chargers, which a purge does not read. *)
(***************************************************************************)
EXTENDS Cards, Roaming, TLC

CONSTANTS
    Spare,      \* cards that only the part "purge" makes
    MaxAlone    \* requests of that part

VARIABLE part   \* the component whose steps are taken

accessVars == <<cardsVars, roamingVars, part>>

AccessInit ==
    /\ CardsInit
    /\ RoamingInit
    /\ part \in {"cards", "purge", "roaming"}

\* Bounds of the two parts.
SparesUnused ==
    /\ \A u \in Spare : card'[u] = NoCard
    /\ \A r \in Req : req'[r].new \notin Spare
CardsAlone ==
    /\ reqs' <= MaxAlone
    /\ UNCHANGED <<group, line, started, vouched>>
    /\ \A u \in Uid : card'[u].group = NoOne
    /\ \A r \in Req : req'[r].pc # "drop"

AccessNext ==
    /\ UNCHANGED part
    /\ \/ part = "cards" /\ CardsNext /\ SparesUnused /\ UNCHANGED roamingVars
       \/ part = "purge" /\ CardsNext /\ CardsAlone /\ UNCHANGED roamingVars
       \/ part = "roaming" /\ RoamingNext /\ UNCHANGED cardsVars

AccessSpec == AccessInit /\ [][AccessNext]_accessVars

\* Type invariant of both components: every row, local variable and history
\* variable of cards and roaming is of its kind.
AccessTypeOK == CardsTypeOK /\ RoamingTypeOK

Symmetry == Permutations(Req) \cup Permutations(Push)
=============================================================================
