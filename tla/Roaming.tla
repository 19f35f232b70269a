------------------------------- MODULE Roaming -------------------------------
(***************************************************************************)
(* OCPI roaming: partners that register (ocpi/credentials.py) or are       *)
(* entered by the operator (api/ocpi_management.py), and the tokens they   *)
(* push (ocpi/tokens.py), which a 2.0.1 charger accepts by way of          *)
(* ocpp.authorization_cache.  Statements are autocommitted; requests       *)
(* interleave between them.                                                *)
(***************************************************************************)
EXTENDS Naturals

CONSTANTS
    Partner,    \* (country, party, role) of partners
    Push,       \* requests of partners that are under way
    Edit,       \* updates of a partner by the operator
    RoamUid,    \* uids of roaming tokens
    Fee,        \* fields of a partner's metadata
    Amount,     \* their values
    Unset,      \* no value
    MaxRoam,    \* bound: requests
    RoamFaults  \* TRUE: a request may fail between two statements

ASSUME RoamingAssumption ==
    /\ Unset \notin Amount \cup RoamUid \cup Partner
    /\ Unset \notin BOOLEAN
    /\ MaxRoam \in Nat
    /\ RoamFaults \in BOOLEAN

VARIABLES
    partner,   \* ocpp.ocpi_partners
    token,     \* valid of ocpp.ocpi_tokens
    rcache,    \* status of ocpp.authorization_cache
    push,      \* the local variables of a token push
    edit,      \* the local variables of an update
    asked,     \* history: the fee last given for a partner
    rtorn,     \* history: tokens whose two writes were cut or overtaken
    etorn,     \* history: partners with overlapping updates of their fees
    issued,    \* how many token_a have been issued
    roams      \* number of requests so far

roamingVars == <<partner, token, rcache, push, edit, asked, rtorn, etorn, issued, roams>>

-----------------------------------------------------------------------------
Fees == [Fee -> Amount \cup {Unset}]

NoFees == [f \in Fee |-> Unset]

\* id and token_a are fresh for every row and registration: numbers.
PartnerRow == [status : {"none", "pending", "active", "suspended"},
               id : Nat, tokenA : Nat, fees : Fees]

PushStep == [pc : {"idle", "token", "cache"}, uid : RoamUid \cup {Unset},
             valid : BOOLEAN, upsert : BOOLEAN]

EditStep == [pc : {"idle", "write"}, who : Partner \cup {Unset}, id : Nat,
             fees : Fees]

NoPush == [pc |-> "idle", uid |-> Unset, valid |-> FALSE, upsert |-> FALSE]
NoEdit == [pc |-> "idle", who |-> Unset, id |-> 0, fees |-> NoFees]

RoamingTypeOK ==
    /\ partner \in [Partner -> PartnerRow]
    /\ token \in [RoamUid -> BOOLEAN \cup {Unset}]
    /\ rcache \in [RoamUid -> {"Accepted", "Blocked", "absent"}]
    /\ push \in [Push -> PushStep]
    /\ edit \in [Edit -> EditStep]
    /\ asked \in [Partner -> Fees]
    /\ rtorn \subseteq RoamUid
    /\ etorn \subseteq Partner
    /\ issued \in Nat
    /\ roams \in Nat

RoamingInit ==
    /\ partner = [p \in Partner |-> [status |-> "none", id |-> 0, tokenA |-> 0,
                                     fees |-> NoFees]]
    /\ token = [u \in RoamUid |-> Unset]
    /\ rcache = [u \in RoamUid |-> "absent"]
    /\ push = [q \in Push |-> NoPush]
    /\ edit = [e \in Edit |-> NoEdit]
    /\ asked = [p \in Partner |-> NoFees]
    /\ rtorn = {}
    /\ etorn = {}
    /\ issued = 0
    /\ roams = 0

-----------------------------------------------------------------------------
Known(p) == partner[p].status # "none"

NewRoam == roams < MaxRoam /\ roams' = roams + 1

tokenVars   == <<token, rcache, push, rtorn>>
partnerVars == <<partner, edit, asked, etorn, issued>>

-----------------------------------------------------------------------------
(* Partners.                                                               *)

\* The handshake inserts the partner or renews the row it has: fees stay.
PostCredentials(p) ==
    /\ NewRoam
    /\ issued' = issued + 1
    /\ partner' = [partner EXCEPT ![p] =
         IF Known(p) THEN [@ EXCEPT !.status = "active", !.tokenA = issued']
         ELSE [status |-> "active", id |-> issued', tokenA |-> issued',
               fees |-> NoFees]]
    /\ asked' = IF Known(p) THEN asked ELSE [asked EXCEPT ![p] = NoFees]
    /\ UNCHANGED <<edit, etorn, tokenVars>>

\* verify_ocpi_token: some active partner holds the token of the request.
Verified(t) == \E p \in Partner : partner[p].status = "active" /\ partner[p].tokenA = t

DeleteCredentials(p) ==
    /\ NewRoam
    /\ Verified(partner[p].tokenA)
    /\ partner' = [partner EXCEPT ![p].status = "suspended"]
    /\ UNCHANGED <<edit, asked, etorn, issued, tokenVars>>

\* The operator's insert, with the fees that are given.
CreatePartner(p, fees) ==
    /\ NewRoam
    /\ ~Known(p)
    /\ issued' = issued + 1
    /\ partner' = [partner EXCEPT ![p] = [status |-> "pending", id |-> issued',
                                          tokenA |-> issued', fees |-> fees]]
    /\ asked' = [asked EXCEPT ![p] = fees]
    /\ UNCHANGED <<edit, etorn, tokenVars>>

\* An update of columns only is one statement.
UpdateStatus(p, st) ==
    /\ NewRoam
    /\ Known(p)
    /\ partner' = [partner EXCEPT ![p].status = st]
    /\ UNCHANGED <<edit, asked, etorn, issued, tokenVars>>

\* An update of fees reads the metadata, merges, and writes it back by id.
UpdateFees(e, p, f, a) ==
    /\ NewRoam
    /\ edit[e].pc = "idle"
    /\ Known(p)
    /\ edit' = [edit EXCEPT ![e] = [pc |-> "write", who |-> p, id |-> partner[p].id,
                                    fees |-> [partner[p].fees EXCEPT ![f] = a]]]
    /\ asked' = [asked EXCEPT ![p][f] = a]
    /\ etorn' = IF \E o \in Edit \ {e} : edit[o].who = p THEN etorn \cup {p} ELSE etorn
    /\ UNCHANGED <<partner, issued, tokenVars>>

WriteFees(e) ==
    LET p == edit[e].who
    IN  /\ edit[e].pc = "write"
        /\ partner' = IF Known(p) /\ partner[p].id = edit[e].id
                      THEN [partner EXCEPT ![p].fees = edit[e].fees] ELSE partner
        /\ edit' = [edit EXCEPT ![e] = NoEdit]
        /\ UNCHANGED <<asked, etorn, issued, roams, tokenVars>>

DeletePartner(p) ==
    /\ NewRoam
    /\ Known(p)
    /\ partner' = [partner EXCEPT ![p].status = "none"]
    /\ etorn' = etorn \cup {q \in {p} : \E o \in Edit : edit[o].who = q}
    /\ UNCHANGED <<edit, asked, issued, tokenVars>>

-----------------------------------------------------------------------------
(* Tokens.                                                                 *)

Overtaken(q, u) == \E o \in Push \ {q} : push[o].pc = "cache" /\ push[o].uid = u

\* A request is let in by the token of its partner; what the partner's status
\* becomes after that it does not look at.
Receive(q, p, u, valid, upsert) ==
    /\ NewRoam
    /\ push[q].pc = "idle"
    /\ Known(p) /\ Verified(partner[p].tokenA)
    /\ push' = [push EXCEPT ![q] = [pc |-> "token", uid |-> u, valid |-> valid,
                                    upsert |-> upsert]]
    /\ UNCHANGED <<token, rcache, rtorn, partnerVars>>

\* PUT upserts the token; PATCH updates it if it is there.
WriteToken(q) ==
    LET u == push[q].uid
    IN  /\ push[q].pc = "token"
        /\ token' = IF push[q].upsert \/ token[u] # Unset
                    THEN [token EXCEPT ![u] = push[q].valid] ELSE token
        /\ rtorn' = IF Overtaken(q, u) THEN rtorn \cup {u} ELSE rtorn
        /\ push' = [push EXCEPT ![q].pc = "cache"]
        /\ UNCHANGED <<rcache, roams, partnerVars>>

\* Faulty: a token pushed as invalid is left out of the cache.
WriteCacheValid(q) ==
    /\ push[q].pc = "cache"
    /\ rcache' = IF push[q].valid THEN [rcache EXCEPT ![push[q].uid] = "Accepted"]
                 ELSE rcache
    /\ push' = [push EXCEPT ![q] = NoPush]
    /\ UNCHANGED <<token, rtorn, roams, partnerVars>>

\* The same for the row a charger's Authorize reads.
WriteCache(q) ==
    LET u == push[q].uid
    IN  /\ push[q].pc = "cache"
        /\ rcache' = IF push[q].upsert \/ rcache[u] # "absent"
                     THEN [rcache EXCEPT ![u] = IF push[q].valid THEN "Accepted"
                                                ELSE "Blocked"]
                     ELSE rcache
        /\ push' = [push EXCEPT ![q] = NoPush]
        /\ UNCHANGED <<token, rtorn, roams, partnerVars>>

\* A statement of a push fails.
CutPush(q) ==
    /\ RoamFaults
    /\ push[q].pc # "idle"
    /\ rtorn' = IF push[q].pc = "cache" THEN rtorn \cup {push[q].uid} ELSE rtorn
    /\ push' = [push EXCEPT ![q] = NoPush]
    /\ UNCHANGED <<token, rcache, roams, partnerVars>>

-----------------------------------------------------------------------------
RoamingNext ==
    \/ \E p \in Partner :
         \/ PostCredentials(p) \/ DeleteCredentials(p) \/ DeletePartner(p)
         \/ \E fees \in Fees : CreatePartner(p, fees)
         \/ \E st \in {"pending", "active", "suspended"} : UpdateStatus(p, st)
         \/ \E e \in Edit, f \in Fee, a \in Amount : UpdateFees(e, p, f, a)
         \/ \E q \in Push, u \in RoamUid, valid, upsert \in BOOLEAN :
              Receive(q, p, u, valid, upsert)
    \/ \E e \in Edit : WriteFees(e)
    \/ \E q \in Push : WriteToken(q) \/ WriteCache(q) \/ CutPush(q)

RoamingSpec == RoamingInit /\ [][RoamingNext]_roamingVars

-----------------------------------------------------------------------------
(* Properties.                                                             *)

\* A charger accepts a roaming token exactly when the partner last said it is
\* valid: the two tables agree on every token, unless a push of it is between
\* its two statements, was cut there, or was overtaken there by another push.
RoamingCacheAgrees ==
    \A u \in RoamUid :
        u \in rtorn \/ (\E q \in Push : push[q].pc = "cache" /\ push[q].uid = u) \/
        rcache[u] = CASE token[u] = Unset -> "absent"
                      [] token[u] = TRUE  -> "Accepted"
                      [] token[u] = FALSE -> "Blocked"

\* The fees of a partner are the last ones the operator gave, each field by
\* itself, through registrations and updates of other fields, unless two
\* updates of the partner's fees overlapped.
MergeKeeps ==
    \A p \in Partner :
        p \in etorn \/ ~Known(p) \/ (\E e \in Edit : edit[e].who = p) \/
        partner[p].fees = asked[p]

\* What a partner said of a token, and the operator of a partner, is what counts.
RoamingSound == RoamingCacheAgrees /\ MergeKeeps
=============================================================================
