-------------------------------- MODULE Cards --------------------------------
(***************************************************************************)
(* RFID cards: their life cycle (api/tokens.py, and api/auth.py which      *)
(* writes the same table for older clients), their groups (api/groups.py)  *)
(* and what the 1.6 Authorize makes of them (ocpp16/handler.py).  An       *)
(* endpoint reads, updates and logs in statements of their own, each       *)
(* autocommitted; requests interleave between them.  ocpp.token_events has *)
(* no foreign key: a log may be written of a card that has been purged.    *)
(***************************************************************************)
EXTENDS Naturals, FiniteSets

CONSTANTS
    Uid,       \* card uids; a uid stands for its row, and is not reused
    TestUid,   \* uids that look like a test card's
    Group,     \* token groups
    Postpaid,  \* groups billed by invoice or direct debit (set by the operator)
    Req,       \* requests of administrators
    Line,      \* connections of 1.6 chargers
    NoOne,     \* no card, no group
    MaxReqs,   \* bound: requests and Authorize messages
    CardFaults \* TRUE: a request may fail between two statements

ASSUME CardAssumption ==
    /\ TestUid \subseteq Uid
    /\ Postpaid \subseteq Group
    /\ NoOne \notin Uid \cup Group
    /\ MaxReqs \in Nat
    /\ CardFaults \in BOOLEAN

VARIABLES
    card,     \* ocpp.tokens
    audit,    \* the status told by the last entry of a card in ocpp.token_events,
              \* or "none" when no entry tells one
    group,    \* the groups in ocpp.token_groups
    req,      \* what a request is suspended before, and its local variables
    line,     \* what an Authorize found, and _last_auth_billing, of a connection
    started,  \* billing contexts of the sessions started on a connection
    vouched,  \* history: contexts of active cards looked up on a connection
    torn,     \* history: cards whose update and log, or whose purge, were cut or
              \* overtaken by another request
    reqs      \* number of requests and messages so far

cardsVars == <<card, audit, group, req, line, started, vouched, torn, reqs>>

-----------------------------------------------------------------------------
Status == {"none", "ordered", "active", "blocked", "revoked", "purged"}

Card == [status : Status, group : Group \cup {NoOne}, current : BOOLEAN,
         replaces : Uid \cup {NoOne}, by : Uid \cup {NoOne}]

Context == [postpaid : BOOLEAN, group : Group \cup {NoOne}]

Prepaid == [postpaid |-> FALSE, group |-> NoOne]

\* What the lookup of an Authorize found: a card to accept or to refuse.
Verdict == [accept : BOOLEAN, ctx : Context]

Nothing == [accept |-> FALSE, ctx |-> Prepaid]

Request == [pc     : {"idle", "write", "log", "insert", "swap", "log_old",
                      "log_new", "drop", "trail", "rows"},
            uid    : Uid \cup {NoOne},
            new    : Uid \cup {NoOne},
            group  : Group \cup {NoOne},
            status : Status,
            found  : SUBSET Uid]

NoReq == [pc |-> "idle", uid |-> NoOne, new |-> NoOne, group |-> NoOne,
          status |-> "none", found |-> {}]

CardsTypeOK ==
    /\ card \in [Uid -> Card]
    /\ audit \in [Uid -> Status]
    /\ group \subseteq Group
    /\ req \in [Req -> Request]
    /\ line \in [Line -> [asks : BOOLEAN, found : Verdict, last : Context]]
    /\ started \in [Line -> SUBSET Context]
    /\ vouched \in [Line -> SUBSET Context]
    /\ torn \subseteq Uid
    /\ reqs \in Nat

NoCard == [status |-> "none", group |-> NoOne, current |-> TRUE,
           replaces |-> NoOne, by |-> NoOne]

CardsInit ==
    /\ card = [u \in Uid |-> NoCard]
    /\ audit = [u \in Uid |-> "none"]
    /\ group = Group
    /\ req = [r \in Req |-> NoReq]
    /\ line = [l \in Line |-> [asks |-> FALSE, found |-> Nothing, last |-> Prepaid]]
    /\ started = [l \in Line |-> {}]
    /\ vouched = [l \in Line |-> {}]
    /\ torn = {}
    /\ reqs = 0

-----------------------------------------------------------------------------
Exists(u) == card[u].status \notin {"none", "purged"}

\* The cards of which a request has written the status and not yet the log.
UnloggedBy(r) ==
    LET k == req[r]
    IN  CASE k.pc = "log" -> {k.uid}
          [] k.pc = "swap" -> {k.new}
          [] k.pc = "log_old" -> {k.uid, k.new}
          [] k.pc = "log_new" -> {k.new}
          [] OTHER -> {}

Unlogged == UNION {UnloggedBy(r) : r \in Req}

\* The cards that a request is about to write or to log.
AwaitedBy(r) ==
    UnloggedBy(r) \cup
        IF req[r].pc \in {"write", "insert", "swap"} THEN {req[r].uid} ELSE {}

Awaited == UNION {AwaitedBy(r) : r \in Req}

\* The cards whose log entries a purge has deleted, and not yet their rows.
EmptiedBy(r) == IF req[r].pc = "rows" THEN req[r].found ELSE {}

Emptied == UNION {EmptiedBy(r) : r \in Req}

\* A status is written while another request still has to log one, or to delete
\* the row.
Overtake(U) == torn' = torn \cup (U \cap (Unlogged \cup Emptied))

Ask(r)    == req[r].pc = "idle" /\ reqs < MaxReqs /\ reqs' = reqs + 1
Before(r, pc) == req[r].pc = pc /\ UNCHANGED reqs
Call(r, k)    == req' = [req EXCEPT ![r] = k]
NextStep(r, pc)  == req' = [req EXCEPT ![r].pc = pc]
Answer(r)     == req' = [req EXCEPT ![r] = NoReq]

-----------------------------------------------------------------------------
(* Administrators' requests.                                               *)

\* INSERT, which fails on a uid that exists, then the log.
CreateCard(r, u, st, g, current) ==
    /\ Ask(r)
    /\ card[u].status = "none"
    /\ card' = [card EXCEPT ![u] = [NoCard EXCEPT !.status = st, !.group = g,
                                                  !.current = current]]
    /\ Call(r, [NoReq EXCEPT !.pc = "log", !.uid = u, !.status = st])
    /\ UNCHANGED <<audit, group, line, started, vouched, torn>>

\* Everything but the status; its log entry tells no status.
UpdateCard(r, u, g, current) ==
    /\ Ask(r)
    /\ Exists(u)
    /\ card' = [card EXCEPT ![u].group = g, ![u].current = current]
    /\ UNCHANGED <<audit, group, req, line, started, vouched, torn>>

\* activate, block, unblock and revoke: they differ in the status they write,
\* and none looks at the one the card has.
ChangeStatus(r, u, st) ==
    /\ Ask(r)
    /\ Exists(u)
    /\ Call(r, [NoReq EXCEPT !.pc = "write", !.uid = u, !.status = st])
    /\ UNCHANGED <<card, audit, group, line, started, vouched, torn>>

WriteStatus(r) ==
    LET u == req[r].uid
    IN  /\ Before(r, "write")
        /\ card' = IF Exists(u) THEN [card EXCEPT ![u].status = req[r].status]
                   ELSE card
        /\ Overtake({u})
        /\ NextStep(r, "log")
        /\ UNCHANGED <<audit, group, line, started, vouched>>

LogStatus(r) ==
    /\ Before(r, "log")
    /\ audit' = [audit EXCEPT ![req[r].uid] = req[r].status]
    /\ Answer(r)
    /\ UNCHANGED <<card, group, line, started, vouched, torn>>

\* Faulty: the old card is blocked before the new one exists.
ReplaceEarlyBlock(r, u, n) ==
    /\ Ask(r)
    /\ Exists(u) /\ u # n
    /\ card' = [card EXCEPT ![u].status = "blocked", ![u].by = n]
    /\ Call(r, [NoReq EXCEPT !.pc = "insert", !.uid = u, !.new = n,
                             !.group = card[u].group])
    /\ UNCHANGED <<audit, group, line, started, vouched, torn>>

\* replace: the old row is read, the new one inserted as active with the group
\* read, then the old one blocked and linked, then two log entries.
Replace(r, u, n) ==
    /\ Ask(r)
    /\ Exists(u) /\ u # n
    /\ Call(r, [NoReq EXCEPT !.pc = "insert", !.uid = u, !.new = n,
                             !.group = card[u].group])
    /\ UNCHANGED <<card, audit, group, line, started, vouched, torn>>

\* Faulty: two parameters swapped, the old card taken for the group.
ReplaceInsertSwapped(r) ==
    LET n == req[r].new
    IN  /\ Before(r, "insert")
        /\ IF card[n].status = "none"
           THEN /\ card' = [card EXCEPT ![n] = [NoCard EXCEPT !.status = "active",
                                                 !.group = req[r].uid,
                                                 !.replaces = req[r].uid]]
                /\ NextStep(r, "swap")
           ELSE Answer(r) /\ UNCHANGED card
        /\ UNCHANGED <<audit, group, line, started, vouched, torn>>

\* A uid that exists already fails the INSERT and the request.
ReplaceInsert(r) ==
    LET n == req[r].new
    IN  /\ Before(r, "insert")
        /\ IF card[n].status = "none"
           THEN /\ card' = [card EXCEPT ![n] = [NoCard EXCEPT !.status = "active",
                                                 !.group = req[r].group,
                                                 !.replaces = req[r].uid]]
                /\ NextStep(r, "swap")
           ELSE Answer(r) /\ UNCHANGED card
        /\ UNCHANGED <<audit, group, line, started, vouched, torn>>

ReplaceSwap(r) ==
    LET u == req[r].uid
    IN  /\ Before(r, "swap")
        /\ card' = IF Exists(u)
                   THEN [card EXCEPT ![u].status = "blocked", ![u].by = req[r].new]
                   ELSE card
        /\ Overtake({u})
        /\ NextStep(r, "log_old")
        /\ UNCHANGED <<audit, group, line, started, vouched>>

ReplaceLogOld(r) ==
    /\ Before(r, "log_old")
    /\ audit' = [audit EXCEPT ![req[r].uid] = "blocked"]
    /\ NextStep(r, "log_new")
    /\ UNCHANGED <<card, group, line, started, vouched, torn>>

ReplaceLogNew(r) ==
    /\ Before(r, "log_new")
    /\ audit' = [audit EXCEPT ![req[r].new] = "active"]
    /\ Answer(r)
    /\ UNCHANGED <<card, group, line, started, vouched, torn>>

Tests == {u \in TestUid : Exists(u)}

\* purge-test: the ids of the test cards, and when there are any, their log
\* entries, then the rows.
Purge(r) ==
    /\ Ask(r)
    /\ IF Tests = {} THEN UNCHANGED req
       ELSE Call(r, [NoReq EXCEPT !.pc = "trail", !.found = Tests])
    /\ UNCHANGED <<card, audit, group, line, started, vouched, torn>>

\* Faulty: the rows are deleted and their log entries forgotten.
PurgeTrailForgotten(r) ==
    /\ Before(r, "trail")
    /\ NextStep(r, "rows")
    /\ UNCHANGED <<card, audit, group, line, started, vouched, torn>>

\* A log that another request writes after this refers to a row about to go.
PurgeTrail(r) ==
    LET U == req[r].found
    IN  /\ Before(r, "trail")
        /\ audit' = [u \in Uid |-> IF u \in U THEN "none" ELSE audit[u]]
        /\ torn' = torn \cup (U \cap Unlogged)
        /\ NextStep(r, "rows")
        /\ UNCHANGED <<card, group, line, started, vouched>>

\* Not by the ids but by the patterns again: a test card made since the SELECT goes
\* as well, and its log entry stays, as does what a request logs after this.
PurgeRows(r) ==
    /\ Before(r, "rows")
    /\ card' = [u \in Uid |-> IF u \in Tests THEN [NoCard EXCEPT !.status = "purged"]
                              ELSE card[u]]
    /\ torn' = torn \cup (Tests \cap Awaited) \cup (Tests \ Emptied)
    /\ Answer(r)
    /\ UNCHANGED <<audit, group, line, started, vouched>>

\* api/auth.py: one statement and no log.  The upsert keeps the group.
CompatCreate(r, u, st, g) ==
    /\ Ask(r)
    /\ card[u].status # "purged"
    /\ card' = [card EXCEPT ![u] = IF Exists(u) THEN [@ EXCEPT !.status = st]
                                   ELSE [NoCard EXCEPT !.status = st, !.group = g]]
    /\ torn' = torn \cup {u}
    /\ UNCHANGED <<audit, group, req, line, started, vouched>>

\* A field left out of the request keeps its value.
CompatUpdate(r, u, st, g) ==
    /\ Ask(r)
    /\ Exists(u)
    /\ card' = [card EXCEPT ![u].status = st, ![u].group = g]
    /\ torn' = IF st = card[u].status THEN torn ELSE torn \cup {u}
    /\ UNCHANGED <<audit, group, req, line, started, vouched>>

CompatDelete(r, u) ==
    /\ Ask(r)
    /\ Exists(u)
    /\ card' = [card EXCEPT ![u].status = "revoked"]
    /\ torn' = torn \cup {u}
    /\ UNCHANGED <<audit, group, req, line, started, vouched>>

\* A group may go when no card of it is active; the count is read first.
DeleteGroup(r, g) ==
    /\ Ask(r)
    /\ g \in group
    /\ \A u \in Uid : ~(card[u].group = g /\ card[u].status = "active")
    /\ Call(r, [NoReq EXCEPT !.pc = "drop", !.group = g])
    /\ UNCHANGED <<card, audit, group, line, started, vouched, torn>>

DropGroup(r) ==
    /\ Before(r, "drop")
    /\ group' = group \ {req[r].group}
    /\ Answer(r)
    /\ UNCHANGED <<card, audit, line, started, vouched, torn>>

\* A statement fails: what the request has written and not logged stays so, and
\* the cards whose log entries a purge has deleted stay without.
CutRequest(r) ==
    /\ CardFaults
    /\ req[r].pc # "idle"
    /\ torn' = torn \cup UnloggedBy(r) \cup EmptiedBy(r)
    /\ Answer(r)
    /\ UNCHANGED <<card, audit, group, line, started, vouched, reqs>>

-----------------------------------------------------------------------------
(* A 1.6 charger.                                                          *)

\* One SELECT reads the card and, by a LEFT JOIN, the method of its group: a
\* group that is gone gives none, which means prepaid.
Lookup(u) ==
    [accept |-> card[u].status = "active" /\ card[u].current,
     ctx |-> [postpaid |-> card[u].group \in Postpaid \cap group,
              group    |-> card[u].group]]

Authorize(l, u) ==
    /\ ~line[l].asks
    /\ reqs < MaxReqs /\ reqs' = reqs + 1
    /\ line' = [line EXCEPT ![l].asks = TRUE, ![l].found = Lookup(u)]
    /\ vouched' = IF Lookup(u).accept
                  THEN [vouched EXCEPT ![l] = @ \cup {Lookup(u).ctx}] ELSE vouched
    /\ UNCHANGED <<card, audit, group, req, started, torn>>

\* The tags of app sessions and of remote starts are prepaid at once.
AuthorizeApp(l) ==
    /\ ~line[l].asks
    /\ reqs < MaxReqs /\ reqs' = reqs + 1
    /\ line' = [line EXCEPT ![l].last = Prepaid]
    /\ UNCHANGED <<card, audit, group, req, started, vouched, torn>>

\* Faulty: the context is kept before the verdict is looked at.
AuthorizedEarly(l) ==
    /\ line[l].asks
    /\ line' = [line EXCEPT ![l] = [asks |-> FALSE, found |-> Nothing,
                                    last |-> @.found.ctx]]
    /\ UNCHANGED <<card, audit, group, req, started, vouched, torn, reqs>>

\* Only an accepted card changes the context: a refused one leaves the last.
Authorized(l) ==
    /\ line[l].asks
    /\ line' = [line EXCEPT ![l] =
                   [asks |-> FALSE, found |-> Nothing,
                    last |-> IF @.found.accept THEN @.found.ctx ELSE @.last]]
    /\ UNCHANGED <<card, audit, group, req, started, vouched, torn, reqs>>

\* StartTransaction, for any tag, takes the context of the last Authorize.
StartTransaction(l) ==
    /\ ~line[l].asks
    /\ started' = [started EXCEPT ![l] = @ \cup {line[l].last}]
    /\ UNCHANGED <<card, audit, group, req, line, vouched, torn, reqs>>

-----------------------------------------------------------------------------
Administer(r) ==
    \/ \E u \in Uid, st \in {"ordered", "active"}, g \in Group \cup {NoOne},
          current \in BOOLEAN : CreateCard(r, u, st, g, current)
    \/ \E u \in Uid, current \in BOOLEAN : \E g \in Group \cup {card[u].group} :
          UpdateCard(r, u, g, current)
    \/ \E u \in Uid, st \in {"active", "blocked", "revoked"} : ChangeStatus(r, u, st)
    \/ \E u, n \in Uid : Replace(r, u, n)
    \/ Purge(r) \/ PurgeTrail(r) \/ PurgeRows(r)
    \/ \E u \in Uid, st \in {"active", "blocked"}, g \in Group \cup {NoOne} :
          CompatCreate(r, u, st, g)
    \/ \E u \in Uid, g \in Group \cup {NoOne} :
          \E st \in {"active", "blocked", card[u].status} : CompatUpdate(r, u, st, g)
    \/ \E u \in Uid : CompatDelete(r, u)
    \/ \E g \in Group : DeleteGroup(r, g)
    \/ WriteStatus(r) \/ LogStatus(r)
    \/ ReplaceInsert(r) \/ ReplaceSwap(r) \/ ReplaceLogOld(r) \/ ReplaceLogNew(r)
    \/ DropGroup(r)
    \/ CutRequest(r)

CardsNext ==
    \/ \E r \in Req : Administer(r)
    \/ \E l \in Line :
          \/ \E u \in Uid : Authorize(l, u)
          \/ AuthorizeApp(l)
          \/ Authorized(l)
          \/ StartTransaction(l)

CardsSpec == CardsInit /\ [][CardsNext]_cardsVars

-----------------------------------------------------------------------------
(* Properties.                                                             *)

\* The audit trail of a card explains its status: the last entry tells the
\* status the card has, unless an update of the card is still to be logged, its
\* entries are deleted and its row is next, one of these was cut off or overtaken,
\* or the older API wrote the card.
AuditExplains ==
    \A u \in Uid : Exists(u) /\ u \notin torn \cup Unlogged \cup Emptied =>
        audit[u] = card[u].status

\* A purge leaves no trail of the cards it deletes, whatever other requests do
\* between its three statements: what stays is of a card that was made since its
\* SELECT, or that a request was about to write or log.
PurgeClean ==
    \A u \in Uid : card[u].status = "purged" /\ u \notin torn => audit[u] = "none"

\* A card says by which card it was replaced only when that card exists and
\* says it replaces this one, or has since been purged: a replacement that
\* fails half-way leaves two active cards, never a blocked driver without one.
SuccessorFirst ==
    \A u \in Uid : card[u].by # NoOne =>
        LET n == card[u].by IN card[n].status = "purged" \/ card[n].replaces = u

\* The history of a card, its audit trail, its purge and its replacement, can be
\* relied on.
CardsSound == AuditExplains /\ PurgeClean /\ SuccessorFirst

\* A session is billed to a group, or on account, only when an active and
\* current card of that group was looked up on the same connection; whatever
\* cards were refused in between, and whatever happened to the group since.
ContextTrusted ==
    \A l \in Line : started[l] \subseteq vouched[l] \cup {Prepaid}
=============================================================================
