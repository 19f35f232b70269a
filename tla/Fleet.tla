-------------------------------- MODULE Fleet --------------------------------
(***************************************************************************)
(* Chargers as the operator manages them (api/charger_commands.py), while  *)
(* they go on talking (ocpp16/handler.py): rows of the database that refer *)
(* to each other, deleted by statements of their own, and a hash in Redis. *)
(* Only what creates and deletes rows is here; what a session does until   *)
(* it is billed is the matter of Sessions16.                               *)
(***************************************************************************)
EXTENDS Naturals, FiniteSets

CONSTANTS
    Station,    \* charge points
    Virtual,    \* those whose name or vendor is that of a simulated one
    Visit16,    \* sessions of the 1.6 chargers; each is of one row only
    Operator,   \* requests that delete
    MaxWords,   \* bound: messages and other things that create rows
    MaxDeletes  \* bound: deletions

ASSUME FleetAssumption ==
    /\ Station # {} /\ Virtual \subseteq Station
    /\ MaxWords \in Nat /\ MaxDeletes \in Nat

VARIABLES
    points,    \* ids in ocpp.charge_points, and of those the simulated ones
    plugs,     \* chargers with rows in ocpp.connectors
    stay,      \* ocpp.sessions, with its charger, and whether it has a CDR
    shown,     \* the hashes charger:* of Redis
    talk,      \* what the handler of a charger is suspended before
    deletion,  \* what a deletion is suspended before, and whom it deletes
    gone,      \* history: chargers whose deletion was answered as done
    touched,   \* history: chargers that spoke, or were created, since a deletion
               \* of theirs began while no other was under way
    halved,    \* history: chargers a deletion of which ended half-way
    refused,   \* history: a deletion was refused though its chargers were quiet
    words, deletes   \* numbers of messages and deletions so far

fleetVars == <<points, plugs, stay, shown, talk, deletion, gone, touched, halved, refused,
               words, deletes>>

-----------------------------------------------------------------------------
Stay == [state : {"none", "open", "billed", "deleted"}, of : Station]

Deletion == [pc : {"idle", "cdrs", "sessions", "rows", "live"}, of : SUBSET Station,
             all : BOOLEAN]

NoDeletion == [pc |-> "idle", of |-> {}, all |-> FALSE]

AnyCharger == CHOOSE c \in Station : TRUE

FleetTypeOK ==
    /\ points.all \subseteq Station /\ points.simulated \subseteq points.all
    /\ plugs \subseteq Station
    /\ stay \in [Visit16 -> Stay]
    /\ shown \subseteq Station
    /\ talk \in [Station -> {"idle", "live", "row"}]
    /\ deletion \in [Operator -> Deletion]
    /\ gone \subseteq Station /\ touched \subseteq Station /\ halved \subseteq Station
    /\ refused \in BOOLEAN
    /\ words \in Nat /\ deletes \in Nat

FleetInit ==
    /\ points = [all |-> {}, simulated |-> {}]
    /\ plugs = {} /\ shown = {} /\ gone = {} /\ touched = {} /\ halved = {}
    /\ stay = [v \in Visit16 |-> [state |-> "none", of |-> AnyCharger]]
    /\ talk = [c \in Station |-> "idle"]
    /\ deletion = [o \in Operator |-> NoDeletion]
    /\ refused = FALSE
    /\ words = 0 /\ deletes = 0

-----------------------------------------------------------------------------
\* Something is said of a charger.
Word(c) ==
    /\ words < MaxWords /\ words' = words + 1
    /\ touched' = touched \cup {c}

Still(c) == touched' = touched \cup {c} /\ UNCHANGED words

Upsert(c, simulated) ==
    points' = [all |-> points.all \cup {c},
               simulated |-> IF simulated THEN points.simulated \cup {c}
                             ELSE points.simulated \ {c}]

Talk(c, pc) == talk' = [talk EXCEPT ![c] = pc]

\* The row, and then the hash.
BootRow(c) ==
    /\ talk[c] = "idle" /\ Word(c)
    /\ Upsert(c, c \in Virtual)
    /\ Talk(c, "live")
    /\ UNCHANGED <<plugs, stay, shown, deletion, gone, halved, refused, deletes>>

\* A status of the charger itself touches the hash only, and so does the end of
\* the connection; the status of a connector needs the row of its charger.
StatusRow(c, connector) ==
    /\ talk[c] = "idle" /\ Word(c)
    /\ IF connector = 0 THEN UNCHANGED plugs
       ELSE c \in points.all /\ plugs' = plugs \cup {c}
    /\ Talk(c, "live")
    /\ UNCHANGED <<points, stay, shown, deletion, gone, halved, refused, deletes>>

HashSet(c) ==
    /\ talk[c] = "live" /\ Still(c)
    /\ shown' = shown \cup {c}
    /\ Talk(c, "idle")
    /\ UNCHANGED <<points, plugs, stay, deletion, gone, halved, refused, words, deletes>>

\* The hash, and then the row, which is created if it is not there.
Beat(c) ==
    /\ talk[c] = "idle" /\ Word(c)
    /\ shown' = shown \cup {c}
    /\ Talk(c, "row")
    /\ UNCHANGED <<points, plugs, stay, deletion, gone, halved, refused, deletes>>

BeatRow(c) ==
    /\ talk[c] = "row" /\ Still(c)
    /\ Upsert(c, c \in points.simulated)
    /\ Talk(c, "idle")
    /\ UNCHANGED <<plugs, stay, shown, deletion, gone, halved, refused, words, deletes>>

\* A session needs the row of its charger, a CDR that of its session.
StayOpens(v, c) ==
    /\ stay[v].state = "none" /\ c \in points.all /\ Word(c)
    /\ stay' = [stay EXCEPT ![v] = [state |-> "open", of |-> c]]
    /\ UNCHANGED <<points, plugs, shown, talk, deletion, gone, halved, refused, deletes>>

StayBilled(v) ==
    /\ stay[v].state = "open" /\ Word(stay[v].of)
    /\ stay' = [stay EXCEPT ![v].state = "billed"]
    /\ UNCHANGED <<points, plugs, shown, talk, deletion, gone, halved, refused, deletes>>

(* create_charger, update_charger.                                         *)

CreateCharger(c, simulated) ==
    /\ c \notin points.all /\ Word(c)
    /\ Upsert(c, simulated)
    /\ UNCHANGED <<plugs, stay, shown, talk, deletion, gone, halved, refused, deletes>>

UpdateCharger(c) ==
    /\ c \in points.all
    /\ Upsert(c, c \notin points.simulated)
    /\ UNCHANGED <<plugs, stay, shown, talk, deletion, gone, touched, halved, refused, words,
                   deletes>>

-----------------------------------------------------------------------------
(* delete_charger, bulk_delete_chargers.                                   *)

BeginDeletion(o, T, all) ==
    /\ deletion[o].pc = "idle"
    /\ deletes < MaxDeletes /\ deletes' = deletes + 1
    /\ deletion' = [deletion EXCEPT ![o] = [pc |-> "cdrs", of |-> T, all |-> all]]
    /\ touched' = IF \E p \in Operator : deletion[p].pc # "idle" THEN touched
                  ELSE touched \ T
    /\ halved' = halved \ T
    /\ gone' = gone \ T
    /\ UNCHANGED <<points, plugs, stay, shown, talk, refused, words>>

DeleteCharger(o, c) == c \in points.all /\ BeginDeletion(o, {c}, FALSE)

\* The simulated ones, by the flag or by the name; or simply all there are.
BulkDelete(o, simulated) ==
    IF simulated
    THEN /\ points.all \cap (points.simulated \cup Virtual) # {}
         /\ BeginDeletion(o, points.all \cap (points.simulated \cup Virtual), FALSE)
    ELSE BeginDeletion(o, points.all, TRUE)

\* The sessions, and the rows, a statement of the deletion is about.
StaysOf(d) == {v \in Visit16 : stay[v].state \in {"open", "billed"} /\ (d.all \/ stay[v].of \in d.of)}
RowsOf(d)  == IF d.all THEN points.all ELSE points.all \cap d.of

Advance(o, pc) == deletion' = [deletion EXCEPT ![o].pc = pc]

\* The meter values before, which nothing refers to, and the CDRs.
DeleteCdrs(o) ==
    LET d == deletion[o]
    IN  /\ d.pc = "cdrs"
        /\ stay' = [v \in Visit16 |-> IF v \in StaysOf(d) THEN [stay[v] EXCEPT !.state = "open"]
                                      ELSE stay[v]]
        /\ Advance(o, "sessions")
        /\ UNCHANGED <<points, plugs, shown, talk, gone, touched, halved, refused, words, deletes>>

\* A statement that would leave a CDR without its session, or a session without
\* its charger, is refused; what was deleted before stays deleted.
Refused(o, T) ==
    /\ refused' = (refused \/ T \cap touched = {})
    /\ halved' = halved \cup deletion[o].of
    /\ deletion' = [deletion EXCEPT ![o] = NoDeletion]
    /\ UNCHANGED <<points, plugs, stay, shown, talk, gone, touched, words, deletes>>

DeleteSessions(o) ==
    LET d == deletion[o]
    IN  /\ d.pc = "sessions"
        /\ \A v \in StaysOf(d) : stay[v].state = "open"
        /\ stay' = [v \in Visit16 |-> IF v \in StaysOf(d)
                                      THEN [state |-> "deleted", of |-> AnyCharger] ELSE stay[v]]
        /\ Advance(o, "rows")
        /\ UNCHANGED <<points, plugs, shown, talk, gone, touched, halved, refused, words, deletes>>

SessionsRefused(o) ==
    LET billed == {v \in StaysOf(deletion[o]) : stay[v].state = "billed"}
    IN  /\ deletion[o].pc = "sessions" /\ billed # {}
        /\ Refused(o, {stay[v].of : v \in billed})

\* The connectors go with their charger.
DeleteRows(o) ==
    LET d == deletion[o]
        T == RowsOf(d)
    IN  /\ d.pc = "rows"
        /\ StaysOf([d EXCEPT !.of = T]) = {}
        /\ points' = [all |-> points.all \ T, simulated |-> points.simulated \ T]
        /\ plugs' = plugs \ T
        /\ Advance(o, "live")
        /\ UNCHANGED <<stay, shown, talk, gone, touched, halved, refused, words, deletes>>

RowsRefused(o) ==
    LET left == StaysOf(deletion[o])
    IN  /\ deletion[o].pc = "rows" /\ left # {}
        /\ Refused(o, {stay[v].of : v \in left})

\* Faulty: the hashes in Redis are left.
DropHashLeft(o) ==
    /\ deletion[o].pc = "live"
    /\ deletion' = [deletion EXCEPT ![o] = NoDeletion]
    /\ gone' = gone \cup deletion[o].of
    /\ UNCHANGED <<points, plugs, stay, shown, talk, touched, halved, refused, words, deletes>>

\* One hash after the other, and then the answer.
DropHash(o) ==
    LET T == deletion[o].of
    IN  /\ deletion[o].pc = "live"
        /\ \/ \E c \in T : shown' = shown \ {c} /\ gone' = gone \cup {c}
              /\ deletion' = [deletion EXCEPT ![o].of = T \ {c}]
           \/ /\ T = {} /\ UNCHANGED <<shown, gone>>
              /\ deletion' = [deletion EXCEPT ![o] = NoDeletion]
        /\ UNCHANGED <<points, plugs, stay, talk, touched, halved, refused, words, deletes>>

\* A crash, or a statement that fails.
DeletionCut(o) ==
    /\ deletion[o].pc # "idle"
    /\ halved' = halved \cup deletion[o].of
    /\ deletion' = [deletion EXCEPT ![o] = NoDeletion]
    /\ UNCHANGED <<points, plugs, stay, shown, talk, gone, touched, refused, words, deletes>>

FleetNext ==
    \/ \E c \in Station :
         \/ BootRow(c) \/ HashSet(c) \/ Beat(c) \/ BeatRow(c) \/ UpdateCharger(c)
         \/ \E connector \in {0, 1} : StatusRow(c, connector)
         \/ \E simulated \in BOOLEAN : CreateCharger(c, simulated)
         \/ \E v \in Visit16 : StayOpens(v, c)
    \/ \E v \in Visit16 : StayBilled(v)
    \/ \E o \in Operator :
         \/ \E c \in Station : DeleteCharger(o, c)
         \/ \E simulated \in BOOLEAN : BulkDelete(o, simulated)
         \/ DeleteCdrs(o) \/ DeleteSessions(o) \/ SessionsRefused(o)
         \/ DeleteRows(o) \/ RowsRefused(o) \/ DropHash(o) \/ DeletionCut(o)

FleetSpec == FleetInit /\ [][FleetNext]_fleetVars

-----------------------------------------------------------------------------
(* Properties.                                                             *)

InDeletion(c) == \E o \in Operator : c \in deletion[o].of

\* A deletion that was answered as done has left nothing of the charger, and
\* the live state never shows a charger the database does not have, unless the
\* charger spoke since the deletion began, or a deletion ended half-way; and
\* only a charger that speaks makes the database refuse a deletion.
FleetSound ==
    /\ \A c \in gone : c \notin touched /\ ~InDeletion(c) =>
         /\ c \notin points.all \cup plugs \cup shown
         /\ \A v \in Visit16 : stay[v].state \in {"open", "billed"} => stay[v].of # c
    /\ \A c \in shown : c \in points.all \/ c \in touched \/ c \in halved \/ InDeletion(c)
    /\ ~refused
=============================================================================
