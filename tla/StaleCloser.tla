----------------------------- MODULE StaleCloser -----------------------------
(***************************************************************************)
(* The task that closes sessions nobody charges in any more                *)
(* (tasks/stale_sessions.py), beside the handlers of the same sessions.    *)
(* Nothing in the repository starts it: this is what it does when run.     *)
(* A scan is one transaction, so its updates show when it commits and hold *)
(* the rows until then; what it deletes in Redis is deleted at once.       *)
(***************************************************************************)
EXTENDS Naturals, FiniteSets

CONSTANTS
    Charge,      \* sessions, each at a connector of its own
    Charge201,   \* those of OCPP 2.0.1 chargers, whose connector status has another key
    NoCharge,    \* no session
    MaxScans,    \* bound: scans
    MaxReadings  \* bound: MeterValues messages

ASSUME CloserAssumption ==
    /\ Charge201 \subseteq Charge /\ NoCharge \notin Charge
    /\ MaxScans \in Nat /\ MaxReadings \in Nat

VARIABLES
    charge,    \* ocpp.sessions, with its readings: the row's status, and when and
               \* at what power it was last metered
    plugged,   \* sessions whose connector is Charging or suspended, by Redis
    lit,       \* the hashes session:* of Redis
    opening,   \* sessions whose StartTransaction has not written its hash yet
    reading,   \* what a MeterValues handler is suspended before
    stopping,  \* what a StopTransaction handler is suspended before
    scan,      \* the scan: where it is and its local variables
    billed,    \* sessions with a CDR
    ended,     \* history: sessions whose StopTransaction was answered
    crossed,   \* history: sessions stopped while on a scan's list
    torn,      \* history: sessions whose hash a scan deleted and then rolled back
    late,      \* history: sessions a reading was under way for when they lost it
    scans, readings   \* numbers of scans and of readings so far

closerVars == <<charge, plugged, lit, opening, reading, stopping, scan, billed, ended,
                crossed, torn, late, scans, readings>>
handled == <<opening, reading, stopping, billed, ended>>

-----------------------------------------------------------------------------
\* "fresh": a reading of 0.5 kW or more in five minutes, or just started; "weak":
\* only lower ones; "pause": none with a power; "quiet": none in fifteen minutes.
Metered == {"fresh", "weak", "pause", "quiet"}

Scan == [pc     : {"idle", "first", "second"},
         todo   : SUBSET Charge,               \* rows of the list to go through
         listed : SUBSET Charge,               \* rows of the first list
         at     : Charge \cup {NoCharge},      \* the row that is being closed
         marked : SUBSET Charge]               \* rows it has updated

NoScan == [pc |-> "idle", todo |-> {}, listed |-> {}, at |-> NoCharge, marked |-> {}]

CloserTypeOK ==
    /\ charge \in [Charge -> [status : {"none", "active", "completed", "Completed"},
                              meter : Metered]]
    /\ plugged \subseteq Charge /\ lit \subseteq Charge /\ opening \subseteq Charge
    /\ reading \in [Charge -> {"idle", "store", "live"}]
    /\ stopping \in [Charge -> {"idle", "live", "bill"}]
    /\ scan \in Scan
    /\ \A S \in {billed, ended, crossed, torn, late} : S \subseteq Charge
    /\ scans \in Nat /\ readings \in Nat

CloserInit ==
    /\ charge = [c \in Charge |-> [status |-> "none", meter |-> "fresh"]]
    /\ plugged = {} /\ lit = {} /\ opening = {} /\ billed = {} /\ ended = {}
    /\ crossed = {} /\ torn = {} /\ late = {}
    /\ reading = [c \in Charge |-> "idle"]
    /\ stopping = [c \in Charge |-> "idle"]
    /\ scan = NoScan
    /\ scans = 0 /\ readings = 0

Active(c) == charge[c].status = "active"

-----------------------------------------------------------------------------
(* The handlers.                                                           *)

StartCharge(c) ==
    /\ charge[c].status = "none"
    /\ charge' = [charge EXCEPT ![c].status = "active"]
    /\ opening' = opening \cup {c}
    /\ UNCHANGED <<plugged, lit, reading, stopping, scan, billed, ended, crossed, torn, late,
                   scans, readings>>

StartHash(c) ==
    /\ c \in opening
    /\ opening' = opening \ {c}
    /\ lit' = lit \cup {c}
    /\ UNCHANGED <<charge, plugged, reading, stopping, scan, billed, ended, crossed, torn,
                   late, scans, readings>>

\* The connector's status, as StatusNotification keeps it in Redis.
PlugChanges(c) ==
    /\ Active(c)
    /\ plugged' = IF c \in plugged THEN plugged \ {c} ELSE plugged \cup {c}
    /\ UNCHANGED <<charge, lit, handled, scan, crossed, torn, late, scans, readings>>

\* The session is looked up, its reading stored, its hash updated: three calls,
\* and none looks again whether the session is still there.  A scan that has not
\* committed is not seen.
ReadingComes(c) ==
    /\ reading[c] = "idle" /\ Active(c) /\ c \notin opening
    /\ readings < MaxReadings /\ readings' = readings + 1
    /\ reading' = [reading EXCEPT ![c] = "store"]
    /\ late' = IF c \in scan.marked THEN late \cup {c} ELSE late
    /\ UNCHANGED <<charge, plugged, lit, opening, stopping, scan, billed, ended, crossed,
                   torn, scans>>

\* A reading has the time of the charger's clock, which may be in the past.
StoreReading(c, power) ==
    /\ reading[c] = "store"
    /\ reading' = [reading EXCEPT ![c] = "live"]
    /\ charge' = [charge EXCEPT ![c].meter =
                    IF power = "past" THEN @
                    ELSE IF power = "strong" \/ @ = "fresh" THEN "fresh"
                    ELSE IF power = "weak" THEN "weak"
                    ELSE IF @ = "quiet" THEN "pause" ELSE @]
    /\ UNCHANGED <<plugged, lit, opening, stopping, scan, billed, ended, crossed, torn, late,
                   scans, readings>>

ReadingHash(c) ==
    /\ reading[c] = "live"
    /\ reading' = [reading EXCEPT ![c] = "idle"]
    /\ lit' = lit \cup {c}
    /\ UNCHANGED <<charge, plugged, opening, stopping, scan, billed, ended, crossed, torn,
                   late, scans, readings>>

Listed(c) == c \in scan.todo \/ scan.at = c

\* StopTransaction waits for a scan that holds the row, and then looks for an
\* active session.
StopRow(c) ==
    /\ stopping[c] = "idle" /\ c \notin ended \cup opening \cup scan.marked
    /\ Active(c)
    /\ charge' = [charge EXCEPT ![c].status = "completed"]
    /\ stopping' = [stopping EXCEPT ![c] = "live"]
    /\ crossed' = IF Listed(c) THEN crossed \cup {c} ELSE crossed
    /\ UNCHANGED <<plugged, lit, opening, reading, scan, billed, ended, torn, late, scans,
                   readings>>

StopFindsNone(c) ==
    /\ stopping[c] = "idle" /\ c \notin ended \cup scan.marked
    /\ charge[c].status = "Completed"
    /\ ended' = ended \cup {c}
    /\ UNCHANGED <<charge, plugged, lit, opening, reading, stopping, scan, billed, crossed,
                   torn, late, scans, readings>>

StopHash(c) ==
    /\ stopping[c] = "live"
    /\ stopping' = [stopping EXCEPT ![c] = "bill"]
    /\ lit' = lit \ {c}
    /\ late' = IF reading[c] # "idle" THEN late \cup {c} ELSE late
    /\ UNCHANGED <<charge, plugged, opening, reading, scan, billed, ended, crossed, torn,
                   scans, readings>>

StopBill(c) ==
    /\ stopping[c] = "bill"
    /\ stopping' = [stopping EXCEPT ![c] = "idle"]
    /\ billed' = billed \cup {c} /\ ended' = ended \cup {c}
    /\ UNCHANGED <<charge, plugged, lit, opening, reading, scan, crossed, torn, late, scans,
                   readings>>

\* Minutes pass; not during a scan, whose now() is that of its transaction.
MinutesPass(c) ==
    /\ Active(c) /\ c \notin opening /\ scan.pc = "idle"
    /\ \E m \in Metered :
         /\ <<charge[c].meter, m>> \in {<<"fresh", "weak">>, <<"fresh", "pause">>,
                                        <<"weak", "pause">>, <<"pause", "quiet">>}
         /\ charge' = [charge EXCEPT ![c].meter = m]
    /\ UNCHANGED <<plugged, lit, handled, scan, crossed, torn, late, scans, readings>>

-----------------------------------------------------------------------------
(* close_stale_sessions.                                                   *)

ScanQuiet ==
    /\ scan.pc = "idle" /\ scans < MaxScans
    /\ scans' = scans + 1
    /\ LET quiet == {c \in Charge : Active(c) /\ charge[c].meter = "quiet"}
       IN  scan' = [NoScan EXCEPT !.pc = "first", !.todo = quiet, !.listed = quiet]
    /\ UNCHANGED <<charge, plugged, lit, handled, crossed, torn, late, readings>>

ScanWeak ==
    /\ scan.pc = "first" /\ scan.todo = {} /\ scan.at = NoCharge
    /\ LET weak == {c \in Charge : Active(c) /\ charge[c].meter = "weak"}
       IN  scan' = [scan EXCEPT !.pc = "second", !.todo = weak \ (scan.listed \cup scan.marked)]
    /\ UNCHANGED <<charge, plugged, lit, handled, crossed, torn, late, scans, readings>>

\* The status is looked for under a key that only 1.6 chargers have.
LookAtPlug(c) ==
    /\ scan.pc # "idle" /\ scan.at = NoCharge /\ c \in scan.todo
    /\ scan' = [scan EXCEPT !.todo = @ \ {c},
                            !.at = IF c \in plugged \ Charge201 THEN NoCharge ELSE c]
    /\ UNCHANGED <<charge, plugged, lit, handled, crossed, torn, late, scans, readings>>

\* Whatever the status is by now.
MarkClosed ==
    /\ scan.at # NoCharge /\ scan.at \notin scan.marked
    /\ scan' = [scan EXCEPT !.marked = @ \cup {scan.at}]
    /\ UNCHANGED <<charge, plugged, lit, handled, crossed, torn, late, scans, readings>>

\* Faulty: the hash of a session whose connector is plugged in is left.
DropLiveLeft ==
    /\ scan.at \in scan.marked
    /\ lit' = lit \ ({scan.at} \ plugged)
    /\ late' = IF reading[scan.at] # "idle" THEN late \cup {scan.at} ELSE late
    /\ scan' = [scan EXCEPT !.at = NoCharge]
    /\ UNCHANGED <<charge, plugged, handled, crossed, torn, scans, readings>>

DropLive ==
    /\ scan.at \in scan.marked
    /\ lit' = lit \ {scan.at}
    /\ late' = IF reading[scan.at] # "idle" THEN late \cup {scan.at} ELSE late
    /\ scan' = [scan EXCEPT !.at = NoCharge]
    /\ UNCHANGED <<charge, plugged, handled, crossed, torn, scans, readings>>

ScanCommits ==
    /\ scan.pc = "second" /\ scan.todo = {} /\ scan.at = NoCharge
    /\ charge' = [c \in Charge |-> IF c \in scan.marked
                                   THEN [charge[c] EXCEPT !.status = "Completed"] ELSE charge[c]]
    /\ scan' = NoScan
    /\ UNCHANGED <<plugged, lit, handled, crossed, torn, late, scans, readings>>

\* A call raises or the process dies: the transaction is rolled back, Redis is not.
ScanFails ==
    /\ scan.pc # "idle"
    /\ torn' = torn \cup (scan.marked \ {scan.at})
    /\ scan' = NoScan
    /\ UNCHANGED <<charge, plugged, lit, handled, crossed, late, scans, readings>>

CloserNext ==
    \/ \E c \in Charge :
         \/ StartCharge(c) \/ StartHash(c) \/ PlugChanges(c)
         \/ ReadingComes(c) \/ ReadingHash(c)
         \/ \E power \in {"strong", "weak", "none", "past"} : StoreReading(c, power)
         \/ StopRow(c) \/ StopFindsNone(c) \/ StopHash(c) \/ StopBill(c)
         \/ MinutesPass(c) \/ LookAtPlug(c)
    \/ ScanQuiet \/ ScanWeak \/ MarkClosed \/ DropLive \/ ScanCommits \/ ScanFails

CloserSpec == CloserInit /\ [][CloserNext]_closerVars

-----------------------------------------------------------------------------
(* Properties.                                                             *)

\* A session is billed or closed by the task, and both only if it was stopped
\* while a scan had it on its list; one that stopped without a bill is one the
\* task closed.  An active session has its hash unless a scan took it and was
\* rolled back, and one that is not active has none unless a reading was under way.
CloserSound ==
    /\ \A c \in billed : charge[c].status = "completed" \/ c \in crossed
    /\ \A c \in ended : c \in billed \/ charge[c].status = "Completed"
    /\ \A c \in Charge :
         Active(c) => c \in lit \cup opening \cup torn \cup (scan.marked \ {scan.at})
    /\ \A c \in lit : Active(c) \/ stopping[c] = "live" \/ c \in late
=============================================================================
