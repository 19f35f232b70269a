---------------------------- MODULE ChargerLink ----------------------------
(***************************************************************************)
(* The connections of OCPP 1.6 chargers: the websocket server              *)
(* (ocpp16/server.py), the callbacks of main.py that keep the table of     *)
(* handlers, the handlers' boot, heartbeat and disconnect steps            *)
(* (ocpp16/handler.py), and the registry through which the rest of the     *)
(* system sends commands (state/charger_registry.py).                      *)
(*                                                                         *)
(* Both tables are keyed by charger, and the end of a socket pops the key  *)
(* whoever it stands for.  The server does not ping, so the coroutine of a *)
(* socket whose charger is gone may find out at any later time, after the  *)
(* charger has come back on another socket.  The 2.0.1 server has the same *)
(* tables and the same coroutine.                                          *)
(***************************************************************************)
EXTENDS Naturals

CONSTANTS
    Conn,       \* websockets, each opened once
    Charger,    \* charge point ids
    ChargerOf,  \* the charger that opens a socket
    None,       \* no socket
    MaxFaults   \* bound: awaits that raise and restarts of the process

ASSUME LinkAssumption ==
    /\ ChargerOf \in [Conn -> Charger]
    /\ None \notin Conn
    /\ MaxFaults \in Nat

VARIABLES
    net,       \* the socket as the charger sees it
    coro,      \* the server's coroutine for the socket
    conns,     \* OCPP16Server._connections
    handlers,  \* main._handlers_16, a handler named by its socket
    shown,     \* status in the Redis hash of a charger
    row,       \* status in ocpp.charge_points
    crossed,   \* history: chargers that opened a socket before an older one had ended
    faults     \* how many faults have happened

vars == <<net, coro, conns, handlers, shown, row, crossed, faults>>

Status == {"unknown", "online", "offline"}

\* Where the coroutine is suspended in a handler, in the end of the socket.
Handling == {"hb_row", "boot_live", "spawn"}
Closing  == {"off_live", "off_row"}

TypeOK ==
    /\ net \in [Conn -> {"new", "open", "gone"}]
    /\ coro \in [Conn -> {"none", "loop", "ended"} \cup Handling \cup Closing]
    /\ conns \in [Charger -> Conn \cup {None}]
    /\ handlers \in [Charger -> Conn \cup {None}]
    /\ shown \in [Charger -> Status]
    /\ row \in [Charger -> Status]
    /\ crossed \subseteq Charger
    /\ faults \in 0 .. MaxFaults

Init ==
    /\ net = [c \in Conn |-> "new"]
    /\ coro = [c \in Conn |-> "none"]
    /\ conns = [a \in Charger |-> None]
    /\ handlers = [a \in Charger |-> None]
    /\ shown = [a \in Charger |-> "unknown"]
    /\ row = [a \in Charger |-> "unknown"]
    /\ crossed = {}
    /\ faults = 0

-----------------------------------------------------------------------------
(* Sockets.                                                                *)

At(c, pc)   == coro[c] = pc
Goto(c, pc) == coro' = [coro EXCEPT ![c] = pc]

\* Faulty: an older socket and its handler stay registered until it ends.
ConnectKeepsOld(c) ==
    LET a == ChargerOf[c]
    IN  /\ net[c] = "new"
        /\ \A d \in Conn : ChargerOf[d] = a => net[d] # "open"
        /\ net' = [net EXCEPT ![c] = "open"]
        /\ Goto(c, "loop")
        /\ conns' = [conns EXCEPT ![a] = IF @ = None THEN c ELSE @]
        /\ handlers' = [handlers EXCEPT ![a] = IF @ = None THEN c ELSE @]
        /\ UNCHANGED <<shown, row, crossed, faults>>

\* A charger that has lost its socket opens the next one: the new socket and its
\* handler replace those it had.  No await lies between the two assignments.
Connect(c) ==
    LET a == ChargerOf[c]
    IN  /\ net[c] = "new"
        /\ \A d \in Conn : ChargerOf[d] = a => net[d] # "open"
        /\ net' = [net EXCEPT ![c] = "open"]
        /\ Goto(c, "loop")
        /\ conns' = [conns EXCEPT ![a] = c]
        /\ handlers' = [handlers EXCEPT ![a] = c]
        /\ crossed' = IF \E d \in Conn : ChargerOf[d] = a /\ coro[d] \notin {"none", "ended"}
                      THEN crossed \cup {a} ELSE crossed
        /\ UNCHANGED <<shown, row, faults>>

\* The charger closes the socket, loses power or its network.
Drop(c) ==
    /\ net[c] = "open"
    /\ net' = [net EXCEPT ![c] = "gone"]
    /\ UNCHANGED <<coro, conns, handlers, shown, row, crossed, faults>>

\* Faulty: the end of a socket leaves the table of connections alone.
DetectKeepsConn(c) ==
    LET a == ChargerOf[c]
    IN  /\ At(c, "loop") /\ net[c] = "gone"
        /\ handlers' = [handlers EXCEPT ![a] = None]
        /\ Goto(c, IF handlers[a] = None THEN "ended" ELSE "off_live")
        /\ UNCHANGED <<net, conns, shown, row, crossed, faults>>

\* Faulty: the tables have no entry for a charger without a socket.
DetectRemovesKey(c) ==
    LET a == ChargerOf[c]
    IN  /\ At(c, "loop") /\ net[c] = "gone"
        /\ conns' = [b \in DOMAIN conns \ {a} |-> conns[b]]
        /\ handlers' = [b \in DOMAIN handlers \ {a} |-> handlers[b]]
        /\ Goto(c, IF handlers[a] = None THEN "ended" ELSE "off_live")
        /\ UNCHANGED <<net, shown, row, crossed, faults>>

\* The message loop ends; finally pops the entries of the charger, whichever
\* socket they are for, and runs on_disconnect of the handler it popped.
Detect(c) ==
    LET a == ChargerOf[c]
    IN  /\ At(c, "loop") /\ net[c] = "gone"
        /\ conns' = [conns EXCEPT ![a] = None]
        /\ handlers' = [handlers EXCEPT ![a] = None]
        /\ Goto(c, IF handlers[a] = None THEN "ended" ELSE "off_live")
        /\ UNCHANGED <<net, shown, row, crossed, faults>>

-----------------------------------------------------------------------------
(* Handler steps that keep the status of the charger.                      *)

Show(c, s)   == shown' = [shown EXCEPT ![ChargerOf[c]] = s]
Record(c, s) == row' = [row EXCEPT ![ChargerOf[c]] = s]

\* A message is taken from the socket, maybe one buffered before it dropped.
Heartbeat(c) ==
    /\ At(c, "loop") /\ net[c] # "new"
    /\ Show(c, "online")
    /\ Goto(c, "hb_row")
    /\ UNCHANGED <<net, conns, handlers, row, crossed, faults>>

HeartbeatRow(c) ==
    /\ At(c, "hb_row")
    /\ Record(c, "online")
    /\ Goto(c, "spawn")
    /\ UNCHANGED <<net, conns, handlers, shown, crossed, faults>>

BootNotification(c) ==
    /\ At(c, "loop") /\ net[c] # "new"
    /\ Record(c, "online")
    /\ Goto(c, "boot_live")
    /\ UNCHANGED <<net, conns, handlers, shown, crossed, faults>>

BootLive(c) ==
    /\ At(c, "boot_live")
    /\ Show(c, "online")
    /\ Goto(c, "spawn")
    /\ UNCHANGED <<net, conns, handlers, row, crossed, faults>>

\* The event is published, a task for the pending starts scheduled, and the
\* message answered.
Spawn(c) ==
    /\ At(c, "spawn")
    /\ Goto(c, "loop")
    /\ UNCHANGED <<net, conns, handlers, shown, row, crossed, faults>>

\* Faulty: the row is left to the next boot.
OffLiveOnly(c) ==
    /\ At(c, "off_live")
    /\ Show(c, "offline")
    /\ Goto(c, "ended")
    /\ UNCHANGED <<net, conns, handlers, row, crossed, faults>>

OffLive(c) ==
    /\ At(c, "off_live")
    /\ Show(c, "offline")
    /\ Goto(c, "off_row")
    /\ UNCHANGED <<net, conns, handlers, row, crossed, faults>>

OffRow(c) ==
    /\ At(c, "off_row")
    /\ Record(c, "offline")
    /\ Goto(c, "ended")
    /\ UNCHANGED <<net, conns, handlers, shown, crossed, faults>>

Fault == faults < MaxFaults /\ faults' = faults + 1

\* The await raises: a handler answers InternalError, on_disconnect ends.
Abort(c) ==
    /\ Fault
    /\ coro[c] \in Handling \cup Closing
    /\ Goto(c, IF coro[c] \in Handling THEN "loop" ELSE "ended")
    /\ UNCHANGED <<net, conns, handlers, shown, row, crossed>>

\* The process is restarted: its tables are empty, the sockets are closed, and
\* Redis and the database are left as they were.
Restart ==
    /\ Fault
    /\ net' = [c \in Conn |-> IF net[c] = "new" THEN "new" ELSE "gone"]
    /\ coro' = [c \in Conn |-> IF net[c] = "new" THEN "none" ELSE "ended"]
    /\ conns' = [a \in Charger |-> None]
    /\ handlers' = [a \in Charger |-> None]
    /\ UNCHANGED <<shown, row, crossed>>

-----------------------------------------------------------------------------
\* The steps of a coroutine that is not waiting for the charger.
Step(c) ==
    \/ HeartbeatRow(c) \/ BootLive(c)
    \/ Detect(c) \/ OffLive(c) \/ OffRow(c)

\* What the charger does.
FromCharger(c) ==
    Connect(c) \/ Drop(c) \/ Heartbeat(c) \/ BootNotification(c)

Next ==
    \/ \E c \in Conn : Step(c) \/ FromCharger(c) \/ Spawn(c) \/ Abort(c)
    \/ Restart

Spec == Init /\ [][Next]_vars

-----------------------------------------------------------------------------
\* A registered socket has a coroutine that serves it, and it is the socket of
\* the registered handler: a command is never sent to a socket that has ended,
\* and its answer is handled where the call was registered (server.py:57-70,
\* main.py:76-97, charger_registry.py:72-74).
RegisteredIsServed ==
    \A a \in Charger :
        /\ conns[a] = handlers[a]
        /\ conns[a] # None =>
              ChargerOf[conns[a]] = a /\ coro[conns[a]] \in {"loop"} \cup Handling

\* docs/architecture.md:106, each connected charger has a handler "that lives
\* for the duration of the connection": a charger with an open socket is
\* registered.
ConnectedIsRegistered ==
    \A c \in Conn : net[c] = "open" => handlers[ChargerOf[c]] # None

\* Between messages Redis and the database agree on the status of a charger, and
\* a charger all of whose sockets have ended is not online (docs/architecture.md:111,
\* the end of a socket "calls on_disconnect()"): only a fault, or a socket that
\* ends after its successor was opened, can leave it online for ever
\* (main.py:93-97, handler.py:336-347).
StatusSettled ==
    \A a \in Charger :
        LET mine == {c \in Conn : ChargerOf[c] = a}
        IN  a \notin crossed /\ faults = 0 =>
              /\ (\A c \in mine : coro[c] \in {"none", "loop", "ended"}) => shown[a] = row[a]
              /\ (\A c \in mine : coro[c] \in {"none", "ended"}) => shown[a] # "online"

-----------------------------------------------------------------------------
\* The registered socket of a charger as the rest of the system sees it.
RegOf(a) ==
    IF conns[a] # None THEN IF net[conns[a]] = "open" THEN "open" ELSE "dead"
    ELSE IF \A c \in Conn : ChargerOf[c] = a => net[c] = "new" THEN "never"
    ELSE "none"

UpOf(a) == \E c \in Conn : ChargerOf[c] = a /\ net[c] = "open"

Reach == INSTANCE ChargerReach WITH
    up  <- [a \in Charger |-> UpOf(a)],
    reg <- [a \in Charger |-> RegOf(a)]

\* The connections implement what the rest of the system assumes of them: a
\* command reaches an open registered socket, and a socket is registered when it
\* is opened and at no other time.
ReachSpec == Reach!ReachSpec
=============================================================================
