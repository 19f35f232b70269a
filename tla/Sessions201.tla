----------------------------- MODULE Sessions201 -----------------------------
(***************************************************************************)
(* Charging sessions on OCPP 2.0.1 (ocpp201/transaction.py, meter.py and   *)
(* handler.py): TransactionEvent started, updated and ended, MeterValues   *)
(* and the record.  Unlike 1.6 the charger names its transactions, a       *)
(* handler caches the sessions of its open ones, and the reading of a      *)
(* meter is written to the row whatever its status.                        *)
(*                                                                         *)
(* As in Sessions16 the handlers of different connections interleave at    *)
(* every await, and two connections may belong to one charger.             *)
(***************************************************************************)
EXTENDS Naturals, Sequences

CONSTANTS
    Conn,       \* websocket connections, each with a handler of its own
    Charger,    \* charge point ids
    ChargerOf,  \* the charger at the other end of a connection
    Sid,        \* session ids
    Txn,        \* transaction ids, chosen by the chargers
    None,       \* no session, no charger, no transaction, no energy
    Reading,    \* energies in a meter value; 0 stands for a value without any
    MaxMsgs,    \* bound: messages the chargers send
    Faults      \* TRUE: an await may raise, or the process may crash

ASSUME Session201Assumption ==
    /\ ChargerOf \in [Conn -> Charger]
    /\ Reading \subseteq Nat
    /\ None \notin Sid \cup Txn \cup Charger \cup Nat \cup Conn
    /\ MaxMsgs \in Nat
    /\ Faults \in BOOLEAN

VARIABLES
    rows,    \* ocpp.sessions
    cdrs,    \* ocpp.cdrs: the energies billed for a session, in order
    live,    \* Redis session:<id> hashes
    stream,  \* the STOP and CDR events the handlers published, in order
    cache,   \* _active_transactions of the handler of a connection
    task,    \* the handler each connection runs, and its local variables
    due,     \* history: the energy the record of a session was made from
    ender,   \* history: the connection that completed a session
    msgs     \* how many messages have been received

vars == <<rows, cdrs, live, stream, cache, task, due, ender, msgs>>

-----------------------------------------------------------------------------
Row == [status : {"none", "active", "completed"},
        cp     : Charger \cup {None},
        txn    : Txn \cup {None},
        energy : Nat]

Event == [type : {"STOP", "CDR"}, sid : Sid, kwh : Nat]

MeterSteps == {"meter_live", "meter_row", "meter_event"}
StopSteps  == {"stop_live", "cdr_read", "cdr_insert", "cdr_event", "stop_event"}

\* energy: the local energy of the step (reading, or what the record says);
\* final: what the completing UPDATE returned.
Task == [pc     : {"idle", "start_live", "start_event", "state_live", "complete"}
                      \cup MeterSteps \cup StopSteps,
         kind   : {"none", "updated", "ended"},
         sid    : Sid \cup {None},
         energy : Nat,
         final  : Nat,
         state  : BOOLEAN]

Idle == [pc |-> "idle", kind |-> "none", sid |-> None, energy |-> 0,
         final |-> 0, state |-> FALSE]

TypeOK ==
    /\ rows \in [Sid -> Row]
    /\ cdrs \in [Sid -> Seq(Nat)]
    /\ live \in [Sid -> {"absent", "full", "partial"}]
    /\ stream \in Seq(Event)
    /\ cache \in [Conn -> [Txn -> Sid \cup {None}]]
    /\ task \in [Conn -> Task]
    /\ due \in [Sid -> Nat \cup {None}]
    /\ ender \in [Sid -> Conn \cup {None}]
    /\ msgs \in Nat

Init ==
    /\ rows = [s \in Sid |-> [status |-> "none", cp |-> None, txn |-> None,
                             energy |-> 0]]
    /\ cdrs = [s \in Sid |-> <<>>]
    /\ live = [s \in Sid |-> "absent"]
    /\ stream = <<>>
    /\ cache = [c \in Conn |-> [t \in Txn |-> None]]
    /\ task = [c \in Conn |-> Idle]
    /\ due = [s \in Sid |-> None]
    /\ ender = [s \in Sid |-> None]
    /\ msgs = 0

-----------------------------------------------------------------------------
(* Helpers.                                                                *)

Publish(type, s, e) ==
    stream' = Append(stream, [type |-> type, sid |-> s, kwh |-> e])

Receive(c) == task[c].pc = "idle" /\ msgs < MaxMsgs /\ msgs' = msgs + 1

At(c, pc)   == task[c].pc = pc /\ UNCHANGED msgs
Goto(c, pc) == task' = [task EXCEPT ![c].pc = pc]
Done(c)     == task' = [task EXCEPT ![c] = Idle]

\* HSET adds fields to a hash, or creates one with these fields only.
Hset(s) == live' = [live EXCEPT ![s] = IF @ = "absent" THEN "partial" ELSE @]

\* Faulty: any transaction of the charger will do.
LookupAnyTxn(c, t) ==
    LET S == {s \in Sid : rows[s].status = "active" /\ rows[s].cp = ChargerOf[c]}
    IN  IF cache[c][t] # None THEN {cache[c][t]}
        ELSE IF S = {} THEN {None} ELSE S

\* The session of a transaction: the cached one, else a row SELECTed.
Lookup(c, t) ==
    LET S == {s \in Sid : /\ rows[s].status = "active"
                         /\ rows[s].cp = ChargerOf[c]
                         /\ rows[s].txn = t}
    IN  IF cache[c][t] # None THEN {cache[c][t]}
        ELSE IF S = {} THEN {None} ELSE S

\* Where a handler goes once its meter values are processed.
AfterMeter(k) ==
    IF k.sid = None THEN "idle"
    ELSE IF k.kind = "ended" THEN "complete"
    ELSE IF k.state THEN "state_live" ELSE "idle"

\* Where it starts with them; None: the message has no meter value.
Process(k, reading) ==
    LET pc == IF reading = None THEN AfterMeter(k)
              ELSE IF k.sid = None THEN "meter_event" ELSE "meter_live"
    IN  IF pc = "idle" THEN Idle
        ELSE [k EXCEPT !.pc = pc,
                       !.energy = IF reading = None THEN 0 ELSE reading]

-----------------------------------------------------------------------------
(* TransactionEvent.                                                       *)

\* The row is inserted and committed, whether or not the transaction has a
\* session already, and cached.
Started(c, t) ==
    /\ Receive(c)
    /\ \E s \in Sid :
        /\ rows[s].status = "none"
        /\ rows' = [rows EXCEPT ![s] = [status |-> "active", cp |-> ChargerOf[c],
                                        txn |-> t, energy |-> 0]]
        /\ cache' = [cache EXCEPT ![c][t] = s]
        /\ task' = [task EXCEPT ![c] = [Idle EXCEPT !.pc = "start_live", !.sid = s]]
    /\ UNCHANGED <<cdrs, live, stream, due, ender>>

StartLive(c) ==
    /\ At(c, "start_live")
    /\ live' = [live EXCEPT ![task[c].sid] = "full"]
    /\ Goto(c, "start_event")
    /\ UNCHANGED <<rows, cdrs, stream, cache, due, ender>>

\* The START event.
StartEvent(c) ==
    /\ At(c, "start_event")
    /\ Done(c)
    /\ UNCHANGED <<rows, cdrs, live, stream, cache, due, ender>>

\* state: the message carries a charging state.
Updated(c, t, reading, state) ==
    /\ Receive(c)
    /\ \E s \in Lookup(c, t) :
        /\ cache' = [cache EXCEPT ![c][t] = s]
        /\ task' = [task EXCEPT ![c] =
             Process([Idle EXCEPT !.kind = "updated", !.sid = s, !.state = state],
                     reading)]
    /\ UNCHANGED <<rows, cdrs, live, stream, due, ender>>

\* Faulty: the cache entry stays.
EndedKeepsCache(c, t, reading) ==
    /\ Receive(c)
    /\ \E s \in Lookup(c, t) :
        /\ cache' = [cache EXCEPT ![c][t] = s]
        /\ task' = [task EXCEPT ![c] =
             Process([Idle EXCEPT !.kind = "ended", !.sid = s], reading)]
    /\ UNCHANGED <<rows, cdrs, live, stream, due, ender>>

Ended(c, t, reading) ==
    /\ Receive(c)
    /\ cache' = [cache EXCEPT ![c][t] = None]
    /\ \E s \in Lookup(c, t) :
        task' = [task EXCEPT ![c] =
             Process([Idle EXCEPT !.kind = "ended", !.sid = s], reading)]
    /\ UNCHANGED <<rows, cdrs, live, stream, due, ender>>

\* MeterValues outside a transaction belong to no session.
MeterValues(c, reading) ==
    /\ Receive(c)
    /\ task' = [task EXCEPT ![c] = Process(Idle, reading)]
    /\ UNCHANGED <<rows, cdrs, live, stream, cache, due, ender>>

-----------------------------------------------------------------------------
(* The meter values of a message.                                          *)

MeterLive(c) ==
    /\ At(c, "meter_live")
    /\ Hset(task[c].sid)
    /\ Goto(c, IF task[c].energy = 0 THEN "meter_event" ELSE "meter_row")
    /\ UNCHANGED <<rows, cdrs, stream, cache, due, ender>>

\* Faulty: the difference to the last reading is stored.
MeterRowDelta(c) ==
    /\ At(c, "meter_row")
    /\ rows' = [rows EXCEPT ![task[c].sid].energy = task[c].energy - @]
    /\ Goto(c, "meter_event")
    /\ UNCHANGED <<cdrs, live, stream, cache, due, ender>>

\* GREATEST(energy_kwh, new), whatever the status.
MeterRow(c) ==
    /\ At(c, "meter_row")
    /\ rows' = [rows EXCEPT ![task[c].sid].energy =
                 IF @ < task[c].energy THEN task[c].energy ELSE @]
    /\ Goto(c, "meter_event")
    /\ UNCHANGED <<cdrs, live, stream, cache, due, ender>>

\* The insert into meter_values, which nothing here reads, and the METER event.
MeterEvent(c) ==
    /\ At(c, "meter_event")
    /\ task' = [task EXCEPT ![c] = Process(@, None)]
    /\ UNCHANGED <<rows, cdrs, live, stream, cache, due, ender>>

StateLive(c) ==
    /\ At(c, "state_live")
    /\ Hset(task[c].sid)
    /\ Done(c)
    /\ UNCHANGED <<rows, cdrs, stream, cache, due, ender>>

-----------------------------------------------------------------------------
(* Completion and record.                                                  *)

\* Faulty: the row is completed again, whatever its status.
CompleteAnyStatus(c) ==
    LET s == task[c].sid
    IN  /\ At(c, "complete")
        /\ rows' = [rows EXCEPT ![s].status = "completed"]
        /\ ender' = [ender EXCEPT ![s] = c]
        /\ task' = [task EXCEPT ![c].pc = "stop_live", ![c].final = rows[s].energy]
        /\ UNCHANGED <<cdrs, live, stream, cache, due>>

\* UPDATE ... WHERE status = 'active' RETURNING: the handler goes on only if it
\* was the one to complete the session.
Complete(c) ==
    LET s == task[c].sid
    IN  /\ At(c, "complete")
        /\ IF rows[s].status = "active"
           THEN /\ rows' = [rows EXCEPT ![s].status = "completed"]
                /\ ender' = [ender EXCEPT ![s] = c]
                /\ task' = [task EXCEPT ![c].pc = "stop_live",
                                        ![c].final = rows[s].energy]
           ELSE Done(c) /\ UNCHANGED <<rows, ender>>
        /\ UNCHANGED <<cdrs, live, stream, cache, due>>

StopLive(c) ==
    /\ At(c, "stop_live")
    /\ live' = [live EXCEPT ![task[c].sid] = "absent"]
    /\ Goto(c, "cdr_read")
    /\ UNCHANGED <<rows, cdrs, stream, cache, due, ender>>

\* _generate_cdr reads the row again; it has its stop time by now.
CdrRead(c) ==
    /\ At(c, "cdr_read")
    /\ task' = [task EXCEPT ![c].pc = "cdr_insert",
                            ![c].energy = rows[task[c].sid].energy]
    /\ due' = [due EXCEPT ![task[c].sid] = rows[task[c].sid].energy]
    /\ UNCHANGED <<rows, cdrs, live, stream, cache, ender>>

CdrInsert(c) ==
    /\ At(c, "cdr_insert")
    /\ cdrs' = [cdrs EXCEPT ![task[c].sid] = Append(@, task[c].energy)]
    /\ Goto(c, "cdr_event")
    /\ UNCHANGED <<rows, live, stream, cache, due, ender>>

CdrEvent(c) ==
    /\ At(c, "cdr_event")
    /\ Publish("CDR", task[c].sid, task[c].energy)
    /\ Goto(c, "stop_event")
    /\ UNCHANGED <<rows, cdrs, live, cache, due, ender>>

StopEvent(c) ==
    /\ At(c, "stop_event")
    /\ Publish("STOP", task[c].sid, task[c].final)
    /\ Done(c)
    /\ UNCHANGED <<rows, cdrs, live, cache, due, ender>>

\* An await raises, or the process dies; what was written stays.
Abort(c) ==
    /\ Faults
    /\ task[c].pc # "idle"
    /\ Done(c)
    /\ UNCHANGED <<rows, cdrs, live, stream, cache, due, ender, msgs>>

-----------------------------------------------------------------------------
Message(c) ==
    \/ \E t \in Txn : Started(c, t)
    \/ \E t \in Txn, r \in Reading \cup {None} :
        \/ \E state \in BOOLEAN : Updated(c, t, r, state)
        \/ Ended(c, t, r)
    \/ \E r \in Reading : MeterValues(c, r)

Step(c) ==
    \/ StartLive(c) \/ StartEvent(c)
    \/ MeterLive(c) \/ MeterRow(c) \/ MeterEvent(c) \/ StateLive(c)
    \/ Complete(c) \/ StopLive(c) \/ CdrRead(c) \/ CdrInsert(c)
    \/ CdrEvent(c) \/ StopEvent(c)

Next == \E c \in Conn : Message(c) \/ Step(c) \/ Abort(c)

Spec == Init /\ [][Next]_vars

-----------------------------------------------------------------------------
(* Properties.                                                             *)

\* A cached session is a row of this charger under this transaction id, and
\* while it is not completed by somebody else it is still active: what lets a
\* handler skip the lookup (transaction.py:117).
CacheSound ==
    \A c \in Conn, t \in Txn :
        LET s == cache[c][t]
        IN  s # None => /\ rows[s].cp = ChargerOf[c] /\ rows[s].txn = t
                        /\ rows[s].status # "none" /\ ender[s] # c

\* A session that is announced as stopped was billed before, once, and for at
\* least the energy announced: a late reading of another connection may come
\* between the completion and the record (transaction.py:159-178).
StopFollowsCdr ==
    \A i \in DOMAIN stream :
        stream[i].type = "STOP" =>
            LET s == stream[i].sid
            IN  /\ cdrs[s] = <<due[s]>>
                /\ stream[i].kwh <= due[s]
                /\ \E j \in 1 .. i - 1 :
                      stream[j] = [type |-> "CDR", sid |-> s, kwh |-> due[s]]
                /\ \A j \in DOMAIN stream :
                      stream[j].type = "STOP" /\ stream[j].sid = s => j = i

\* Neither the cache of a handler nor what it announces names a wrong session.
SessionsSound == CacheSound /\ StopFollowsCdr

\* The energy of a completed session changes only through a connection that did
\* not complete it: a charger with one connection is billed for exactly what
\* its row ends with, though the UPDATE of meter.py:52 has no status guard.
LateEnergyIsForeign ==
    [][\A s \in Sid :
         rows[s].status = "completed" /\ rows'[s].energy # rows[s].energy =>
             \E c \in Conn : /\ task[c].pc = "meter_row" /\ task[c].sid = s
                             /\ c # ender[s]]_vars

\* Seen from the billing, which knows a session by its record, the handlers
\* implement the ledger: the session closes when its record is made.
Ledger == INSTANCE SessionLedger WITH
    phase  <- [s \in Sid |-> IF due[s] # None THEN "completed"
                             ELSE IF rows[s].status = "none" THEN "none"
                             ELSE "active"],
    energy <- [s \in Sid |-> IF due[s] # None THEN due[s] ELSE rows[s].energy],
    bills  <- cdrs

LedgerSpec == Ledger!Spec
=============================================================================
