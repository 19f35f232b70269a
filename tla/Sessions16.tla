----------------------------- MODULE Sessions16 -----------------------------
(***************************************************************************)
(* The life of a charging session on an OCPP 1.6 charger: the handlers of  *)
(* StartTransaction, MeterValues and StopTransaction (ocpp16/session.py,   *)
(* ocpp16/meter.py) over the tables sessions, meter_values, public_sessions*)
(* and cdrs, the Redis session hashes and the event stream.                *)
(*                                                                         *)
(* A websocket connection handles its messages one after the other; each   *)
(* handler is a coroutine that gives way at every await, so the handlers   *)
(* of different connections interleave there.  Two connections may belong  *)
(* to one charger: the server does not ping (server.py:34), so the socket  *)
(* of a charger that dropped off and came back lives on, and so does a     *)
(* handler it was running.  A database transaction is one step, at its     *)
(* commit, but for the transaction id of a new session, which is computed  *)
(* from the rows committed before (READ COMMITTED).                        *)
(***************************************************************************)
EXTENDS Naturals, Sequences, FiniteSets

CONSTANTS
    Conn,       \* websocket connections
    Charger,    \* charge point ids
    ChargerOf,  \* the charger at the other end of a connection
    Sid,        \* session ids (uuids of ocpp.sessions)
    Pub,        \* public sessions the charge app created, not yet started
    None,       \* no session, no public session, no charger
    Register,   \* readings of a charger's cumulative register, in Wh
    MaxMsgs,    \* bound: transaction messages the chargers send
    Faults      \* TRUE: an await may raise, or the process may crash

ASSUME SessionAssumption ==
    /\ ChargerOf \in [Conn -> Charger]
    /\ Register \subseteq Nat
    /\ None \notin Sid \cup Pub \cup Charger
    /\ MaxMsgs \in Nat
    /\ Faults \in BOOLEAN

VARIABLES
    rows,    \* ocpp.sessions
    audit,   \* ocpp.meter_values: the registers stored under a session id
    pub,     \* ocpp.public_sessions
    cdrs,    \* ocpp.cdrs: the energies billed for a session, in order
    live,    \* Redis session:<id> hashes
    stream,  \* what the handlers appended to the event stream
    task,    \* the handler each connection runs, and its local variables
    msgs     \* how many transaction messages have been received

vars == <<rows, audit, pub, cdrs, live, stream, task, msgs>>

-----------------------------------------------------------------------------
(* Types.  Energies are in Wh; transaction id 0 stands for SQL NULL and    *)
(* for a message without a transaction id.                                 *)

Row == [status : {"none", "active", "completed"},
        cp     : Charger \cup {None},
        txn    : Nat,
        start  : Nat,
        stop   : Nat,
        energy : Nat]

PubRow == [txn : Nat, kwh : Nat, stopped : BOOLEAN]

Event == [type : {"START", "METER", "STOP", "CDR"},
          sid  : Sid \cup {None},
          kwh  : Nat]

StartSteps == {"start_commit", "start_live", "start_event", "start_link"}
StopSteps  == {"stop_pub", "stop_live", "cdr_read", "cdr_insert",
               "cdr_event", "stop_event"}
UnbilledSteps == {"stop_pub", "stop_live", "cdr_read", "cdr_insert"}
MeterSteps == {"meter_audit", "meter_live", "meter_row", "meter_pub",
               "meter_event"}

Task == [pc     : {"idle"} \cup StartSteps \cup StopSteps \cup MeterSteps,
         sid    : Sid \cup {None},
         txn    : Nat,
         reg    : Nat,
         energy : Nat,
         tag    : Pub \cup {None}]

Idle == [pc |-> "idle", sid |-> None, txn |-> 0, reg |-> 0, energy |-> 0,
         tag |-> None]

NoRow == [status |-> "none", cp |-> None, txn |-> 0, start |-> 0, stop |-> 0,
          energy |-> 0]

TypeOK ==
    /\ rows \in [Sid -> Row]
    /\ audit \in [Sid \cup {None} -> SUBSET Nat]
    /\ pub \in [Pub -> PubRow]
    /\ cdrs \in [Sid -> Seq(Nat)]
    /\ live \in [Sid -> {"absent", "full", "meter_only"}]
    /\ stream \in Seq(Event)
    /\ task \in [Conn -> Task]
    /\ msgs \in Nat

Init ==
    /\ rows = [s \in Sid |-> NoRow]
    /\ audit = [s \in Sid \cup {None} |-> {}]
    /\ pub = [p \in Pub |-> [txn |-> 0, kwh |-> 0, stopped |-> FALSE]]
    /\ cdrs = [s \in Sid |-> <<>>]
    /\ live = [s \in Sid |-> "absent"]
    /\ stream = <<>>
    /\ task = [c \in Conn |-> Idle]
    /\ msgs = 0

-----------------------------------------------------------------------------
(* Helpers.                                                                *)

\* Faulty: no guard on a reading below the start.
SessionEnergyUnclamped(reg, start) == reg - start

\* Faulty: a missing start counts as a start of zero.
SessionEnergyFromZero(reg, start) == IF reg < start THEN 0 ELSE reg - start

\* The energy of a session whose register moved from start to reg.  A reading
\* or a start of zero counts as missing and bills nothing.
SessionEnergy(reg, start) ==
    IF reg = 0 \/ start = 0 \/ reg < start THEN 0 ELSE reg - start

\* Faulty: the lookup forgets the status.
AnyRows(c, t) ==
    {s \in Sid : /\ rows[s].status # "none"
                 /\ rows[s].cp = ChargerOf[c]
                 /\ rows[s].txn = t}

\* The rows a message of connection c about transaction t is looked up in.
ActiveRows(c, t) ==
    {s \in Sid : /\ rows[s].status = "active"
                 /\ rows[s].cp = ChargerOf[c]
                 /\ rows[s].txn = t}

\* MAX(transaction_id) over the committed rows; 0 when there is none.
MaxTxns ==
    LET txns == {rows[s].txn : s \in Sid} \cup {0}
    IN  {m \in txns : \A n \in txns : n <= m}

\* A uuid no row and no open transaction has.
Fresh(s) == rows[s].status = "none" /\ \A c \in Conn : task[c].sid # s

Publish(type, s, e) ==
    stream' = Append(stream, [type |-> type, sid |-> s, kwh |-> e])

\* A message arrives at an idle connection.
Receive(c) ==
    /\ task[c].pc = "idle"
    /\ msgs < MaxMsgs
    /\ msgs' = msgs + 1

\* The handler of c is suspended before step pc.
At(c, pc) == task[c].pc = pc /\ UNCHANGED msgs

Goto(c, pc) == task' = [task EXCEPT ![c].pc = pc]
Done(c)     == task' = [task EXCEPT ![c] = Idle]

-----------------------------------------------------------------------------
(* StartTransaction.                                                       *)

\* The open transaction inserts the row and draws its transaction id, MAX + 1;
\* neither is visible to another connection yet.
StartTransaction(c, reg, tag) ==
    /\ Receive(c)
    /\ \E s \in Sid, m \in MaxTxns :
        /\ Fresh(s)
        /\ task' = [task EXCEPT ![c] = [pc     |-> "start_commit",
                                       sid    |-> s,
                                       txn    |-> m + 1,
                                       reg    |-> reg,
                                       energy |-> 0,
                                       tag    |-> tag]]
    /\ UNCHANGED <<rows, audit, pub, cdrs, live, stream>>

StartCommit(c) ==
    /\ At(c, "start_commit")
    /\ rows' = [rows EXCEPT ![task[c].sid] = [status |-> "active",
                                             cp     |-> ChargerOf[c],
                                             txn    |-> task[c].txn,
                                             start  |-> task[c].reg,
                                             stop   |-> 0,
                                             energy |-> 0]]
    /\ Goto(c, "start_live")
    /\ UNCHANGED <<audit, pub, cdrs, live, stream>>

StartLive(c) ==
    /\ At(c, "start_live")
    /\ live' = [live EXCEPT ![task[c].sid] = "full"]
    /\ Goto(c, "start_event")
    /\ UNCHANGED <<rows, audit, pub, cdrs, stream>>

StartEvent(c) ==
    /\ At(c, "start_event")
    /\ Publish("START", task[c].sid, 0)
    /\ IF task[c].tag = None THEN Done(c) ELSE Goto(c, "start_link")
    /\ UNCHANGED <<rows, audit, pub, cdrs, live>>

\* An APP_ tag names the public session it pays for.  Nothing is linked when
\* that session has its transaction already.
StartLink(c) ==
    /\ At(c, "start_link")
    /\ pub' = IF pub[task[c].tag].txn = 0
              THEN [pub EXCEPT ![task[c].tag].txn = task[c].txn]
              ELSE pub
    /\ Done(c)
    /\ UNCHANGED <<rows, audit, cdrs, live, stream>>

-----------------------------------------------------------------------------
(* StopTransaction.                                                        *)

Complete(S, reg, final) ==
    rows' = [s \in Sid |-> IF s \in S
                          THEN [status |-> "completed",
                                cp     |-> rows[s].cp,
                                txn    |-> rows[s].txn,
                                start  |-> rows[s].start,
                                stop   |-> reg,
                                energy |-> final]
                          ELSE rows[s]]

\* One transaction selects a row (f), computes the final energy from its
\* meter_start and completes EVERY active row of the charger under this
\* transaction id; one of them (r) is returned and carried on with.
StopTransaction(c, t, reg) ==
    /\ Receive(c)
    /\ \/ /\ ActiveRows(c, t) = {}
          /\ UNCHANGED <<rows, task>>
       \/ \E f, r \in ActiveRows(c, t) :
            /\ Complete(ActiveRows(c, t), reg, SessionEnergy(reg, rows[f].start))
            /\ task' = [task EXCEPT ![c] =
                         [pc     |-> "stop_pub",
                          sid    |-> r,
                          txn    |-> t,
                          reg    |-> 0,
                          energy |-> SessionEnergy(reg, rows[f].start),
                          tag    |-> None]]
    /\ UNCHANGED <<audit, pub, cdrs, live, stream>>

\* The receipt of the charge app: every public session under this transaction
\* id that has not stopped, whichever charger it belongs to.
StopPub(c) ==
    /\ At(c, "stop_pub")
    /\ pub' = [p \in Pub |->
                IF pub[p].txn = task[c].txn /\ ~pub[p].stopped
                THEN [pub[p] EXCEPT !.stopped = TRUE, !.kwh = task[c].energy]
                ELSE pub[p]]
    /\ Goto(c, "stop_live")
    /\ UNCHANGED <<rows, audit, cdrs, live, stream>>

\* Faulty: STOP is announced without generating the CDR.
StopLiveNoCdr(c) ==
    /\ At(c, "stop_live")
    /\ live' = [live EXCEPT ![task[c].sid] = "absent"]
    /\ Goto(c, "stop_event")
    /\ UNCHANGED <<rows, audit, pub, cdrs, stream>>

StopLive(c) ==
    /\ At(c, "stop_live")
    /\ live' = [live EXCEPT ![task[c].sid] = "absent"]
    /\ Goto(c, "cdr_read")
    /\ UNCHANGED <<rows, audit, pub, cdrs, stream>>

\* Faulty: a session without energy is dropped on the way.
CdrReadEnergyOnly(c) ==
    /\ At(c, "cdr_read")
    /\ IF rows[task[c].sid].energy = 0
       THEN Done(c)
       ELSE task' = [task EXCEPT ![c].pc = "cdr_insert",
                                 ![c].energy = rows[task[c].sid].energy]
    /\ UNCHANGED <<rows, audit, pub, cdrs, live, stream>>

\* generate_cdr reads the row again, outside any transaction.
CdrRead(c) ==
    /\ At(c, "cdr_read")
    /\ task' = [task EXCEPT ![c].pc = "cdr_insert",
                            ![c].energy = rows[task[c].sid].energy]
    /\ UNCHANGED <<rows, audit, pub, cdrs, live, stream>>

CdrInsert(c) ==
    /\ At(c, "cdr_insert")
    /\ cdrs' = [cdrs EXCEPT ![task[c].sid] = Append(@, task[c].energy)]
    /\ Goto(c, "cdr_event")
    /\ UNCHANGED <<rows, audit, pub, live, stream>>

CdrEvent(c) ==
    /\ At(c, "cdr_event")
    /\ Publish("CDR", task[c].sid, task[c].energy)
    /\ Goto(c, "stop_event")
    /\ UNCHANGED <<rows, audit, pub, cdrs, live>>

StopEvent(c) ==
    /\ At(c, "stop_event")
    /\ Publish("STOP", task[c].sid, task[c].energy)
    /\ Done(c)
    /\ UNCHANGED <<rows, audit, pub, cdrs, live>>

-----------------------------------------------------------------------------
(* MeterValues, one entry of its meterValue list.  A message with several  *)
(* entries takes these steps once for each of them.                        *)

MeterValues(c, t, reg) ==
    LET Reading(s, e) == [task EXCEPT ![c] = [pc     |-> "meter_audit",
                                              sid    |-> s,
                                              txn    |-> t,
                                              reg    |-> reg,
                                              energy |-> e,
                                              tag    |-> None]]
    IN  /\ Receive(c)
        /\ \/ ActiveRows(c, t) = {} /\ task' = Reading(None, SessionEnergy(reg, 0))
           \/ \E f \in ActiveRows(c, t) :
                task' = Reading(f, SessionEnergy(reg, rows[f].start))
        /\ UNCHANGED <<rows, audit, pub, cdrs, live, stream>>

\* The step after those that concern a session row: public_sessions is written
\* only when there is energy to report.
AfterRow(c) == IF task[c].energy > 0 THEN "meter_pub" ELSE "meter_event"

\* Faulty: the reading is stored without its session.
MeterAuditOrphan(c) ==
    /\ At(c, "meter_audit")
    /\ audit' = [audit EXCEPT ![None] = @ \cup {task[c].reg}]
    /\ Goto(c, IF task[c].sid = None THEN AfterRow(c) ELSE "meter_live")
    /\ UNCHANGED <<rows, pub, cdrs, live, stream>>

MeterAudit(c) ==
    /\ At(c, "meter_audit")
    /\ audit' = [audit EXCEPT ![task[c].sid] = @ \cup {task[c].reg}]
    /\ Goto(c, IF task[c].sid = None THEN AfterRow(c) ELSE "meter_live")
    /\ UNCHANGED <<rows, pub, cdrs, live, stream>>

\* HSET creates the hash when it is not there.
MeterLive(c) ==
    /\ At(c, "meter_live")
    /\ live' = [live EXCEPT ![task[c].sid] =
                 IF @ = "absent" THEN "meter_only" ELSE @]
    /\ Goto(c, "meter_row")
    /\ UNCHANGED <<rows, audit, pub, cdrs, stream>>

\* Faulty: the row is updated whatever its status.
MeterRowAnyStatus(c) ==
    LET s == task[c].sid
    IN  /\ At(c, "meter_row")
        /\ rows' = IF rows[s].energy < task[c].energy
                   THEN [rows EXCEPT ![s].energy = task[c].energy]
                   ELSE rows
        /\ Goto(c, AfterRow(c))
        /\ UNCHANGED <<audit, pub, cdrs, live, stream>>

\* GREATEST(energy_kwh, new), and only while the row is active.
MeterRow(c) ==
    LET s == task[c].sid
    IN  /\ At(c, "meter_row")
        /\ rows' = IF /\ rows[s].status = "active"
                      /\ rows[s].energy < task[c].energy
                   THEN [rows EXCEPT ![s].energy = task[c].energy]
                   ELSE rows
        /\ Goto(c, AfterRow(c))
        /\ UNCHANGED <<audit, pub, cdrs, live, stream>>

\* Every public session under this transaction id, stopped or not.
MeterPub(c) ==
    /\ At(c, "meter_pub")
    /\ pub' = [p \in Pub |->
                IF pub[p].txn = task[c].txn
                THEN [pub[p] EXCEPT !.kwh = task[c].energy]
                ELSE pub[p]]
    /\ Goto(c, "meter_event")
    /\ UNCHANGED <<rows, audit, cdrs, live, stream>>

MeterEvent(c) ==
    /\ At(c, "meter_event")
    /\ Publish("METER", task[c].sid, task[c].energy)
    /\ Done(c)
    /\ UNCHANGED <<rows, audit, pub, cdrs, live>>

-----------------------------------------------------------------------------
\* The await raises (_handle_call answers InternalError), or the process
\* dies: what the handler has written stays, the rest is never done, and an
\* uncommitted transaction is rolled back.  The charger may send again.
Abort(c) ==
    /\ Faults
    /\ task[c].pc # "idle"
    /\ Done(c)
    /\ UNCHANGED <<rows, audit, pub, cdrs, live, stream, msgs>>

\* A handler that is running takes its next step.
Step(c) ==
    \/ StartCommit(c) \/ StartLive(c) \/ StartEvent(c)
    \/ StartLink(c)
    \/ StopPub(c) \/ StopLive(c) \/ CdrRead(c) \/ CdrInsert(c)
    \/ CdrEvent(c) \/ StopEvent(c)
    \/ MeterAudit(c) \/ MeterLive(c) \/ MeterRow(c) \/ MeterPub(c)
    \/ MeterEvent(c)

\* A charger may send any register and any transaction id it was ever told.
Message(c) ==
    \E reg \in Register :
        \/ \E tag \in Pub \cup {None} : StartTransaction(c, reg, tag)
        \/ \E t \in {rows[s].txn : s \in Sid} \cup {0} :
            \/ StopTransaction(c, t, reg)
            \/ MeterValues(c, t, reg)

Next == \E c \in Conn : Message(c) \/ Step(c) \/ Abort(c)

Spec == Init /\ [][Next]_vars

\* The event loop resumes every coroutine whose await has completed.
Fairness == \A c \in Conn : WF_vars(Step(c))

FairSpec == Spec /\ Fairness
-----------------------------------------------------------------------------
(* Safety under faults and two connections of one charger.                 *)

\* A session is billed at most once, only once it is completed, and for the
\* energy its row ends with: a StopTransaction that is sent again, or handled on
\* two connections at a time, finds no active row (session.py:129-146).
BilledOnce ==
    \A s \in Sid :
        \/ cdrs[s] = <<>>
        \/ rows[s].status = "completed" /\ cdrs[s] = <<rows[s].energy>>

\* On the stream, a session has one CDR and one STOP at most, the STOP comes
\* after the CDR, and both carry the energy that was billed (session.py:163-177).
StreamOrder ==
    \A i \in DOMAIN stream :
        /\ stream[i].type \in {"CDR", "STOP"} =>
              /\ cdrs[stream[i].sid] = <<stream[i].kwh>>
              /\ \A j \in DOMAIN stream :
                    stream[j].type = stream[i].type /\ stream[j].sid = stream[i].sid
                       => i = j
        /\ stream[i].type = "STOP" =>
              \E j \in 1 .. i - 1 :
                 stream[j].type = "CDR" /\ stream[j].sid = stream[i].sid

\* The running energy of an active session always comes from a register that
\* was stored for this session first (meter.py:161-197): the audit trail can
\* explain what the driver is shown.
EnergyAudited ==
    \A s \in Sid :
        rows[s].status = "active" /\ rows[s].energy > 0 =>
            \E r \in audit[s] : rows[s].energy = SessionEnergy(r, rows[s].start)

\* Redis never shows a session that the database does not have: the hash is
\* written after the commit (session.py:36-63), and a rolled back
\* StartTransaction leaves none.
LiveHasRow ==
    \A s \in Sid : live[s] # "absent" => rows[s].status # "none"

\* What a suspended handler may rely on about the session it works on.
Relies(c) ==
    LET k == task[c]
    IN  /\ k.pc \in StartSteps \cup StopSteps \cup {"meter_live", "meter_row"}
              => k.sid \in Sid
        /\ k.pc = "start_commit" => rows[k.sid].status = "none"
        /\ k.pc \in {"start_live", "meter_audit", "meter_live"} /\ k.sid \in Sid
              => rows[k.sid].status # "none"
        /\ k.pc \in UnbilledSteps
              => rows[k.sid].status = "completed" /\ cdrs[k.sid] = <<>>
        /\ k.pc = "cdr_insert" => k.energy = rows[k.sid].energy
        /\ k.pc \in {"cdr_event", "stop_event"} => cdrs[k.sid] = <<k.energy>>

\* No two handlers open, and no two handlers bill, one session.
Apart(c, d) ==
    task[c].sid = task[d].sid =>
        /\ ~(task[c].pc = "start_commit" /\ task[d].pc = "start_commit")
        /\ ~(task[c].pc \in UnbilledSteps /\ task[d].pc \in UnbilledSteps)

\* The handler that completed a session is the only one that will bill it, and
\* finds it as it left it (session.py:129-163): with BilledOnce, the inductive
\* invariant of the proofs.
HandlerInv ==
    /\ \A c \in Conn : Relies(c)
    /\ \A c, d \in Conn : c # d => Apart(c, d)

-----------------------------------------------------------------------------
(* What holds when every charger has one connection and nothing fails.     *)

\* No handler works on session s.
Quiet(s) == \A c \in Conn : task[c].sid # s

\* schema.sql:112 calls cdrs "one per completed session".
CdrPerCompleted ==
    \A s \in Sid :
        rows[s].status = "completed" /\ Quiet(s) => Len(cdrs[s]) = 1

\* "Redis holds what's happening RIGHT NOW" (redis.py:4): between messages a
\* session has its full hash exactly while it is active.
LiveIsActive ==
    \A s \in Sid :
        Quiet(s) => live[s] = IF rows[s].status = "active" THEN "full"
                              ELSE "absent"

UniqueTxn(s) == \A r \in Sid : rows[r].txn = rows[s].txn => r = s

\* The receipt of the charge app and the bill agree: a public session under the
\* transaction id of a completed session has stopped with the billed energy,
\* whatever MeterValues follow (session.py:152-157, meter.py:199-205).
ReceiptMatchesBill ==
    \A p \in Pub, s \in Sid :
        /\ pub[p].txn = rows[s].txn
        /\ rows[s].status = "completed"
        /\ UniqueTxn(s) /\ Quiet(s)
        => pub[p].stopped /\ cdrs[s] = <<pub[p].kwh>>

\* What a driver is shown is true: while the session runs by Redis, and in the
\* end by the receipt.
ShownIsTrue == LiveIsActive /\ ReceiptMatchesBill

\* Every completed session is billed and announced in the end, if the event
\* loop keeps resuming the handler that completed it.
CompletedIsBilled ==
    \A s \in Sid :
        rows[s].status = "completed"
            ~> \E i \in DOMAIN stream : stream[i].type = "STOP" /\ stream[i].sid = s

-----------------------------------------------------------------------------
\* The handlers implement the abstract ledger: sessions open, grow, close for
\* good and are billed once.
Ledger == INSTANCE SessionLedger WITH
    phase  <- [s \in Sid |-> rows[s].status],
    energy <- [s \in Sid |-> rows[s].energy],
    bills  <- cdrs

LedgerSpec == Ledger!Spec
=============================================================================
