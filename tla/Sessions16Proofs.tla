-------------------------- MODULE Sessions16Proofs --------------------------
(***************************************************************************)
(* Theorems about Sessions16, for every set of connections, chargers,      *)
(* sessions and readings, with and without faults; the last one supposes   *)
(* one connection for each charger and no faults (Calm).                   *)
(*                                                                         *)
(* IInv is the inductive invariant.  BilledOnce alone is not inductive: it *)
(* does not say that two handlers cannot be about to bill one session, nor *)
(* that the session a handler is billing keeps its energy until then;      *)
(* HandlerInv says both.                                                   *)
(***************************************************************************)
EXTENDS Sessions16, TLAPS

\* A session that is not open yet has no energy: opening it does not change
\* the ledger's energy.
Unopened == \A s \in Sid : rows[s].status = "none" => rows[s].energy = 0

IInv == TypeOK /\ HandlerInv /\ BilledOnce /\ LiveHasRow /\ Unopened

Types == {"START", "METER", "STOP", "CDR"}

USE SessionAssumption

-----------------------------------------------------------------------------

LEMMA SessionEnergyNat ==
    ASSUME NEW reg \in Nat, NEW start \in Nat
    PROVE  SessionEnergy(reg, start) \in Nat
BY DEF SessionEnergy

\* What the handlers write keeps a row and a public session well formed.
LEMMA RowEnergyType ==
    ASSUME NEW q \in Row, NEW e \in Nat
    PROVE  [q EXCEPT !.energy = e] \in Row
BY DEF Row

LEMMA PubRowType ==
    ASSUME NEW q \in PubRow, NEW n \in Nat
    PROVE  /\ [q EXCEPT !.txn = n] \in PubRow
           /\ [q EXCEPT !.kwh = n] \in PubRow
           /\ [q EXCEPT !.stopped = TRUE, !.kwh = n] \in PubRow
BY DEF PubRow

\* Publishing keeps the stream a sequence of events.
LEMMA PublishType ==
    ASSUME stream \in Seq(Event), NEW s \in Sid \cup {None}, NEW e \in Nat,
           NEW type \in Types, Publish(type, s, e)
    PROVE  stream' \in Seq(Event)
BY DEF Publish, Event, Types

LEMMA InitIInv == Init => IInv
BY DEF Init, IInv, TypeOK, HandlerInv, Relies, Apart, BilledOnce, LiveHasRow,
       Unopened, Idle,
       NoRow, Row, PubRow, Task, StartSteps, StopSteps, UnbilledSteps

-----------------------------------------------------------------------------
(* Type correctness.  HandlerInv is needed: CdrRead copies the energy of   *)
(* the row it names, which has to exist.                                   *)

LEMMA TypeStep == IInv /\ [Next]_vars => TypeOK'
<1> SUFFICES ASSUME TypeOK, HandlerInv, [Next]_vars PROVE TypeOK'
  BY DEF IInv
<1> USE DEF TypeOK
<1>1. ASSUME NEW c \in Conn, NEW reg \in Register, NEW tag \in Pub \cup {None},
             StartTransaction(c, reg, tag)
      PROVE  TypeOK'
  <2>1. PICK s \in Sid, m \in MaxTxns :
           task' = [task EXCEPT ![c] = [pc |-> "start_commit", sid |-> s,
                                        txn |-> m + 1, reg |-> reg, energy |-> 0,
                                        tag |-> tag]]
    BY <1>1 DEF StartTransaction
  <2>2. m \in Nat
    BY DEF MaxTxns, Row
  <2>3. task' \in [Conn -> Task]
    BY <2>1, <2>2 DEF Task, StartSteps
  <2> QED BY <1>1, <2>3 DEF StartTransaction, Receive
<1>2. ASSUME NEW c \in Conn, NEW reg \in Register, NEW t \in Nat,
             StopTransaction(c, t, reg)
      PROVE  TypeOK'
  <2>0. msgs' \in Nat /\ UNCHANGED <<audit, pub, cdrs, live, stream>>
    BY <1>2 DEF StopTransaction, Receive
  <2>1. CASE UNCHANGED <<rows, task>>
    BY <2>0, <2>1
  <2>2. ASSUME NEW f \in ActiveRows(c, t), NEW r \in ActiveRows(c, t),
               NEW final, final = SessionEnergy(reg, rows[f].start),
               Complete(ActiveRows(c, t), reg, final),
               task' = [task EXCEPT ![c] = [pc |-> "stop_pub", sid |-> r, txn |-> t,
                                            reg |-> 0, energy |-> final,
                                            tag |-> None]]
        PROVE TypeOK'
    <3>1. f \in Sid /\ r \in Sid
      BY DEF ActiveRows
    <3>2. final \in Nat
      BY <2>2, <3>1, SessionEnergyNat DEF Row
    <3>3. rows' \in [Sid -> Row]
      BY <2>2, <3>2 DEF Row, Complete
    <3>4. task' \in [Conn -> Task]
      BY <2>2, <3>1, <3>2 DEF Task, StopSteps
    <3> QED BY <2>0, <3>3, <3>4
  <2> QED BY <1>2, <2>1, <2>2 DEF StopTransaction
<1>3. ASSUME NEW c \in Conn, NEW reg \in Register, NEW t \in Nat,
             MeterValues(c, t, reg)
      PROVE  TypeOK'
  <2>1. \A s \in Sid : SessionEnergy(reg, rows[s].start) \in Nat
    BY SessionEnergyNat DEF Row
  <2>2. SessionEnergy(reg, 0) \in Nat
    BY SessionEnergyNat
  <2>3. PICK s \in Sid \cup {None}, e \in Nat :
           task' = [task EXCEPT ![c] = [pc |-> "meter_audit", sid |-> s, txn |-> t,
                                        reg |-> reg, energy |-> e, tag |-> None]]
    BY <1>3, <2>1, <2>2 DEF MeterValues, ActiveRows
  <2>4. task' \in [Conn -> Task]
    BY <2>3 DEF Task, MeterSteps
  <2> QED BY <1>3, <2>4 DEF MeterValues, Receive
<1>4. ASSUME NEW c \in Conn, Step(c) PROVE TypeOK'
  <2> USE DEF At, Goto, Done
  <2>0. task[c] \in Task /\ Idle \in Task
    BY DEF Task, Idle
  <2>1. CASE StartCommit(c)
    BY <2>0, <2>1 DEF StartCommit, Row, Task, StartSteps
  <2>2. CASE StartLive(c)
    BY <2>0, <2>2 DEF StartLive, Task, StartSteps
  <2>3. CASE StartEvent(c)
    <3>1. stream' \in Seq(Event)
      BY <2>0, <2>3, PublishType DEF StartEvent, Types, Task
    <3>2. task' \in [Conn -> Task]
      <4>1. CASE Done(c)
        BY <2>0, <4>1
      <4>2. CASE Goto(c, "start_link")
        BY <2>0, <4>2 DEF Task, StartSteps
      <4> QED BY <2>3, <4>1, <4>2 DEF StartEvent
    <3> QED BY <2>3, <3>1, <3>2 DEF StartEvent
  <2>4. CASE StartLink(c)
    <3>1. pub' \in [Pub -> PubRow]
      <4>1. task[c].txn \in Nat
        BY <2>0 DEF Task
      <4> QED BY <2>4, <4>1, PubRowType DEF StartLink
    <3>2. task' \in [Conn -> Task]
      BY <2>0, <2>4 DEF StartLink
    <3> QED BY <2>4, <3>1, <3>2 DEF StartLink
  <2>5. CASE StopPub(c)
    <3>1. pub' \in [Pub -> PubRow]
      <4>1. task[c].energy \in Nat
        BY <2>0 DEF Task
      <4> QED BY <2>5, <4>1, PubRowType DEF StopPub
    <3>2. task' \in [Conn -> Task]
      BY <2>0, <2>5 DEF StopPub, Task, StopSteps
    <3> QED BY <2>5, <3>1, <3>2 DEF StopPub
  <2>6. CASE StopLive(c)
    BY <2>0, <2>6 DEF StopLive, Task, StopSteps
  <2>7. CASE CdrRead(c)
    BY <2>0, <2>7 DEF CdrRead, HandlerInv, Relies, Row, Task, StopSteps
  <2>8. CASE CdrInsert(c)
    <3>1. cdrs' \in [Sid -> Seq(Nat)]
      <4>1. task[c].energy \in Nat
        BY <2>0 DEF Task
      <4>2. ASSUME NEW b \in Seq(Nat) PROVE Append(b, task[c].energy) \in Seq(Nat)
        BY <4>1
      <4> QED BY <2>8, <4>2 DEF CdrInsert
    <3> QED BY <2>0, <2>8, <3>1 DEF CdrInsert, Task, StopSteps
  <2>9. CASE CdrEvent(c)
    <3>1. stream' \in Seq(Event)
      BY <2>0, <2>9, PublishType DEF CdrEvent, Types, Task
    <3> QED BY <2>0, <2>9, <3>1 DEF CdrEvent, Task, StopSteps
  <2>10. CASE StopEvent(c)
    <3>1. stream' \in Seq(Event)
      BY <2>0, <2>10, PublishType DEF StopEvent, Types, Task
    <3> QED BY <2>0, <2>10, <3>1 DEF StopEvent
  <2>11. CASE MeterAudit(c)
    BY <2>0, <2>11 DEF MeterAudit, AfterRow, Task, MeterSteps
  <2>12. CASE MeterLive(c)
    BY <2>0, <2>12 DEF MeterLive, Task, MeterSteps
  <2>13. CASE MeterRow(c)
    <3>1. rows' \in [Sid -> Row]
      <4>1. task[c].energy \in Nat
        BY <2>0 DEF Task
      <4> QED BY <2>13, <4>1, RowEnergyType DEF MeterRow
    <3>2. task' \in [Conn -> Task]
      BY <2>0, <2>13 DEF MeterRow, AfterRow, Task, MeterSteps
    <3> QED BY <2>13, <3>1, <3>2 DEF MeterRow
  <2>14. CASE MeterPub(c)
    <3>1. pub' \in [Pub -> PubRow]
      <4>1. task[c].energy \in Nat
        BY <2>0 DEF Task
      <4> QED BY <2>14, <4>1, PubRowType DEF MeterPub
    <3>2. task' \in [Conn -> Task]
      BY <2>0, <2>14 DEF MeterPub, Task, MeterSteps
    <3> QED BY <2>14, <3>1, <3>2 DEF MeterPub
  <2>15. CASE MeterEvent(c)
    <3>1. stream' \in Seq(Event)
      BY <2>0, <2>15, PublishType DEF MeterEvent, Types, Task
    <3> QED BY <2>0, <2>15, <3>1 DEF MeterEvent
  <2> QED BY <1>4, <2>1, <2>2, <2>3, <2>4, <2>5, <2>6, <2>7, <2>8, <2>9, <2>10,
             <2>11, <2>12, <2>13, <2>14, <2>15 DEF Step
<1>5. ASSUME NEW c \in Conn, Abort(c) PROVE TypeOK'
  BY <1>5 DEF Abort, Done, Idle, Task
<1>6. CASE UNCHANGED vars
  BY <1>6 DEF vars
<1>7. \A s \in Sid : rows[s].txn \in Nat
  BY DEF Row
<1>8. ASSUME NEW c \in Conn, Message(c) PROVE TypeOK'
  <2>1. \A t \in {rows[s].txn : s \in Sid} \cup {0} : t \in Nat
    BY <1>7
  <2> QED BY <1>1, <1>2, <1>3, <1>8, <2>1 DEF Message
<1> QED BY <1>4, <1>5, <1>6, <1>8 DEF Next
-----------------------------------------------------------------------------
(* A step of connection c preserves HandlerInv when it preserves what c    *)
(* relies on, what every other handler relies on, and keeps c apart.       *)

Others(c) == \A d \in Conn \ {c} : Relies(d)' /\ Apart(c, d)' /\ task'[d] = task[d]

LEMMA ByConnection ==
    ASSUME HandlerInv, NEW c \in Conn, Relies(c)', Others(c)
    PROVE  HandlerInv'
<1>1. ASSUME NEW d \in Conn PROVE Relies(d)'
  BY DEF Others
<1>2. ASSUME NEW d \in Conn, NEW e \in Conn, d # e PROVE Apart(d, e)'
  <2>1. CASE d = c
    BY <1>2, <2>1 DEF Others
  <2>2. CASE e = c
    BY <1>2, <2>2 DEF Others, Apart
  <2>3. CASE d # c /\ e # c
    BY <1>2, <2>3 DEF Others, Apart, HandlerInv
  <2> QED BY <2>1, <2>2, <2>3
<1> QED BY <1>1, <1>2 DEF HandlerInv

\* A handler that writes neither rows nor cdrs disturbs no other handler.
LEMMA Undisturbed ==
    ASSUME HandlerInv, NEW c \in Conn, UNCHANGED <<rows, cdrs>>,
           \A d \in Conn \ {c} : task'[d] = task[d],
           \A d \in Conn \ {c} : Apart(c, d)'
    PROVE  Others(c)
<1>1. ASSUME NEW d \in Conn \ {c} PROVE Relies(d)'
  BY <1>1 DEF HandlerInv, Relies
<1> QED BY <1>1 DEF Others
LEMMA GotoTask ==
    ASSUME task \in [Conn -> Task], NEW c \in Conn, NEW x, Goto(c, x)
    PROVE  /\ task'[c].pc = x
           /\ task'[c].sid = task[c].sid
           /\ task'[c].energy = task[c].energy
           /\ \A d \in Conn \ {c} : task'[d] = task[d]
BY DEF Goto, Task

LEMMA DoneTask ==
    ASSUME task \in [Conn -> Task], NEW c \in Conn, Done(c)
    PROVE  /\ task'[c].pc = "idle"
           /\ \A d \in Conn \ {c} : task'[d] = task[d]
BY DEF Done, Idle

\* A handler that ends, having written neither rows nor cdrs.
LEMMA EndingKeeps ==
    ASSUME TypeOK, HandlerInv, NEW c \in Conn, Done(c), UNCHANGED <<rows, cdrs>>
    PROVE  HandlerInv'
<1>1. /\ task'[c].pc = "idle"
      /\ \A d \in Conn \ {c} : task'[d] = task[d]
  BY DoneTask DEF TypeOK
<1>2. Relies(c)'
  BY <1>1 DEF Relies, StartSteps, StopSteps, UnbilledSteps
<1>3. \A d \in Conn \ {c} : Apart(c, d)'
  BY <1>1 DEF Apart, UnbilledSteps
<1> QED BY <1>1, <1>2, <1>3, ByConnection, Undisturbed

\* A handler that goes on to a step at which it relies on no more than before.
LEMMA GoingOnKeeps ==
    ASSUME TypeOK, HandlerInv, NEW c \in Conn, NEW x, Goto(c, x),
           UNCHANGED <<rows, cdrs>>, Relies(c)',
           x # "start_commit",
           x \in UnbilledSteps => task[c].pc \in UnbilledSteps
    PROVE  HandlerInv'
<1>1. /\ task'[c].pc = x
      /\ task'[c].sid = task[c].sid
      /\ \A d \in Conn \ {c} : task'[d] = task[d]
  BY GotoTask DEF TypeOK
<1>2. \A d \in Conn \ {c} : Apart(c, d)'
  BY <1>1 DEF Apart, HandlerInv
<1> QED BY <1>1, <1>2, ByConnection, Undisturbed

LEMMA HandlerStep ==
    ASSUME TypeOK, HandlerInv, BilledOnce, NEW c \in Conn, Step(c)
    PROVE  HandlerInv'
<1>a. Relies(c)
  BY DEF HandlerInv
<1>b. task \in [Conn -> Task]
  BY DEF TypeOK
<1> USE DEF At, StartSteps, StopSteps, UnbilledSteps, MeterSteps
<1>1. CASE StartCommit(c)
  <2>0. PICK s \in Sid : s = task[c].sid
    BY <1>a, <1>1 DEF StartCommit, Relies
  <2>1. /\ task'[c].pc = "start_live"
        /\ task'[c].sid = s
        /\ \A d \in Conn \ {c} : task'[d] = task[d]
    BY <2>0, <1>1, <1>b, GotoTask DEF StartCommit
  <2>2. /\ rows[s].status = "none"
        /\ rows'[s].status = "active"
        /\ \A r \in Sid \ {s} : rows'[r] = rows[r]
        /\ UNCHANGED cdrs
    BY <2>0, <1>1, <1>a DEF StartCommit, Relies, TypeOK
  <2>3. Relies(c)'
    BY <2>1, <2>2 DEF Relies
  <2>4. ASSUME NEW d \in Conn \ {c} PROVE Relies(d)' /\ Apart(c, d)'
    <3>1. Relies(d) /\ Apart(c, d) /\ task'[d] = task[d]
      BY <2>1, <2>4 DEF HandlerInv
    <3>2. ~(task[d].pc = "start_commit" /\ task[d].sid = s)
      BY <2>0, <3>1, <1>1 DEF Apart, StartCommit
    <3>3. Relies(d)'
      BY <3>1, <3>2, <2>2 DEF Relies
    <3> QED BY <3>3, <2>1 DEF Apart
  <2> QED BY <2>1, <2>3, <2>4, ByConnection DEF Others
<1>2. CASE StartLive(c)
  BY <1>2, <1>a, <1>b, GotoTask, GoingOnKeeps DEF StartLive, Relies
<1>3. CASE StartEvent(c)
  <2>1. CASE Done(c)
    BY <1>3, <2>1, EndingKeeps DEF StartEvent
  <2>2. CASE Goto(c, "start_link")
    BY <1>3, <2>2, <1>a, <1>b, GotoTask, GoingOnKeeps DEF StartEvent, Relies
  <2> QED BY <1>3, <2>1, <2>2 DEF StartEvent
<1>4. CASE StartLink(c)
  BY <1>4, EndingKeeps DEF StartLink
<1>5. CASE StopPub(c)
  <2>1. /\ task'[c].pc = "stop_live"
        /\ task'[c].sid = task[c].sid
    BY <1>5, <1>b, GotoTask DEF StopPub
  <2>2. Relies(c)'
    BY <1>5, <1>a, <2>1 DEF StopPub, Relies
  <2> QED BY <1>5, <2>2, GoingOnKeeps DEF StopPub
<1>6. CASE StopLive(c)
  BY <1>6, <1>a, <1>b, GotoTask, GoingOnKeeps DEF StopLive, Relies
<1>7. CASE CdrRead(c)
  <2>1. /\ task'[c].pc = "cdr_insert"
        /\ task'[c].sid = task[c].sid
        /\ task'[c].energy = rows[task[c].sid].energy
        /\ \A d \in Conn \ {c} : task'[d] = task[d]
        /\ UNCHANGED <<rows, cdrs>>
    BY <1>7, <1>b DEF CdrRead, Task
  <2>2. Relies(c)'
    BY <1>7, <1>a, <2>1 DEF CdrRead, Relies
  <2>3. \A d \in Conn \ {c} : Apart(c, d)'
    BY <1>7, <2>1 DEF CdrRead, HandlerInv, Apart
  <2> QED BY <2>1, <2>2, <2>3, ByConnection, Undisturbed
<1>8. CASE CdrInsert(c)
  <2>0. PICK s \in Sid : s = task[c].sid
    BY <1>a, <1>8 DEF CdrInsert, Relies
  <2>1. /\ task'[c].pc = "cdr_event"
        /\ task'[c].sid = s
        /\ task'[c].energy = task[c].energy
        /\ \A d \in Conn \ {c} : task'[d] = task[d]
    BY <2>0, <1>8, <1>b, GotoTask DEF CdrInsert
  <2>2. cdrs[s] = <<>> /\ rows[s].status = "completed"
    BY <2>0, <1>8, <1>a DEF CdrInsert, Relies
  <2>3. Append(<<>>, task[c].energy) = <<task[c].energy>>
    OBVIOUS
  <2>4. /\ cdrs'[s] = <<task[c].energy>>
        /\ \A r \in Sid \ {s} : cdrs'[r] = cdrs[r]
        /\ UNCHANGED rows
    BY <2>0, <2>2, <2>3, <1>8 DEF CdrInsert, TypeOK
  <2>5. Relies(c)'
    BY <2>1, <2>4 DEF Relies
  <2>6. ASSUME NEW d \in Conn \ {c} PROVE Relies(d)' /\ Apart(c, d)'
    <3>1. Relies(d) /\ Apart(c, d) /\ task'[d] = task[d]
      BY <2>1, <2>6 DEF HandlerInv
    <3>2. ~(task[d].pc \in UnbilledSteps /\ task[d].sid = s)
      BY <2>0, <3>1, <1>8 DEF Apart, CdrInsert
    <3>3. ~(task[d].pc \in {"cdr_event", "stop_event"} /\ task[d].sid = s)
      <4>1. <<>> # <<task[d].energy>>
        OBVIOUS
      <4> QED BY <3>1, <2>2, <4>1 DEF Relies
    <3>4. Relies(d)'
      BY <3>1, <3>2, <3>3, <2>4 DEF Relies
    <3> QED BY <3>4, <2>1 DEF Apart
  <2> QED BY <2>1, <2>5, <2>6, ByConnection DEF Others
<1>9. CASE CdrEvent(c)
  BY <1>9, <1>a, <1>b, GotoTask, GoingOnKeeps DEF CdrEvent, Relies
<1>10. CASE StopEvent(c)
  BY <1>10, EndingKeeps DEF StopEvent
<1>11. CASE MeterAudit(c)
  <2>1. PICK x \in {"meter_pub", "meter_event", "meter_live"} :
          Goto(c, x) /\ (x = "meter_live" => task[c].sid # None)
    BY <1>11 DEF MeterAudit, AfterRow
  <2>2. task[c].sid \in Sid \cup {None}
    BY <1>b DEF Task
  <2>3. Relies(c)'
    BY <1>11, <1>a, <1>b, <2>1, <2>2, GotoTask DEF MeterAudit, Relies
  <2> QED BY <1>11, <2>1, <2>3, GoingOnKeeps DEF MeterAudit
<1>12. CASE MeterLive(c)
  BY <1>12, <1>a, <1>b, GotoTask, GoingOnKeeps DEF MeterLive, Relies
<1>13. CASE MeterRow(c)
  <2>1. PICK x \in {"meter_pub", "meter_event"} : Goto(c, x)
    BY <1>13 DEF MeterRow, AfterRow
  <2>2. /\ task'[c].pc = x
        /\ task'[c].sid = task[c].sid
        /\ \A d \in Conn \ {c} : task'[d] = task[d]
    BY <2>1, <1>b, GotoTask
  <2>3. /\ UNCHANGED cdrs
        /\ \A r \in Sid :
              /\ rows'[r].status = rows[r].status
              /\ rows[r].status # "active" => rows'[r] = rows[r]
    BY <1>13 DEF MeterRow, TypeOK, Row
  <2>4. Relies(c)'
    BY <2>2 DEF Relies
  <2>5. ASSUME NEW d \in Conn \ {c} PROVE Relies(d)' /\ Apart(c, d)'
    <3>1. Relies(d) /\ task'[d] = task[d]
      BY <2>2, <2>5 DEF HandlerInv
    <3>2. CASE task[d].sid \in Sid
      <4>1. PICK s \in Sid : s = task[d].sid
        BY <3>2
      <4>2. /\ rows'[s].status = rows[s].status
            /\ rows[s].status # "active" => rows'[s] = rows[s]
        BY <2>3
      <4> QED BY <3>1, <4>1, <4>2, <2>2, <2>3 DEF Relies, Apart
    <3>3. CASE task[d].sid \notin Sid
      BY <3>1, <3>3, <2>2, <2>3 DEF Relies, Apart
    <3> QED BY <3>2, <3>3
  <2> QED BY <2>2, <2>4, <2>5, ByConnection DEF Others
<1>14. CASE MeterPub(c)
  BY <1>14, <1>a, <1>b, GotoTask, GoingOnKeeps DEF MeterPub, Relies
<1>15. CASE MeterEvent(c)
  BY <1>15, EndingKeeps DEF MeterEvent
<1> QED BY <1>1, <1>2, <1>3, <1>4, <1>5, <1>6, <1>7, <1>8, <1>9, <1>10, <1>11,
           <1>12, <1>13, <1>14, <1>15 DEF Step
-----------------------------------------------------------------------------
(* The three messages.                                                     *)

LEMMA MessageStep ==
    ASSUME TypeOK, HandlerInv, BilledOnce, NEW c \in Conn, Message(c)
    PROVE  HandlerInv'
<1> USE DEF StartSteps, StopSteps, UnbilledSteps, MeterSteps
<1>a. task \in [Conn -> Task]
  BY DEF TypeOK
<1>1. ASSUME NEW reg \in Register, NEW tag \in Pub \cup {None},
             StartTransaction(c, reg, tag)
      PROVE  HandlerInv'
  <2>1. PICK s \in Sid, m \in MaxTxns :
          /\ Fresh(s)
          /\ task' = [task EXCEPT ![c] = [pc |-> "start_commit", sid |-> s,
                                         txn |-> m + 1, reg |-> reg, energy |-> 0,
                                         tag |-> tag]]
          /\ UNCHANGED <<rows, cdrs>>
    BY <1>1 DEF StartTransaction
  <2>2. /\ task'[c].pc = "start_commit"
        /\ task'[c].sid = s
        /\ \A d \in Conn \ {c} : task'[d] = task[d] /\ task[d].sid # s
        /\ rows[s].status = "none"
    BY <1>a, <2>1 DEF Fresh
  <2>3. Relies(c)'
    BY <2>1, <2>2 DEF Relies
  <2>4. \A d \in Conn \ {c} : Apart(c, d)'
    BY <2>2 DEF Apart
  <2> QED BY <2>1, <2>2, <2>3, <2>4, ByConnection, Undisturbed
<1>2. ASSUME NEW reg \in Register, NEW t, MeterValues(c, t, reg)
      PROVE  HandlerInv'
  <2>1. PICK s \in ActiveRows(c, t) \cup {None} :
          /\ \E e : task' = [task EXCEPT ![c] = [pc |-> "meter_audit", sid |-> s,
                                                txn |-> t, reg |-> reg,
                                                energy |-> e, tag |-> None]]
          /\ UNCHANGED <<rows, cdrs>>
    BY <1>2 DEF MeterValues
  <2>2. /\ task'[c].pc = "meter_audit"
        /\ task'[c].sid = s
        /\ \A d \in Conn \ {c} : task'[d] = task[d]
    BY <1>a, <2>1
  <2>3. s \in Sid => rows[s].status = "active"
    BY <2>1 DEF ActiveRows
  <2>4. Relies(c)'
    BY <2>1, <2>2, <2>3 DEF Relies
  <2>5. \A d \in Conn \ {c} : Apart(c, d)'
    BY <2>2 DEF Apart
  <2> QED BY <2>1, <2>2, <2>4, <2>5, ByConnection, Undisturbed
<1>3. ASSUME NEW reg \in Register, NEW t, StopTransaction(c, t, reg)
      PROVE  HandlerInv'
  <2>1. CASE UNCHANGED <<rows, task>>
    <3>1. UNCHANGED <<rows, task, cdrs>>
      BY <1>3, <2>1 DEF StopTransaction
    <3> QED BY <3>1 DEF HandlerInv, Relies, Apart
  <2>2. ASSUME NEW r \in ActiveRows(c, t), NEW e,
               Complete(ActiveRows(c, t), reg, e),
               task' = [task EXCEPT ![c] = [pc |-> "stop_pub", sid |-> r,
                                            txn |-> t, reg |-> 0, energy |-> e,
                                            tag |-> None]]
        PROVE  HandlerInv'
    <3>1. /\ task'[c].pc = "stop_pub"
          /\ task'[c].sid = r
          /\ \A d \in Conn \ {c} : task'[d] = task[d]
      BY <1>a, <2>2
    <3>2. /\ r \in Sid
          /\ rows[r].status = "active"
          /\ rows'[r].status = "completed"
          /\ UNCHANGED cdrs
          /\ \A s \in Sid :
                /\ rows[s].status # "active" => rows'[s] = rows[s]
                /\ rows[s].status = "active"
                      => rows'[s].status \in {"active", "completed"}
      BY <1>3, <2>2 DEF ActiveRows, Complete, StopTransaction
    <3>3. cdrs[r] = <<>>
      BY <3>2 DEF BilledOnce
    <3>4. Relies(c)'
      BY <3>1, <3>2, <3>3 DEF Relies
    <3>5. ASSUME NEW d \in Conn \ {c} PROVE Relies(d)' /\ Apart(c, d)'
      <4>1. Relies(d) /\ task'[d] = task[d]
        BY <3>1, <3>5 DEF HandlerInv
      <4>2. CASE task[d].sid \in Sid
        <5>1. PICK s \in Sid : s = task[d].sid
          BY <4>2
        <5>2. /\ rows[s].status # "active" => rows'[s] = rows[s]
              /\ rows[s].status = "active" => rows'[s].status \in {"active", "completed"}
          BY <3>2
        <5> QED BY <4>1, <5>1, <5>2, <3>1, <3>2 DEF Relies, Apart
      <4>3. CASE task[d].sid \notin Sid
        BY <4>1, <4>3, <3>1, <3>2 DEF Relies, Apart
      <4> QED BY <4>2, <4>3
    <3> QED BY <3>1, <3>4, <3>5, ByConnection DEF Others
  <2> QED BY <1>3, <2>1, <2>2 DEF StopTransaction
<1> QED BY <1>1, <1>2, <1>3 DEF Message

LEMMA HandlerInvStep == IInv /\ [Next]_vars => HandlerInv'
<1> SUFFICES ASSUME TypeOK, HandlerInv, BilledOnce, [Next]_vars PROVE HandlerInv'
  BY DEF IInv
<1>1. ASSUME NEW c \in Conn, Abort(c) PROVE HandlerInv'
  BY <1>1, EndingKeeps DEF Abort
<1>2. CASE UNCHANGED vars
  BY <1>2 DEF vars, HandlerInv, Relies, Apart
<1> QED BY <1>1, <1>2, HandlerStep, MessageStep DEF Next
-----------------------------------------------------------------------------
(* Rows are never removed, and a completed row never changes.              *)

Lasting(s) ==
    /\ rows[s].status = "completed" => rows'[s] = rows[s]
    /\ rows[s].status # "none" => rows'[s].status # "none"
    /\ rows'[s].status = "none" => rows'[s] = rows[s]

LEMMA RowsStep ==
    ASSUME IInv, [Next]_vars, NEW s \in Sid
    PROVE  Lasting(s)
<1> USE DEF Lasting
<1>a. TypeOK /\ HandlerInv
  BY DEF IInv
<1>1. CASE UNCHANGED rows
  BY <1>1
<1>2. ASSUME NEW c \in Conn, StartCommit(c) PROVE Lasting(s)
  <2>1. Relies(c) /\ task[c].pc = "start_commit"
    BY <1>a, <1>2 DEF HandlerInv, StartCommit, At
  <2>2. rows[task[c].sid].status = "none"
    BY <2>1 DEF Relies
  <2>3. /\ s # task[c].sid => rows'[s] = rows[s]
        /\ s = task[c].sid => rows'[s].status = "active"
    BY <1>2, <1>a DEF StartCommit, TypeOK
  <2> QED BY <2>2, <2>3
<1>3. ASSUME NEW c \in Conn, MeterRow(c) PROVE Lasting(s)
  <2>1. CASE UNCHANGED rows
    BY <2>1
  <2>2. CASE /\ rows[task[c].sid].status = "active"
             /\ rows' = [rows EXCEPT ![task[c].sid].energy = task[c].energy]
    <3>1. s # task[c].sid => rows'[s] = rows[s]
      BY <1>a, <2>2 DEF TypeOK
    <3>2. s = task[c].sid => rows'[s].status = rows[s].status
      BY <1>a, <2>2 DEF TypeOK, Row
    <3> QED BY <2>2, <3>1, <3>2
  <2> QED BY <1>3, <2>1, <2>2 DEF MeterRow
<1>4. ASSUME NEW c \in Conn, NEW t, NEW reg, StopTransaction(c, t, reg)
      PROVE  Lasting(s)
  <2>1. ASSUME NEW e, Complete(ActiveRows(c, t), reg, e) PROVE Lasting(s)
    BY <2>1 DEF Complete, ActiveRows
  <2> QED BY <1>1, <1>4, <2>1 DEF StopTransaction
<1>5. ASSUME NEW c \in Conn, Step(c) PROVE Lasting(s)
  BY <1>1, <1>2, <1>3, <1>5
     DEF Step, StartLive, StartEvent, StartLink, StopPub, StopLive, CdrRead,
         CdrInsert, CdrEvent, StopEvent, MeterAudit, MeterLive, MeterPub,
         MeterEvent
<1>6. ASSUME NEW c \in Conn, Message(c) PROVE Lasting(s)
  BY <1>1, <1>4, <1>6 DEF Message, StartTransaction, MeterValues
<1> QED BY <1>1, <1>5, <1>6 DEF Next, Abort, vars

LEMMA BilledOnceStep == IInv /\ [Next]_vars => BilledOnce'
<1> SUFFICES ASSUME IInv, [Next]_vars, NEW s \in Sid
             PROVE  \/ cdrs'[s] = <<>>
                    \/ rows'[s].status = "completed" /\ cdrs'[s] = <<rows'[s].energy>>
  BY DEF BilledOnce
<1>1. Lasting(s)
  BY RowsStep
<1>2. CASE cdrs'[s] = cdrs[s]
  BY <1>1, <1>2 DEF Lasting, IInv, BilledOnce
<1>3. ASSUME NEW c \in Conn, CdrInsert(c), cdrs'[s] # cdrs[s]
      PROVE  rows'[s].status = "completed" /\ cdrs'[s] = <<rows'[s].energy>>
  <2>1. s = task[c].sid
    BY <1>3 DEF CdrInsert, IInv, TypeOK
  <2>2. /\ rows[s].status = "completed"
        /\ cdrs[s] = <<>>
        /\ task[c].energy = rows[s].energy
    BY <1>3, <2>1 DEF CdrInsert, At, IInv, HandlerInv, Relies, UnbilledSteps
  <2>3. cdrs'[s] = Append(<<>>, task[c].energy)
    BY <1>3, <2>1, <2>2 DEF CdrInsert, IInv, TypeOK
  <2>4. Append(<<>>, task[c].energy) = <<task[c].energy>>
    OBVIOUS
  <2> QED BY <1>3, <2>2, <2>3, <2>4 DEF CdrInsert
<1>4. cdrs' = cdrs \/ \E c \in Conn : CdrInsert(c)
  <2>1. ASSUME NEW c \in Conn, Step(c) PROVE cdrs' = cdrs \/ CdrInsert(c)
    BY <2>1
       DEF Step, StartCommit, StartLive, StartEvent, StartLink, StopPub, StopLive,
           CdrRead, CdrEvent, StopEvent, MeterAudit, MeterLive, MeterRow, MeterPub,
           MeterEvent
  <2>2. ASSUME NEW c \in Conn, Message(c) PROVE cdrs' = cdrs
    BY <2>2 DEF Message, StartTransaction, StopTransaction, MeterValues
  <2> QED BY <2>1, <2>2 DEF Next, Abort, vars
<1> QED BY <1>2, <1>3, <1>4

LEMMA LiveHasRowStep == IInv /\ [Next]_vars => LiveHasRow'
<1> SUFFICES ASSUME IInv, [Next]_vars, NEW s \in Sid, live'[s] # "absent"
             PROVE  rows'[s].status # "none"
  BY DEF LiveHasRow
<1>1. Lasting(s)
  BY RowsStep
<1>2. CASE live[s] # "absent"
  BY <1>1, <1>2 DEF Lasting, IInv, LiveHasRow
<1>3. ASSUME NEW c \in Conn, StartLive(c) \/ MeterLive(c) \/ StopLive(c),
             live[s] = "absent"
      PROVE  rows[s].status # "none"
  <2>1. s = task[c].sid /\ task[c].pc \in {"start_live", "meter_live"}
    BY <1>3 DEF StartLive, MeterLive, StopLive, At, IInv, TypeOK
  <2> QED BY <2>1 DEF IInv, HandlerInv, Relies
<1>4. \/ live' = live
      \/ \E c \in Conn : StartLive(c) \/ MeterLive(c) \/ StopLive(c)
  <2>1. ASSUME NEW c \in Conn, Step(c)
        PROVE  live' = live \/ StartLive(c) \/ MeterLive(c) \/ StopLive(c)
    BY <2>1
       DEF Step, StartCommit, StartEvent, StartLink, StopPub, CdrRead, CdrInsert,
           CdrEvent, StopEvent, MeterAudit, MeterRow, MeterPub, MeterEvent
  <2>2. ASSUME NEW c \in Conn, Message(c) PROVE live' = live
    BY <2>2 DEF Message, StartTransaction, StopTransaction, MeterValues
  <2> QED BY <2>1, <2>2 DEF Next, Abort, vars
<1> QED BY <1>1, <1>2, <1>3, <1>4 DEF Lasting

LEMMA UnopenedStep == IInv /\ [Next]_vars => Unopened'
BY RowsStep DEF Lasting, IInv, Unopened

-----------------------------------------------------------------------------
(* The theorems.                                                           *)

LEMMA Invariance == Spec => []IInv
<1>1. IInv /\ [Next]_vars => IInv'
  BY TypeStep, HandlerInvStep, BilledOnceStep, LiveHasRowStep, UnopenedStep DEF IInv
<1> QED BY InitIInv, <1>1, PTL DEF Spec

\* Every row, hash, event and suspended handler is well formed: in particular
\* no energy is ever negative, whatever registers a charger sends
\* (meter.py:21-31).
THEOREM TypeCorrect == Spec => []TypeOK
BY Invariance, PTL DEF IInv

\* The handler that completed a session is the only one that bills it and
\* finds it unchanged, however handlers of two connections interleave, abort
\* and are sent again (session.py:129-163).
THEOREM HandlersApart == Spec => []HandlerInv
BY Invariance, PTL DEF IInv

\* A session is billed at most once, only when completed, and for exactly the
\* energy its row keeps (session.py:129-146 and 347-359).
THEOREM BillingOnce == Spec => []BilledOnce
BY Invariance, PTL DEF IInv

\* Redis never shows a session that has no row (session.py:36-63).
THEOREM LiveSessionsExist == Spec => []LiveHasRow
BY Invariance, PTL DEF IInv

-----------------------------------------------------------------------------
(* The order of the stream.  StreamOrder is not inductive: it does not say *)
(* what the handler that has billed a session and is about to announce it  *)
(* finds on the stream, nor that no other handler announces that session.  *)

Marked(q, s, type) == \E i \in DOMAIN q : q[i].type = type /\ q[i].sid = s

\* Event i of stream q is the only one of its type for its session, and says
\* what was billed (b).
Alone(q, b, i) ==
    /\ q[i].sid \in Sid
    /\ b[q[i].sid] = <<q[i].kwh>>
    /\ \A j \in DOMAIN q : q[j].type = q[i].type /\ q[j].sid = q[i].sid => i = j

After(q, i) == \E j \in 1 .. i - 1 : q[j].type = "CDR" /\ q[j].sid = q[i].sid

StreamOk(q, b) ==
    \A i \in DOMAIN q :
        /\ q[i].type \in {"CDR", "STOP"} => Alone(q, b, i)
        /\ q[i].type = "STOP" => After(q, i)

\* What a handler that is about to announce its session finds of it on q.
Announces(q, k) ==
    /\ k.pc = "cdr_event"
          => ~Marked(q, k.sid, "CDR") /\ ~Marked(q, k.sid, "STOP")
    /\ k.pc = "stop_event"
          => Marked(q, k.sid, "CDR") /\ ~Marked(q, k.sid, "STOP")

StoppersApart(k, l) == k.pc \in StopSteps /\ l.pc \in StopSteps => k.sid # l.sid

AnnounceInv ==
    /\ \A c \in Conn : Announces(stream, task[c])
    /\ \A c, d \in Conn : c # d => StoppersApart(task[c], task[d])

StreamInv == StreamOk(stream, cdrs) /\ AnnounceInv

LEMMA InitStreamInv == Init => StreamInv
BY DEF Init, StreamInv, StreamOk, AnnounceInv, Announces, StoppersApart, Idle,
       StopSteps

LEMMA AppendsEvent ==
    ASSUME NEW q \in Seq(Event), NEW v \in Event, NEW w, w = Append(q, v)
    PROVE  /\ Len(q) \in Nat
           /\ DOMAIN q = 1 .. Len(q) /\ DOMAIN w = 1 .. Len(q) + 1
           /\ \A i \in 1 .. Len(q) : w[i] = q[i]
           /\ w[Len(q) + 1] = v
OBVIOUS

\* What an appended event adds to what is said of a session.
Adds(q, v, w) ==
    \A s, type :
        Marked(w, s, type) <=> Marked(q, s, type) \/ (v.type = type /\ v.sid = s)

LEMMA MarkedMore ==
    ASSUME NEW q \in Seq(Event), NEW v \in Event, NEW w, w = Append(q, v)
    PROVE  Adds(q, v, w)
<1> SUFFICES ASSUME NEW s, NEW type
             PROVE  Marked(w, s, type)
                      <=> Marked(q, s, type) \/ (v.type = type /\ v.sid = s)
  BY DEF Adds
<1>1. /\ Len(q) \in Nat
      /\ DOMAIN q = 1 .. Len(q) /\ DOMAIN w = 1 .. Len(q) + 1
      /\ \A i \in 1 .. Len(q) : w[i] = q[i]
      /\ w[Len(q) + 1] = v
  BY AppendsEvent
<1>2. ASSUME Marked(w, s, type)
      PROVE  Marked(q, s, type) \/ (v.type = type /\ v.sid = s)
  <2>1. PICK i \in 1 .. Len(q) + 1 : w[i].type = type /\ w[i].sid = s
    BY <1>1, <1>2 DEF Marked
  <2>2. CASE i \in 1 .. Len(q)
    BY <1>1, <2>1, <2>2 DEF Marked
  <2>3. CASE i = Len(q) + 1
    BY <1>1, <2>1, <2>3
  <2> QED BY <1>1, <2>1, <2>2, <2>3
<1>3. ASSUME Marked(q, s, type) PROVE Marked(w, s, type)
  <2>1. PICK i \in 1 .. Len(q) : q[i].type = type /\ q[i].sid = s
    BY <1>1, <1>3 DEF Marked
  <2>2. i \in DOMAIN w /\ w[i] = q[i]
    BY <1>1
  <2> QED BY <2>1, <2>2 DEF Marked
<1>4. ASSUME v.type = type, v.sid = s PROVE Marked(w, s, type)
  <2>1. Len(q) + 1 \in DOMAIN w
    BY <1>1
  <2> QED BY <1>1, <1>4, <2>1 DEF Marked
<1> QED BY <1>2, <1>3, <1>4

\* An event may follow: one that is not about billing, the bill of a session
\* that has neither bill nor end on the stream, or the end of one that has its
\* bill there.
Allowed(q, b, v) ==
    /\ v.type \in {"CDR", "STOP"} =>
          /\ v.sid \in Sid
          /\ b[v.sid] = <<v.kwh>>
          /\ ~Marked(q, v.sid, v.type)
    /\ v.type = "STOP" => Marked(q, v.sid, "CDR")

LEMMA StreamGrows ==
    ASSUME NEW b, NEW q \in Seq(Event), StreamOk(q, b),
           NEW v \in Event, Allowed(q, b, v),
           NEW w, w = Append(q, v)
    PROVE  StreamOk(w, b)
<1>1. /\ Len(q) \in Nat
      /\ DOMAIN q = 1 .. Len(q) /\ DOMAIN w = 1 .. Len(q) + 1
      /\ \A i \in 1 .. Len(q) : w[i] = q[i]
      /\ w[Len(q) + 1] = v
  BY AppendsEvent
<1>2. ASSUME NEW i \in 1 .. Len(q)
      PROVE  /\ w[i].type \in {"CDR", "STOP"} => Alone(w, b, i)
             /\ w[i].type = "STOP" => After(w, i)
  <2>1. /\ q[i].type \in {"CDR", "STOP"} => Alone(q, b, i)
        /\ q[i].type = "STOP" => After(q, i)
        /\ w[i] = q[i]
    BY <1>1, <1>2 DEF StreamOk
  <2>2. ASSUME w[i].type \in {"CDR", "STOP"} PROVE Alone(w, b, i)
    <3>1. Alone(q, b, i)
      BY <2>1, <2>2
    <3>2. ASSUME NEW j \in DOMAIN w, w[j].type = w[i].type, w[j].sid = w[i].sid
          PROVE  i = j
      <4>1. CASE j \in 1 .. Len(q)
        BY <1>1, <2>1, <3>1, <3>2, <4>1 DEF Alone
      <4>2. CASE j = Len(q) + 1
        <5>1. v.type = q[i].type /\ v.sid = q[i].sid
          BY <1>1, <2>1, <3>2, <4>2
        <5>2. Marked(q, v.sid, v.type)
          BY <1>1, <5>1 DEF Marked
        <5> QED BY <2>1, <2>2, <5>1, <5>2 DEF Allowed
      <4> QED BY <1>1, <3>2, <4>1, <4>2
    <3> QED BY <2>1, <3>1, <3>2 DEF Alone
  <2>3. ASSUME w[i].type = "STOP" PROVE After(w, i)
    <3>1. PICK j \in 1 .. i - 1 : q[j].type = "CDR" /\ q[j].sid = q[i].sid
      BY <2>1, <2>3 DEF After
    <3>2. j \in 1 .. Len(q)
      BY <1>1
    <3> QED BY <1>1, <2>1, <3>1, <3>2 DEF After
  <2> QED BY <2>2, <2>3
<1>3. /\ v.type \in {"CDR", "STOP"} => Alone(w, b, Len(q) + 1)
      /\ v.type = "STOP" => After(w, Len(q) + 1)
  <2>1. ASSUME v.type \in {"CDR", "STOP"} PROVE Alone(w, b, Len(q) + 1)
    <3>1. ASSUME NEW j \in DOMAIN w, w[j].type = v.type, w[j].sid = v.sid
          PROVE  Len(q) + 1 = j
      <4>1. CASE j \in 1 .. Len(q)
        <5>1. Marked(q, v.sid, v.type)
          BY <1>1, <3>1, <4>1 DEF Marked
        <5> QED BY <2>1, <5>1 DEF Allowed
      <4> QED BY <1>1, <3>1, <4>1
    <3> QED BY <1>1, <2>1, <3>1 DEF Alone, Allowed
  <2>2. ASSUME v.type = "STOP" PROVE After(w, Len(q) + 1)
    <3>1. PICK j \in 1 .. Len(q) : q[j].type = "CDR" /\ q[j].sid = v.sid
      BY <1>1, <2>2 DEF Allowed, Marked
    <3>2. (Len(q) + 1) - 1 = Len(q)
      BY <1>1
    <3> QED BY <1>1, <3>1, <3>2 DEF After
  <2> QED BY <2>1, <2>2
<1>4. ASSUME NEW i \in DOMAIN w
      PROVE  /\ w[i].type \in {"CDR", "STOP"} => Alone(w, b, i)
             /\ w[i].type = "STOP" => After(w, i)
  <2>1. i \in 1 .. Len(q) \/ i = Len(q) + 1
    BY <1>1
  <2> QED BY <1>1, <1>2, <1>3, <2>1
<1> QED BY <1>4 DEF StreamOk

\* What is on the stream about a session that has no bill yet: nothing that
\* comes with a bill.
LEMMA UnbilledUnmarked ==
    ASSUME NEW q, NEW b, StreamOk(q, b), NEW s, b[s] = <<>>
    PROVE  ~Marked(q, s, "CDR") /\ ~Marked(q, s, "STOP")
<1>1. ASSUME NEW i \in DOMAIN q, q[i].sid = s, q[i].type \in {"CDR", "STOP"}
      PROVE  FALSE
  <2>1. b[s] = <<q[i].kwh>>
    BY <1>1 DEF StreamOk, Alone
  <2>2. <<>> # <<q[i].kwh>>
    OBVIOUS
  <2> QED BY <2>1, <2>2
<1> QED BY <1>1 DEF Marked

\* Billing a session that has no bill changes nothing of what the stream says.
FirstBill(b, b2, s) == b[s] = <<>> /\ \A r \in Sid \ {s} : b2[r] = b[r]

LEMMA BillKeepsStream ==
    ASSUME NEW q, NEW b, StreamOk(q, b), NEW s \in Sid,
           NEW b2, FirstBill(b, b2, s)
    PROVE  StreamOk(q, b2)
<1>1. ~Marked(q, s, "CDR") /\ ~Marked(q, s, "STOP")
  BY UnbilledUnmarked DEF FirstBill
<1>2. ASSUME NEW i \in DOMAIN q, q[i].type \in {"CDR", "STOP"}
      PROVE  Alone(q, b2, i)
  <2>1. Alone(q, b, i)
    BY <1>2 DEF StreamOk
  <2>2. q[i].sid \in Sid \ {s}
    BY <1>1, <1>2, <2>1 DEF Alone, Marked
  <2> QED BY <2>1, <2>2 DEF Alone, FirstBill
<1> QED BY <1>2 DEF StreamOk

\* A step of connection c that leaves the other handlers alone.
LEMMA AnnounceByConnection ==
    ASSUME AnnounceInv, NEW c \in Conn, Announces(stream', task'[c]),
           \A d \in Conn \ {c} : /\ task'[d] = task[d]
                                 /\ Announces(stream', task[d])
                                 /\ StoppersApart(task'[c], task[d])
    PROVE  AnnounceInv'
<1>1. ASSUME NEW d \in Conn PROVE Announces(stream', task'[d])
  OBVIOUS
<1>2. ASSUME NEW d \in Conn, NEW e \in Conn, d # e
      PROVE  StoppersApart(task'[d], task'[e])
  <2>1. CASE d = c
    BY <1>2, <2>1
  <2>2. CASE e = c
    <3>1. StoppersApart(task'[c], task[d]) /\ task'[d] = task[d]
      BY <1>2, <2>2
    <3> QED BY <3>1, <2>2 DEF StoppersApart
  <2>3. CASE d # c /\ e # c
    <3>1. StoppersApart(task[d], task[e])
      BY <1>2 DEF AnnounceInv
    <3> QED BY <3>1, <2>3
  <2> QED BY <2>1, <2>2, <2>3
<1> QED BY <1>1, <1>2 DEF AnnounceInv

\* Handler c goes on towards its announcement, or has none to make; what is on
\* the stream about billing stays.
GoesOn(c) ==
    /\ \A d \in Conn \ {c} : task'[d] = task[d]
    /\ task'[c].pc \notin {"cdr_event", "stop_event"}
    /\ task'[c].pc \in StopSteps
          => task[c].pc \in StopSteps /\ task'[c].sid = task[c].sid

LEMMA GoingOnAnnounces ==
    ASSUME AnnounceInv, NEW c \in Conn, GoesOn(c),
           \A s, type : type \in {"CDR", "STOP"} =>
               (Marked(stream', s, type) <=> Marked(stream, s, type))
    PROVE  AnnounceInv'
<1>1. Announces(stream', task'[c])
  BY DEF Announces, GoesOn
<1>2. ASSUME NEW d \in Conn \ {c}
      PROVE  /\ task'[d] = task[d]
             /\ Announces(stream', task[d])
             /\ StoppersApart(task'[c], task[d])
  <2>1. Announces(stream, task[d]) /\ StoppersApart(task[c], task[d])
    BY <1>2 DEF AnnounceInv
  <2>2. Announces(stream', task[d])
    BY <2>1 DEF Announces
  <2> QED BY <2>1, <2>2 DEF GoesOn, StoppersApart
<1> QED BY <1>1, <1>2, AnnounceByConnection

\* A step that neither bills nor publishes.
LEMMA SilentStep ==
    ASSUME StreamInv, NEW c \in Conn, GoesOn(c), UNCHANGED <<stream, cdrs>>
    PROVE  StreamInv'
BY GoingOnAnnounces DEF StreamInv

\* A handler publishes an event that says nothing about billing, and goes on.
LEMMA OtherEvent ==
    ASSUME StreamInv, NEW c \in Conn, GoesOn(c), UNCHANGED cdrs,
           stream \in Seq(Event),
           NEW type \in {"START", "METER"}, NEW s \in Sid \cup {None},
           NEW e \in Nat, Publish(type, s, e)
    PROVE  StreamInv'
<1>1. PICK v \in Event : /\ v = [type |-> type, sid |-> s, kwh |-> e]
                         /\ stream' = Append(stream, v)
  BY DEF Publish, Event
<1>2. Adds(stream, v, stream')
  BY <1>1, MarkedMore
<1>3. v.type \notin {"CDR", "STOP"}
  BY <1>1
<1>4. AnnounceInv'
  BY <1>2, <1>3, GoingOnAnnounces DEF StreamInv, Adds
<1>5. StreamOk(stream', cdrs)
  BY <1>1, <1>3, StreamGrows DEF StreamInv, Allowed
<1> QED BY <1>4, <1>5 DEF StreamInv

\* The handler of c publishes the event it is due to publish about its session
\* (v): no other handler is to announce that session.
LEMMA OwnEvent ==
    ASSUME StreamInv, UNCHANGED cdrs, stream \in Seq(Event),
           NEW c \in Conn, task[c].pc \in StopSteps,
           NEW v \in Event, v.sid = task[c].sid, Allowed(stream, cdrs, v),
           stream' = Append(stream, v),
           \A d \in Conn \ {c} : task'[d] = task[d],
           task'[c].pc \in StopSteps => task'[c].sid = task[c].sid,
           Announces(stream', task'[c])
    PROVE  StreamInv'
<1>1. StreamOk(stream', cdrs)
  BY StreamGrows DEF StreamInv
<1>2. Adds(stream, v, stream')
  BY MarkedMore
<1>3. ASSUME NEW d \in Conn \ {c}
      PROVE  /\ Announces(stream', task[d])
             /\ StoppersApart(task'[c], task[d])
  <2>1. Announces(stream, task[d]) /\ StoppersApart(task[c], task[d])
    BY <1>3 DEF StreamInv, AnnounceInv
  <2>2. task[d].pc \in StopSteps => task[d].sid # v.sid
    BY <2>1 DEF StoppersApart
  <2>3. Announces(stream', task[d])
    BY <1>2, <2>1, <2>2 DEF Announces, StopSteps, Adds
  <2> QED BY <2>1, <2>3 DEF StoppersApart
<1> QED BY <1>1, <1>3, AnnounceByConnection DEF StreamInv

LEMMA StreamMessage ==
    ASSUME IInv, StreamInv, NEW c \in Conn, Message(c)
    PROVE  StreamInv'
<1>a. task \in [Conn -> Task]
  BY DEF IInv, TypeOK
<1>1. ASSUME NEW reg, NEW tag, StartTransaction(c, reg, tag) PROVE StreamInv'
  BY <1>1, <1>a, SilentStep DEF StartTransaction, GoesOn, StopSteps
<1>2. ASSUME NEW reg, NEW t, MeterValues(c, t, reg) PROVE StreamInv'
  BY <1>2, <1>a, SilentStep DEF MeterValues, GoesOn, StopSteps
<1>3. ASSUME NEW reg, NEW t, StopTransaction(c, t, reg) PROVE StreamInv'
  <2>1. UNCHANGED <<stream, cdrs>>
    BY <1>3 DEF StopTransaction
  <2>2. CASE UNCHANGED task
    BY <2>1, <2>2 DEF StreamInv, AnnounceInv
  <2>3. ASSUME NEW r \in ActiveRows(c, t), NEW e,
               task' = [task EXCEPT ![c] = [pc |-> "stop_pub", sid |-> r,
                                            txn |-> t, reg |-> 0, energy |-> e,
                                            tag |-> None]]
        PROVE  StreamInv'
    <3>1. /\ task'[c].pc = "stop_pub" /\ task'[c].sid = r
          /\ \A d \in Conn \ {c} : task'[d] = task[d]
      BY <1>a, <2>3
    <3>2. r \in Sid /\ rows[r].status = "active"
      BY DEF ActiveRows
    <3>3. ASSUME NEW d \in Conn \ {c} PROVE StoppersApart(task'[c], task[d])
      <4>1. Relies(d)
        BY <3>3 DEF IInv, HandlerInv
      <4>2. ASSUME task[d].pc \in StopSteps, task[d].sid = r PROVE FALSE
        <5>1. CASE task[d].pc \in UnbilledSteps
          BY <4>1, <4>2, <5>1, <3>2 DEF Relies
        <5>2. CASE task[d].pc \in {"cdr_event", "stop_event"}
          <6>1. cdrs[r] = <<task[d].energy>>
            BY <4>1, <4>2, <5>2 DEF Relies
          <6>2. <<>> # <<task[d].energy>>
            OBVIOUS
          <6> QED BY <6>1, <6>2, <3>2 DEF IInv, BilledOnce
        <5> QED BY <4>2, <5>1, <5>2 DEF StopSteps, UnbilledSteps
      <4> QED BY <3>1, <4>2 DEF StoppersApart
    <3>4. Announces(stream', task'[c])
      BY <3>1 DEF Announces
    <3>5. \A d \in Conn \ {c} : Announces(stream', task[d])
      BY <2>1 DEF StreamInv, AnnounceInv
    <3> QED BY <2>1, <3>1, <3>3, <3>4, <3>5, AnnounceByConnection DEF StreamInv
  <2> QED BY <1>3, <2>2, <2>3 DEF StopTransaction
<1> QED BY <1>1, <1>2, <1>3 DEF Message

LEMMA StreamStep ==
    ASSUME IInv, StreamInv, NEW c \in Conn, Step(c)
    PROVE  StreamInv'
<1>a. task \in [Conn -> Task] /\ task[c] \in Task /\ stream \in Seq(Event)
  BY DEF IInv, TypeOK
<1>b. Relies(c) /\ Announces(stream, task[c])
  BY DEF IInv, HandlerInv, StreamInv, AnnounceInv
<1>c. task[c].sid \in Sid \cup {None} /\ task[c].energy \in Nat
  BY <1>a DEF Task
<1>1. CASE StartEvent(c)
  <2>1. GoesOn(c)
    BY <1>1, <1>a, GotoTask, DoneTask DEF StartEvent, GoesOn, StopSteps
  <2> QED BY <1>1, <1>a, <1>c, <2>1, OtherEvent DEF StartEvent
<1>2. CASE MeterEvent(c)
  <2>1. GoesOn(c)
    BY <1>2, <1>a, DoneTask DEF MeterEvent, GoesOn, StopSteps
  <2> QED BY <1>2, <1>a, <1>c, <2>1, OtherEvent DEF MeterEvent
<1>3. CASE CdrInsert(c)
  <2>1. PICK s \in Sid : s = task[c].sid /\ cdrs[s] = <<>>
    BY <1>3, <1>b DEF CdrInsert, At, Relies, StopSteps, UnbilledSteps
  <2>2. /\ task'[c].pc = "cdr_event" /\ task'[c].sid = s
        /\ \A d \in Conn \ {c} : task'[d] = task[d]
    BY <1>3, <1>a, <2>1, GotoTask DEF CdrInsert
  <2>3. \A r \in Sid \ {s} : cdrs'[r] = cdrs[r]
    BY <1>3, <2>1 DEF CdrInsert, IInv, TypeOK
  <2>4. stream' = stream
    BY <1>3 DEF CdrInsert
  <2>5. StreamOk(stream, cdrs')
    <3>1. StreamOk(stream, cdrs)
      BY DEF StreamInv
    <3>2. FirstBill(cdrs, cdrs', s)
      BY <2>1, <2>3 DEF FirstBill
    <3> QED BY <3>1, <3>2, BillKeepsStream
  <2>6. ~Marked(stream, s, "CDR") /\ ~Marked(stream, s, "STOP")
    BY <2>1, UnbilledUnmarked DEF StreamInv
  <2>7. Announces(stream', task'[c])
    BY <2>2, <2>4, <2>6 DEF Announces
  <2>8. task[c].pc \in StopSteps /\ task'[c].sid = task[c].sid
    BY <1>3, <2>1, <2>2 DEF CdrInsert, At, StopSteps
  <2>9. \A d \in Conn \ {c} : /\ task'[d] = task[d]
                              /\ Announces(stream', task[d])
                              /\ StoppersApart(task'[c], task[d])
    BY <2>2, <2>4, <2>8 DEF StreamInv, AnnounceInv, StoppersApart
  <2> QED BY <2>4, <2>5, <2>7, <2>9, AnnounceByConnection DEF StreamInv
<1>4. CASE CdrEvent(c)
  <2>1. /\ task[c].pc = "cdr_event" /\ task[c].sid \in Sid
        /\ cdrs[task[c].sid] = <<task[c].energy>>
        /\ ~Marked(stream, task[c].sid, "CDR")
        /\ ~Marked(stream, task[c].sid, "STOP")
    BY <1>4, <1>b DEF CdrEvent, At, Relies, Announces, StopSteps
  <2>2. PICK v \in Event :
           /\ v = [type |-> "CDR", sid |-> task[c].sid, kwh |-> task[c].energy]
           /\ stream' = Append(stream, v)
    BY <1>4, <1>c DEF CdrEvent, Publish, Event
  <2>3. /\ task'[c].pc = "stop_event" /\ task'[c].sid = task[c].sid
        /\ \A d \in Conn \ {c} : task'[d] = task[d]
        /\ UNCHANGED cdrs
    BY <1>4, <1>a, GotoTask DEF CdrEvent
  <2>4. Allowed(stream, cdrs, v)
    BY <2>1, <2>2 DEF Allowed
  <2>5. Adds(stream, v, stream')
    BY <1>a, <2>2, MarkedMore
  <2>6. Announces(stream', task'[c])
    BY <2>1, <2>2, <2>3, <2>5 DEF Announces, Adds
  <2>7. task[c].pc \in StopSteps /\ v.sid = task[c].sid
    BY <2>1, <2>2 DEF StopSteps
  <2> QED BY <1>a, <2>2, <2>3, <2>4, <2>6, <2>7, OwnEvent
<1>5. CASE StopEvent(c)
  <2>1. /\ task[c].pc = "stop_event" /\ task[c].sid \in Sid
        /\ cdrs[task[c].sid] = <<task[c].energy>>
        /\ Marked(stream, task[c].sid, "CDR")
        /\ ~Marked(stream, task[c].sid, "STOP")
    BY <1>5, <1>b DEF StopEvent, At, Relies, Announces, StopSteps
  <2>2. PICK v \in Event :
           /\ v = [type |-> "STOP", sid |-> task[c].sid, kwh |-> task[c].energy]
           /\ stream' = Append(stream, v)
    BY <1>5, <1>c DEF StopEvent, Publish, Event
  <2>3. /\ task'[c].pc = "idle"
        /\ \A d \in Conn \ {c} : task'[d] = task[d]
        /\ UNCHANGED cdrs
    BY <1>5, <1>a, DoneTask DEF StopEvent
  <2>4. Allowed(stream, cdrs, v)
    BY <2>1, <2>2 DEF Allowed
  <2>5. Announces(stream', task'[c]) /\ task'[c].pc \notin StopSteps
    BY <2>3 DEF Announces, StopSteps
  <2>6. task[c].pc \in StopSteps /\ v.sid = task[c].sid
    BY <2>1, <2>2 DEF StopSteps
  <2> QED BY <1>a, <2>2, <2>3, <2>4, <2>5, <2>6, OwnEvent
<1>6. CASE StopPub(c) \/ StopLive(c) \/ CdrRead(c)
  <2>1. UNCHANGED <<stream, cdrs>>
    BY <1>6 DEF StopPub, StopLive, CdrRead
  <2>2. /\ task[c].pc \in StopSteps /\ task'[c].sid = task[c].sid
        /\ task'[c].pc \notin {"cdr_event", "stop_event"}
        /\ \A d \in Conn \ {c} : task'[d] = task[d]
    <3>1. CASE StopPub(c)
      <4>1. Goto(c, "stop_live") /\ task[c].pc = "stop_pub"
        BY <3>1 DEF StopPub, At
      <4> QED BY <4>1, <1>a, GotoTask DEF StopSteps
    <3>2. CASE StopLive(c)
      BY <3>2, <1>a, GotoTask DEF StopLive, At, StopSteps
    <3>3. CASE CdrRead(c)
      BY <3>3, <1>a DEF CdrRead, At, StopSteps, Task
    <3> QED BY <1>6, <3>1, <3>2, <3>3
  <2> QED BY <2>1, <2>2, SilentStep DEF GoesOn
<1>7. CASE \/ StartCommit(c) \/ StartLive(c) \/ StartLink(c) \/ MeterAudit(c)
           \/ MeterLive(c) \/ MeterRow(c) \/ MeterPub(c)
  <2>1. UNCHANGED <<stream, cdrs>>
    BY <1>7 DEF StartCommit, StartLive, StartLink, MeterAudit, MeterLive,
                MeterRow, MeterPub
  <2>2. Done(c) \/ \E x \in MeterSteps \cup StartSteps : Goto(c, x)
    BY <1>7 DEF StartCommit, StartLive, StartLink, MeterAudit, MeterLive,
                MeterRow, MeterPub, AfterRow, MeterSteps, StartSteps
  <2>3. GoesOn(c)
    <3>1. CASE Done(c)
      BY <3>1, <1>a, DoneTask DEF GoesOn, StopSteps
    <3>2. ASSUME NEW x \in MeterSteps \cup StartSteps, Goto(c, x) PROVE GoesOn(c)
      BY <3>2, <1>a, GotoTask DEF GoesOn, StopSteps, MeterSteps, StartSteps
    <3> QED BY <2>2, <3>1, <3>2
  <2> QED BY <2>1, <2>3, SilentStep
<1> QED BY <1>1, <1>2, <1>3, <1>4, <1>5, <1>6, <1>7 DEF Step

LEMMA StreamInvStep == IInv /\ StreamInv /\ [Next]_vars => StreamInv'
<1> SUFFICES ASSUME IInv, StreamInv, [Next]_vars PROVE StreamInv'
  OBVIOUS
<1>1. ASSUME NEW c \in Conn, Abort(c) PROVE StreamInv'
  <2>1. GoesOn(c)
    BY <1>1, DoneTask DEF Abort, IInv, TypeOK, GoesOn, StopSteps
  <2> QED BY <1>1, <2>1, SilentStep DEF Abort
<1>2. CASE UNCHANGED vars
  BY <1>2 DEF vars, StreamInv, AnnounceInv
<1> QED BY <1>1, <1>2, StreamMessage, StreamStep DEF Next

LEMMA StreamOkOrders == StreamInv => StreamOrder
BY DEF StreamInv, StreamOk, Alone, After, StreamOrder

\* On the stream a session has one CDR and one STOP at most, the STOP after the
\* CDR, both with the energy billed, however handlers interleave and abort
\* (session.py:163-177).
THEOREM StreamInOrder == Spec => []StreamOrder
<1>1. Spec => []StreamInv
  BY InitStreamInv, Invariance, StreamInvStep, PTL DEF Spec
<1> QED BY <1>1, StreamOkOrders, PTL

-----------------------------------------------------------------------------
(* The audit trail.  EnergyAudited is not inductive: a MeterValues handler *)
(* carries the energy it computed, and its register has to be stored by    *)
(* the time the row gets that energy, whose start has to be the same.      *)

ReadingSteps == {"meter_audit", "meter_live", "meter_row"}

\* What task k may rely on about the session it has a reading of.
Reads(k, r, a) ==
    /\ k.pc \in ReadingSteps /\ k.sid \in Sid =>
          /\ r[k.sid].status # "none"
          /\ k.energy = SessionEnergy(k.reg, r[k.sid].start)
    /\ k.pc \in {"meter_live", "meter_row"} => k.reg \in a[k.sid]

ReadInv == \A c \in Conn : Reads(task[c], rows, audit)

AuditInv == EnergyAudited /\ ReadInv

LEMMA InitAuditInv == Init => AuditInv
BY DEF Init, AuditInv, EnergyAudited, ReadInv, Reads, ReadingSteps, Idle, NoRow

\* The start of a session never changes, and no register is taken from the
\* audit trail.
LEMMA StartLasts ==
    ASSUME IInv, [Next]_vars, NEW s \in Sid, rows[s].status # "none"
    PROVE  rows'[s].status # "none" /\ rows'[s].start = rows[s].start
<1>1. rows'[s].status # "none"
  BY RowsStep DEF Lasting
<1>2. CASE UNCHANGED rows
  BY <1>2
<1>3. ASSUME NEW c \in Conn, StartCommit(c) PROVE rows'[s] = rows[s]
  <2>1. Relies(c) /\ task[c].pc = "start_commit"
    BY <1>3 DEF IInv, HandlerInv, StartCommit, At
  <2>2. s # task[c].sid
    BY <2>1 DEF Relies
  <2> QED BY <1>3, <2>2 DEF StartCommit, IInv, TypeOK
<1>4. ASSUME NEW c \in Conn, MeterRow(c) PROVE rows'[s].start = rows[s].start
  BY <1>4 DEF MeterRow, IInv, TypeOK, Row
<1>5. ASSUME NEW c \in Conn, NEW t, NEW reg, StopTransaction(c, t, reg)
      PROVE  rows'[s].start = rows[s].start
  BY <1>5 DEF StopTransaction, Complete
<1>6. ASSUME NEW c \in Conn, Step(c) PROVE rows'[s].start = rows[s].start
  BY <1>2, <1>3, <1>4, <1>6
     DEF Step, StartLive, StartEvent, StartLink, StopPub, StopLive, CdrRead,
         CdrInsert, CdrEvent, StopEvent, MeterAudit, MeterLive, MeterPub,
         MeterEvent
<1>7. ASSUME NEW c \in Conn, Message(c) PROVE rows'[s].start = rows[s].start
  BY <1>2, <1>5, <1>7 DEF Message, StartTransaction, MeterValues
<1> QED BY <1>1, <1>2, <1>6, <1>7 DEF Next, Abort, vars

LEMMA AuditLasts ==
    ASSUME IInv, [Next]_vars, NEW s \in Sid
    PROVE  audit[s] \subseteq audit'[s]
<1>1. ASSUME NEW c \in Conn, MeterAudit(c) PROVE audit[s] \subseteq audit'[s]
  BY <1>1 DEF MeterAudit, IInv, TypeOK
<1>2. ASSUME NEW c \in Conn, Step(c) PROVE UNCHANGED audit \/ MeterAudit(c)
  BY <1>2
     DEF Step, StartCommit, StartLive, StartEvent, StartLink, StopPub, StopLive,
         CdrRead, CdrInsert, CdrEvent, StopEvent, MeterLive, MeterRow, MeterPub,
         MeterEvent
<1>3. ASSUME NEW c \in Conn, Message(c) PROVE UNCHANGED audit
  BY <1>3 DEF Message, StartTransaction, StopTransaction, MeterValues
<1> QED BY <1>1, <1>2, <1>3 DEF Next, Abort, vars

\* A reading stays a reading of its session while its handler is suspended.
LEMMA ReadsLast ==
    ASSUME IInv, [Next]_vars, NEW c \in Conn, Reads(task[c], rows, audit)
    PROVE  Reads(task[c], rows', audit')
<1> DEFINE k == task[c]
<1>0. k \in Task
  BY DEF IInv, TypeOK
<1>1. ASSUME k.pc \in ReadingSteps, k.sid \in Sid
      PROVE  /\ rows'[k.sid].status # "none"
             /\ k.energy = SessionEnergy(k.reg, rows'[k.sid].start)
  <2>1. /\ rows[k.sid].status # "none"
        /\ k.energy = SessionEnergy(k.reg, rows[k.sid].start)
    BY <1>1 DEF Reads
  <2>2. rows'[k.sid].status # "none" /\ rows'[k.sid].start = rows[k.sid].start
    BY <1>1, <2>1, StartLasts
  <2> QED BY <2>1, <2>2
<1>2. ASSUME k.pc \in {"meter_live", "meter_row"} PROVE k.reg \in audit'[k.sid]
  <2>1. k.sid \in Sid
    BY <1>2 DEF IInv, HandlerInv, Relies
  <2>2. k.reg \in audit[k.sid]
    BY <1>2 DEF Reads
  <2> QED BY <2>1, <2>2, AuditLasts
<1> QED BY <1>1, <1>2 DEF Reads

\* The task a message or a step leaves connection c with is a good reading when
\* it is none, or as good as the one before.
LEMMA ReadByConnection ==
    ASSUME IInv, ReadInv, [Next]_vars, NEW c \in Conn,
           \A d \in Conn \ {c} : task'[d] = task[d],
           Reads(task'[c], rows', audit')
    PROVE  ReadInv'
BY ReadsLast DEF ReadInv

LEMMA NoReading ==
    ASSUME NEW k, k.pc \notin ReadingSteps, NEW r, NEW a
    PROVE  Reads(k, r, a)
BY DEF Reads, ReadingSteps

LEMMA GotoWhole ==
    ASSUME task \in [Conn -> Task], NEW c \in Conn, NEW x, Goto(c, x)
    PROVE  /\ task'[c].pc = x
           /\ task'[c].sid = task[c].sid
           /\ task'[c].energy = task[c].energy
           /\ task'[c].reg = task[c].reg
           /\ task'[c].txn = task[c].txn
           /\ \A d \in Conn \ {c} : task'[d] = task[d]
BY DEF Goto, Task

LEMMA ReadMessage ==
    ASSUME IInv, ReadInv, NEW c \in Conn, Message(c), [Next]_vars
    PROVE  ReadInv'
<1>a. task \in [Conn -> Task]
  BY DEF IInv, TypeOK
<1>1. ASSUME NEW reg, NEW tag, StartTransaction(c, reg, tag) PROVE ReadInv'
  <2>1. /\ task'[c].pc = "start_commit"
        /\ \A d \in Conn \ {c} : task'[d] = task[d]
    BY <1>1, <1>a DEF StartTransaction
  <2>2. Reads(task'[c], rows', audit')
    BY <2>1, NoReading DEF ReadingSteps
  <2> QED BY <2>1, <2>2, ReadByConnection
<1>2. ASSUME NEW reg, NEW t, StopTransaction(c, t, reg) PROVE ReadInv'
  <2>1. CASE UNCHANGED task
    BY <2>1, ReadsLast DEF ReadInv
  <2>2. CASE /\ task'[c].pc = "stop_pub"
             /\ \A d \in Conn \ {c} : task'[d] = task[d]
    <3>1. Reads(task'[c], rows', audit')
      BY <2>2, NoReading DEF ReadingSteps
    <3> QED BY <2>2, <3>1, ReadByConnection
  <2> QED BY <1>2, <1>a, <2>1, <2>2 DEF StopTransaction
<1>3. ASSUME NEW reg, NEW t, MeterValues(c, t, reg) PROVE ReadInv'
  <2>1. UNCHANGED <<rows, audit>>
    BY <1>3 DEF MeterValues
  <2>2. PICK s, e :
          /\ task' = [task EXCEPT ![c] = [pc |-> "meter_audit", sid |-> s,
                        txn |-> t, reg |-> reg, energy |-> e, tag |-> None]]
          /\ \/ s = None
             \/ s \in ActiveRows(c, t) /\ e = SessionEnergy(reg, rows[s].start)
    BY <1>3 DEF MeterValues
  <2>3. /\ task'[c].pc = "meter_audit" /\ task'[c].sid = s
        /\ task'[c].reg = reg /\ task'[c].energy = e
        /\ \A d \in Conn \ {c} : task'[d] = task[d]
    BY <1>a, <2>2
  <2>4. s \in Sid => /\ rows[s].status # "none"
                     /\ e = SessionEnergy(reg, rows[s].start)
    BY <2>2 DEF ActiveRows
  <2>5. Reads(task'[c], rows', audit')
    BY <2>1, <2>3, <2>4 DEF Reads
  <2> QED BY <2>3, <2>5, ReadByConnection
<1> QED BY <1>1, <1>2, <1>3 DEF Message

LEMMA ReadStep ==
    ASSUME IInv, ReadInv, NEW c \in Conn, Step(c), [Next]_vars
    PROVE  ReadInv'
<1>a. /\ task \in [Conn -> Task] /\ task[c] \in Task
      /\ audit \in [Sid \cup {None} -> SUBSET Nat]
  BY DEF IInv, TypeOK
<1>b. Relies(c) /\ Reads(task[c], rows, audit)
  BY DEF IInv, HandlerInv, ReadInv
<1>c. Reads(task[c], rows', audit')
  BY <1>b, ReadsLast
<1>1. ASSUME task'[c].pc \notin ReadingSteps,
             \A d \in Conn \ {c} : task'[d] = task[d]
      PROVE  ReadInv'
  <2>1. Reads(task'[c], rows', audit')
    BY <1>1, NoReading
  <2> QED BY <1>1, <2>1, ReadByConnection
<1>2. CASE Done(c)
  <2>1. /\ task'[c].pc \notin ReadingSteps
        /\ \A d \in Conn \ {c} : task'[d] = task[d]
    BY <1>2, <1>a, DoneTask DEF ReadingSteps
  <2> QED BY <2>1, <1>1
<1>3. ASSUME NEW x, x \notin ReadingSteps, Goto(c, x) PROVE ReadInv'
  <2>1. /\ task'[c].pc \notin ReadingSteps
        /\ \A d \in Conn \ {c} : task'[d] = task[d]
    BY <1>3, <1>a, GotoTask
  <2> QED BY <2>1, <1>1
<1>4. CASE CdrRead(c)
  <2>1. /\ task'[c].pc \notin ReadingSteps
        /\ \A d \in Conn \ {c} : task'[d] = task[d]
    BY <1>4, <1>a DEF CdrRead, ReadingSteps, Task
  <2> QED BY <2>1, <1>1
<1>5. CASE MeterAudit(c)
  <2>1. CASE task[c].sid = None
    BY <1>5, <2>1, <1>3 DEF MeterAudit, AfterRow, ReadingSteps
  <2>2. CASE task[c].sid # None
    <3>1. task[c].sid \in Sid /\ task[c].pc \in ReadingSteps
      BY <1>5, <1>a, <2>2 DEF MeterAudit, At, ReadingSteps, Task
    <3>2. /\ task'[c].pc = "meter_live" /\ task'[c].sid = task[c].sid
          /\ task'[c].energy = task[c].energy /\ task'[c].reg = task[c].reg
          /\ \A d \in Conn \ {c} : task'[d] = task[d]
      BY <1>5, <1>a, <2>2, GotoWhole DEF MeterAudit
    <3>3. task[c].reg \in audit'[task[c].sid]
      BY <1>5, <1>a, <3>1 DEF MeterAudit
    <3>4. Reads(task'[c], rows', audit')
      BY <1>c, <3>1, <3>2, <3>3 DEF Reads, ReadingSteps
    <3> QED BY <3>2, <3>4, ReadByConnection
  <2> QED BY <2>1, <2>2
<1>6. CASE MeterLive(c)
  <2>1. /\ task'[c].pc = "meter_row" /\ task'[c].sid = task[c].sid
        /\ task'[c].energy = task[c].energy /\ task'[c].reg = task[c].reg
        /\ \A d \in Conn \ {c} : task'[d] = task[d]
        /\ task[c].pc = "meter_live"
    BY <1>6, <1>a, GotoWhole DEF MeterLive, At
  <2>2. Reads(task'[c], rows', audit')
    BY <1>c, <2>1 DEF Reads, ReadingSteps
  <2> QED BY <2>1, <2>2, ReadByConnection
<1>7. CASE \/ StartCommit(c) \/ StartLive(c) \/ StartEvent(c) \/ StartLink(c)
           \/ StopPub(c) \/ StopLive(c) \/ CdrInsert(c) \/ CdrEvent(c)
           \/ StopEvent(c) \/ MeterRow(c) \/ MeterPub(c) \/ MeterEvent(c)
  <2>1. Done(c) \/ \E x : x \notin ReadingSteps /\ Goto(c, x)
    BY <1>7
       DEF StartCommit, StartLive, StartEvent, StartLink, StopPub, StopLive,
           CdrInsert, CdrEvent, StopEvent, MeterRow, MeterPub, MeterEvent,
           AfterRow, ReadingSteps
  <2> QED BY <1>2, <1>3, <2>1
<1> QED BY <1>4, <1>5, <1>6, <1>7 DEF Step

LEMMA EnergyStep == IInv /\ AuditInv /\ [Next]_vars => EnergyAudited'
<1> SUFFICES ASSUME IInv, AuditInv, [Next]_vars, NEW s \in Sid,
                    rows'[s].status = "active", rows'[s].energy > 0
             PROVE  \E r \in audit'[s] : rows'[s].energy = SessionEnergy(r, rows'[s].start)
  BY DEF EnergyAudited
<1>1. ASSUME rows'[s] = rows[s]
      PROVE  \E r \in audit'[s] : rows'[s].energy = SessionEnergy(r, rows'[s].start)
  BY <1>1, AuditLasts DEF AuditInv, EnergyAudited
<1>2. ASSUME NEW c \in Conn, StartCommit(c), rows'[s] # rows[s] PROVE FALSE
  <2>1. rows'[s].energy = 0
    BY <1>2 DEF StartCommit, IInv, TypeOK
  <2> QED BY <2>1
<1>3. ASSUME NEW c \in Conn, MeterRow(c), rows'[s] # rows[s]
      PROVE  \E r \in audit'[s] : rows'[s].energy = SessionEnergy(r, rows'[s].start)
  <2>1. /\ s = task[c].sid /\ task[c].pc = "meter_row"
        /\ rows'[s] = [rows[s] EXCEPT !.energy = task[c].energy]
        /\ audit' = audit
    BY <1>3 DEF MeterRow, At, IInv, TypeOK
  <2>2. rows[s] \in Row
    BY DEF IInv, TypeOK
  <2>3. rows'[s].energy = task[c].energy /\ rows'[s].start = rows[s].start
    BY <2>1, <2>2 DEF Row
  <2>4. /\ task[c].energy = SessionEnergy(task[c].reg, rows[s].start)
        /\ task[c].reg \in audit[s]
    BY <2>1 DEF AuditInv, ReadInv, Reads, ReadingSteps
  <2> QED BY <2>1, <2>3, <2>4
<1>4. ASSUME NEW c \in Conn, NEW t, NEW reg, StopTransaction(c, t, reg)
      PROVE  rows'[s] = rows[s]
  BY <1>4 DEF StopTransaction, Complete
<1>5. ASSUME NEW c \in Conn, Step(c)
      PROVE  rows' = rows \/ StartCommit(c) \/ MeterRow(c)
  BY <1>5
     DEF Step, StartLive, StartEvent, StartLink, StopPub, StopLive, CdrRead,
         CdrInsert, CdrEvent, StopEvent, MeterAudit, MeterLive, MeterPub,
         MeterEvent
<1>6. ASSUME NEW c \in Conn, Message(c) PROVE rows'[s] = rows[s]
  BY <1>4, <1>6 DEF Message, StartTransaction, MeterValues
<1> QED BY <1>1, <1>2, <1>3, <1>5, <1>6 DEF Next, Abort, vars

LEMMA AuditInvStep == IInv /\ AuditInv /\ [Next]_vars => AuditInv'
<1> SUFFICES ASSUME IInv, AuditInv, [Next]_vars PROVE ReadInv'
  BY EnergyStep DEF AuditInv
<1>1. ReadInv
  BY DEF AuditInv
<1>2. ASSUME NEW c \in Conn, Abort(c) PROVE ReadInv'
  <2>1. /\ task'[c].pc \notin ReadingSteps
        /\ \A d \in Conn \ {c} : task'[d] = task[d]
    BY <1>2, DoneTask DEF Abort, IInv, TypeOK, ReadingSteps
  <2>2. Reads(task'[c], rows', audit')
    BY <2>1, NoReading
  <2> QED BY <1>1, <2>1, <2>2, ReadByConnection
<1>3. CASE UNCHANGED vars
  BY <1>1, <1>3 DEF vars, ReadInv
<1> QED BY <1>1, <1>2, <1>3, ReadMessage, ReadStep DEF Next

\* The running energy of an active session comes from a register the audit trail
\* has for it, though the handler that writes it was suspended twice since it
\* computed that energy (meter.py:161-197).
THEOREM EnergyIsAudited == Spec => []EnergyAudited
<1>1. Spec => []AuditInv
  BY InitAuditInv, Invariance, AuditInvStep, PTL DEF Spec
<1> QED BY <1>1, PTL DEF AuditInv

-----------------------------------------------------------------------------
(* What the driver is shown, when every charger has one connection and     *)
(* nothing fails.  Then a session has one handler at a time, and what its  *)
(* row, its Redis hash and its bill are is known at each step of it.       *)

Calm ==
    /\ \A c, d \in Conn : ChargerOf[c] = ChargerOf[d] => c = d
    /\ ~Faults

\* The row and the hash of the session that task k works on.
AtStage(k, row, l) ==
    /\ k.pc # "idle"
    /\ k.pc # "start_commit" => row.txn = k.txn
    /\ k.pc \in {"start_commit", "start_live"} => l = "absent"
    /\ k.pc \in {"start_live", "start_event", "start_link"} \cup MeterSteps
          => row.status = "active"
    /\ k.pc \in {"start_event", "start_link", "stop_pub", "stop_live"} \cup MeterSteps
          => l = "full"
    /\ k.pc \in StopSteps => row.status = "completed"
    /\ k.pc \in StopSteps \ {"stop_pub", "stop_live"} => l = "absent"
    /\ k.pc \in {"stop_pub", "stop_live", "cdr_read"} => k.energy = row.energy

\* The row, the hash and the bills of a session no handler works on.
AtRest(row, l, b) ==
    /\ l = IF row.status = "active" THEN "full" ELSE "absent"
    /\ row.status = "completed" => b # <<>>

Serves(k, row, x) == k.pc # "start_commit" => row.cp = x

StageInv ==
    /\ \A c \in Conn : task[c].pc = "idle" => task[c].sid = None
    /\ \A c \in Conn : task[c].sid \in Sid =>
          /\ AtStage(task[c], rows[task[c].sid], live[task[c].sid])
          /\ Serves(task[c], rows[task[c].sid], ChargerOf[c])
    /\ \A s \in Sid : Quiet(s) => AtRest(rows[s], live[s], cdrs[s])

\* A charger's transaction ids differ: the next is above those it has.
TxnsOf(R) ==
    /\ \A s \in Sid : R[s].status = "none" => R[s] = NoRow
    /\ \A s \in Sid : R[s].status # "none" => R[s].txn > 0
    /\ \A s, r \in Sid :
          R[s].status # "none" /\ R[s].cp = R[r].cp /\ R[s].txn = R[r].txn => s = r

Above(k, R, x) ==
    k.pc = "start_commit" =>
        k.txn > 0 /\ \A s \in Sid : R[s].cp = x => R[s].txn < k.txn

TxnInv == TxnsOf(rows) /\ \A c \in Conn : Above(task[c], rows, ChargerOf[c])

\* Only a reading of a known session has energy to report.
MeterOk(k) ==
    /\ k.pc \in MeterSteps /\ k.sid = None => k.energy = 0
    /\ k.pc = "meter_pub" => k.energy > 0

MeterInv == \A c \in Conn : MeterOk(task[c])

\* A public session stops with its session, unless another session has the
\* same transaction id.
Sole(R, s) == R[s].status # "none" /\ \A r \in Sid : R[r].txn = R[s].txn => r = s

Unpaid(R, T, s) ==
    R[s].status = "active" \/ \E c \in Conn : T[c].pc = "stop_pub" /\ T[c].sid = s

Receipt(q, R, T, s) ==
    IF Unpaid(R, T, s) THEN ~q.stopped ELSE q.stopped /\ q.kwh = R[s].energy

PubOk(q, R, T) ==
    /\ q.txn = 0 => ~q.stopped
    /\ q.txn # 0 => \E s \in Sid : R[s].txn = q.txn
    /\ \A s \in Sid : q.txn = R[s].txn /\ Sole(R, s) => Receipt(q, R, T, s)

PubInv == \A p \in Pub : PubOk(pub[p], rows, task)

CalmInv == StageInv /\ TxnInv /\ MeterInv /\ PubInv

LEMMA InitCalmInv == Init => CalmInv
<1> SUFFICES ASSUME Init PROVE CalmInv
  OBVIOUS
<1> USE DEF Init, Idle, NoRow
<1>1. StageInv
  <2>1. \A s \in Sid : AtRest(rows[s], live[s], cdrs[s])
    BY DEF AtRest
  <2>2. \A c \in Conn : task[c].sid = None /\ None \notin Sid
    BY SessionAssumption
  <2> QED BY <2>1, <2>2 DEF StageInv
<1>2. TxnInv
  BY DEF TxnInv, TxnsOf, Above
<1>3. MeterInv
  BY DEF MeterInv, MeterOk, MeterSteps
<1>4. PubInv
  BY DEF PubInv, PubOk, Sole
<1> QED BY <1>1, <1>2, <1>3, <1>4 DEF CalmInv

\* Two handlers never work on one session.
LEMMA OneHandler ==
    ASSUME Calm, IInv, StageInv, NEW c \in Conn, NEW d \in Conn, c # d,
           task[c].sid \in Sid
    PROVE  task[d].sid # task[c].sid
<1> SUFFICES ASSUME task[d].sid = task[c].sid PROVE FALSE
  OBVIOUS
<1>1. Relies(c) /\ Relies(d) /\ Apart(c, d)
  BY DEF IInv, HandlerInv
<1>2. /\ AtStage(task[c], rows[task[c].sid], live[task[c].sid])
      /\ Serves(task[c], rows[task[c].sid], ChargerOf[c])
      /\ AtStage(task[d], rows[task[c].sid], live[task[c].sid])
      /\ Serves(task[d], rows[task[c].sid], ChargerOf[d])
  BY DEF StageInv
<1>3. task[c] \in Task /\ task[d] \in Task
  BY DEF IInv, TypeOK
<1>4. ASSUME NEW k \in Task, k.pc # "start_commit",
             NEW r, NEW l, AtStage(k, r, l)
      PROVE  r.status # "none"
  BY <1>4 DEF AtStage, Task, StartSteps, StopSteps, MeterSteps
<1>5. CASE task[c].pc = "start_commit"
  BY <1>1, <1>2, <1>3, <1>4, <1>5 DEF Relies, Apart
<1>6. CASE task[d].pc = "start_commit"
  BY <1>1, <1>2, <1>3, <1>4, <1>6 DEF Relies, Apart
<1>7. CASE task[c].pc # "start_commit" /\ task[d].pc # "start_commit"
  BY <1>2, <1>7 DEF Serves, Calm
<1> QED BY <1>5, <1>6, <1>7

\* Connection c takes a step that concerns session s, or none (None).
Concerns(c, s) ==
    /\ s \in Sid \cup {None}
    /\ \A d \in Conn \ {c} : task'[d] = task[d] /\ task[d].sid # s
    /\ \A r \in Sid \ {s} : /\ rows'[r] = rows[r]
                            /\ live'[r] = live[r]
                            /\ cdrs'[r] = cdrs[r]
    /\ task[c].sid \in {s, None} /\ task'[c].sid \in {s, None}
    /\ task'[c].pc = "idle" => task'[c].sid = None

LEMMA StageElsewhere ==
    ASSUME StageInv, NEW c \in Conn, task[c].sid = None, task'[c].sid = None,
           \A d \in Conn \ {c} : task'[d] = task[d],
           UNCHANGED <<rows, live, cdrs>>
    PROVE  StageInv'
<1>1. None \notin Sid
  BY SessionAssumption
<1> QED BY <1>1 DEF StageInv, Quiet

LEMMA StageOf ==
    ASSUME StageInv, NEW c \in Conn, NEW s \in Sid, Concerns(c, s),
           task'[c].sid = s =>
               /\ AtStage(task'[c], rows'[s], live'[s])
               /\ Serves(task'[c], rows'[s], ChargerOf[c]),
           task'[c].sid = None => AtRest(rows'[s], live'[s], cdrs'[s])
    PROVE  StageInv'
<1>0. None \notin Sid
  BY SessionAssumption
<1>1. ASSUME NEW d \in Conn, task'[d].pc = "idle" PROVE task'[d].sid = None
  BY <1>1 DEF StageInv, Concerns
<1>2. ASSUME NEW d \in Conn, task'[d].sid \in Sid
      PROVE  /\ AtStage(task'[d], rows'[task'[d].sid], live'[task'[d].sid])
             /\ Serves(task'[d], rows'[task'[d].sid], ChargerOf[d])
  <2>1. CASE d = c
    BY <1>0, <1>2, <2>1 DEF Concerns
  <2>2. CASE d # c
    <3>1. PICK r \in Sid : r = task[d].sid /\ r # s
      BY <1>2, <2>2 DEF Concerns
    <3>2. /\ AtStage(task[d], rows[r], live[r])
          /\ Serves(task[d], rows[r], ChargerOf[d])
      BY <3>1 DEF StageInv
    <3>3. task'[d] = task[d] /\ rows'[r] = rows[r] /\ live'[r] = live[r]
      BY <2>2, <3>1 DEF Concerns
    <3> QED BY <3>1, <3>2, <3>3
  <2> QED BY <2>1, <2>2
<1>3. ASSUME NEW r \in Sid, \A d \in Conn : task'[d].sid # r
      PROVE  AtRest(rows'[r], live'[r], cdrs'[r])
  <2>1. CASE r = s
    BY <1>3, <2>1 DEF Concerns
  <2>2. CASE r # s
    <3>1. ASSUME NEW d \in Conn PROVE task[d].sid # r
      BY <1>0, <1>3, <2>2 DEF Concerns
    <3>2. AtRest(rows[r], live[r], cdrs[r])
      BY <3>1 DEF StageInv, Quiet
    <3> QED BY <2>2, <3>2 DEF Concerns
  <2> QED BY <2>1, <2>2
<1> QED BY <1>1, <1>2, <1>3 DEF StageInv, Quiet

LEMMA DoneAll ==
    ASSUME task \in [Conn -> Task], NEW c \in Conn, Done(c)
    PROVE  /\ task'[c] = Idle
           /\ \A d \in Conn \ {c} : task'[d] = task[d]
BY DEF Done

\* A running handler of a session goes on (to step x) or ends: what it writes
\* of rows, hashes and bills is of that session.
OnlyOf(s) == \A r \in Sid \ {s} : /\ rows'[r] = rows[r]
                                  /\ live'[r] = live[r]
                                  /\ cdrs'[r] = cdrs[r]

LEMMA StageGoes ==
    ASSUME Calm, IInv, StageInv, NEW c \in Conn,
           NEW s \in Sid, s = task[c].sid, OnlyOf(s), NEW x, x # "idle",
           task'[c].pc = x, task'[c].sid = s,
           \A d \in Conn \ {c} : task'[d] = task[d],
           AtStage(task'[c], rows'[s], live'[s]),
           Serves(task'[c], rows'[s], ChargerOf[c])
    PROVE  StageInv'
<1>1. \A d \in Conn \ {c} : task[d].sid # s
  BY OneHandler
<1>2. Concerns(c, s) /\ None # s
  BY <1>1, SessionAssumption DEF Concerns, OnlyOf
<1> QED BY <1>2, StageOf

LEMMA StageEnds ==
    ASSUME Calm, IInv, StageInv, NEW c \in Conn,
           NEW s \in Sid, s = task[c].sid, OnlyOf(s), Done(c),
           AtRest(rows'[s], live'[s], cdrs'[s])
    PROVE  StageInv'
<1>0. task'[c].pc = "idle" /\ task'[c].sid = None
  BY DoneAll DEF IInv, TypeOK, Idle
<1>1. \A d \in Conn \ {c} : task[d].sid # s /\ task'[d] = task[d]
  BY OneHandler, DoneAll DEF IInv, TypeOK
<1>2. Concerns(c, s) /\ None # s
  BY <1>0, <1>1, SessionAssumption DEF Concerns, OnlyOf
<1> QED BY <1>0, <1>2, StageOf

\* The handler goes to a step that finds what the one before found.
LEMMA StageStays ==
    ASSUME Calm, IInv, StageInv, NEW c \in Conn, NEW s \in Sid, s = task[c].sid,
           NEW x, x # "idle", x # "start_commit", Goto(c, x),
           UNCHANGED <<rows, live, cdrs>>,
           AtStage([task[c] EXCEPT !.pc = x], rows[s], live[s]),
           task[c].pc # "start_commit"
    PROVE  StageInv'
<1>1. /\ task'[c].pc = x /\ task'[c].sid = s
      /\ task'[c] = [task[c] EXCEPT !.pc = x]
      /\ \A d \in Conn \ {c} : task'[d] = task[d]
  BY GotoTask DEF IInv, TypeOK, Goto
<1>2. Serves(task'[c], rows'[s], ChargerOf[c])
  BY DEF StageInv, Serves
<1>3. AtStage(task'[c], rows'[s], live'[s])
  BY <1>1
<1>4. OnlyOf(s)
  BY DEF OnlyOf
<1> QED BY <1>1, <1>2, <1>3, <1>4, StageGoes

LEMMA StageStep ==
    ASSUME Calm, IInv, StageInv, NEW c \in Conn, Step(c)
    PROVE  StageInv'
<1>a. /\ task \in [Conn -> Task] /\ task[c] \in Task
      /\ rows \in [Sid -> Row]
      /\ live \in [Sid -> {"absent", "full", "meter_only"}]
      /\ cdrs \in [Sid -> Seq(Nat)]
  BY DEF IInv, TypeOK
<1>b. Relies(c)
  BY DEF IInv, HandlerInv
<1>c. ASSUME NEW s \in Sid, s = task[c].sid
      PROVE  AtStage(task[c], rows[s], live[s]) /\ Serves(task[c], rows[s], ChargerOf[c])
  BY <1>c DEF StageInv
<1>d. ASSUME task[c].pc \in StartSteps \cup StopSteps \cup {"meter_live", "meter_row"}
      PROVE  task[c].sid \in Sid
  BY <1>b, <1>d DEF Relies
<1> USE DEF At
<1>1. CASE StartCommit(c)
  <2>1. PICK s \in Sid : s = task[c].sid
    BY <1>1, <1>d DEF StartCommit, StartSteps
  <2>2. /\ task'[c].pc = "start_live" /\ task'[c].sid = s
        /\ task'[c].txn = task[c].txn
        /\ \A d \in Conn \ {c} : task'[d] = task[d]
    BY <1>1, <1>a, <2>1, GotoWhole DEF StartCommit
  <2>3. /\ rows'[s].status = "active" /\ rows'[s].cp = ChargerOf[c]
        /\ rows'[s].txn = task[c].txn
        /\ OnlyOf(s) /\ live'[s] = live[s]
    BY <1>1, <1>a, <2>1 DEF StartCommit, OnlyOf
  <2>4. live[s] = "absent"
    BY <1>1, <1>c, <2>1 DEF StartCommit, AtStage
  <2>5. AtStage(task'[c], rows'[s], live'[s])
    BY <2>2, <2>3, <2>4 DEF AtStage, StopSteps, MeterSteps
  <2>6. Serves(task'[c], rows'[s], ChargerOf[c])
    BY <2>3 DEF Serves
  <2> QED BY <2>1, <2>2, <2>3, <2>5, <2>6, StageGoes
<1>2. CASE StartLive(c)
  <2>1. PICK s \in Sid : s = task[c].sid
    BY <1>2, <1>d DEF StartLive, StartSteps
  <2>2. /\ task'[c].pc = "start_event" /\ task'[c].sid = s
        /\ task'[c].txn = task[c].txn
        /\ \A d \in Conn \ {c} : task'[d] = task[d]
    BY <1>2, <1>a, <2>1, GotoWhole DEF StartLive
  <2>3. OnlyOf(s) /\ live'[s] = "full" /\ rows' = rows
    BY <1>2, <1>a, <2>1 DEF StartLive, OnlyOf
  <2>4. rows[s].status = "active" /\ rows[s].txn = task[c].txn
    BY <1>2, <1>c, <2>1 DEF StartLive, AtStage
  <2>5. AtStage(task'[c], rows'[s], live'[s])
    BY <2>2, <2>3, <2>4 DEF AtStage, StopSteps, MeterSteps
  <2>6. Serves(task'[c], rows'[s], ChargerOf[c])
    BY <1>2, <1>c, <2>1, <2>3 DEF StartLive, Serves
  <2> QED BY <2>1, <2>2, <2>3, <2>5, <2>6, StageGoes
<1>3. CASE StartEvent(c)
  <2>1. PICK s \in Sid : s = task[c].sid
    BY <1>3, <1>d DEF StartEvent, StartSteps
  <2>2. /\ rows[s].status = "active" /\ live[s] = "full"
        /\ rows[s].txn = task[c].txn /\ task[c].pc = "start_event"
    BY <1>3, <1>c, <2>1 DEF StartEvent, AtStage
  <2>3. UNCHANGED <<rows, live, cdrs>>
    BY <1>3 DEF StartEvent
  <2>4. CASE Done(c)
    <3>1. AtRest(rows'[s], live'[s], cdrs'[s])
      BY <2>2, <2>3 DEF AtRest
    <3> QED BY <2>1, <2>3, <2>4, <3>1, StageEnds DEF OnlyOf
  <2>5. CASE Goto(c, "start_link")
    <3>1. AtStage([task[c] EXCEPT !.pc = "start_link"], rows[s], live[s])
      BY <1>a, <2>2 DEF AtStage, StopSteps, MeterSteps, Task
    <3> QED BY <2>1, <2>2, <2>3, <2>5, <3>1, StageStays
  <2> QED BY <1>3, <2>4, <2>5 DEF StartEvent
<1>4. CASE StartLink(c)
  <2>1. PICK s \in Sid : s = task[c].sid
    BY <1>4, <1>d DEF StartLink, StartSteps
  <2>2. rows[s].status = "active" /\ live[s] = "full"
    BY <1>4, <1>c, <2>1 DEF StartLink, AtStage
  <2>3. UNCHANGED <<rows, live, cdrs>> /\ Done(c)
    BY <1>4 DEF StartLink
  <2>4. AtRest(rows'[s], live'[s], cdrs'[s])
    BY <2>2, <2>3 DEF AtRest
  <2> QED BY <2>1, <2>3, <2>4, StageEnds DEF OnlyOf
<1>5. CASE StopPub(c)
  <2>1. PICK s \in Sid : s = task[c].sid
    BY <1>5, <1>d DEF StopPub, StopSteps
  <2>2. task[c].pc = "stop_pub" /\ AtStage(task[c], rows[s], live[s])
    BY <1>5, <1>c, <2>1 DEF StopPub
  <2>3. UNCHANGED <<rows, live, cdrs>> /\ Goto(c, "stop_live")
    BY <1>5 DEF StopPub
  <2>4. AtStage([task[c] EXCEPT !.pc = "stop_live"], rows[s], live[s])
    BY <1>a, <2>2 DEF AtStage, StopSteps, MeterSteps, Task
  <2> QED BY <2>1, <2>2, <2>3, <2>4, StageStays
<1>6. CASE StopLive(c)
  <2>1. PICK s \in Sid : s = task[c].sid
    BY <1>6, <1>d DEF StopLive, StopSteps
  <2>2. /\ task'[c].pc = "cdr_read" /\ task'[c].sid = s
        /\ task'[c].txn = task[c].txn /\ task'[c].energy = task[c].energy
        /\ \A d \in Conn \ {c} : task'[d] = task[d]
    BY <1>6, <1>a, <2>1, GotoWhole DEF StopLive
  <2>3. OnlyOf(s) /\ live'[s] = "absent" /\ rows' = rows
    BY <1>6, <1>a, <2>1 DEF StopLive, OnlyOf
  <2>4. /\ rows[s].status = "completed" /\ rows[s].txn = task[c].txn
        /\ task[c].energy = rows[s].energy
    BY <1>6, <1>c, <2>1 DEF StopLive, AtStage, StopSteps
  <2>5. AtStage(task'[c], rows'[s], live'[s])
    BY <2>2, <2>3, <2>4 DEF AtStage, StopSteps, MeterSteps
  <2>6. Serves(task'[c], rows'[s], ChargerOf[c])
    BY <1>6, <1>c, <2>1, <2>3 DEF StopLive, Serves
  <2> QED BY <2>1, <2>2, <2>3, <2>5, <2>6, StageGoes
<1>7. CASE CdrRead(c)
  <2>1. PICK s \in Sid : s = task[c].sid
    BY <1>7, <1>d DEF CdrRead, StopSteps
  <2>2. /\ task'[c].pc = "cdr_insert" /\ task'[c].sid = s
        /\ task'[c].txn = task[c].txn
        /\ \A d \in Conn \ {c} : task'[d] = task[d]
    BY <1>7, <1>a, <2>1 DEF CdrRead, Task
  <2>3. OnlyOf(s) /\ live' = live /\ rows' = rows
    BY <1>7 DEF CdrRead, OnlyOf
  <2>4. /\ rows[s].status = "completed" /\ rows[s].txn = task[c].txn
        /\ live[s] = "absent"
    BY <1>7, <1>c, <2>1 DEF CdrRead, AtStage, StopSteps
  <2>5. AtStage(task'[c], rows'[s], live'[s])
    BY <2>2, <2>3, <2>4 DEF AtStage, StopSteps, MeterSteps
  <2>6. Serves(task'[c], rows'[s], ChargerOf[c])
    BY <1>7, <1>c, <2>1, <2>3 DEF CdrRead, Serves
  <2> QED BY <2>1, <2>2, <2>3, <2>5, <2>6, StageGoes
<1>8. CASE CdrInsert(c)
  <2>1. PICK s \in Sid : s = task[c].sid
    BY <1>8, <1>d DEF CdrInsert, StopSteps
  <2>2. /\ task'[c].pc = "cdr_event" /\ task'[c].sid = s
        /\ task'[c].txn = task[c].txn
        /\ \A d \in Conn \ {c} : task'[d] = task[d]
    BY <1>8, <1>a, <2>1, GotoWhole DEF CdrInsert
  <2>3. OnlyOf(s) /\ live' = live /\ rows' = rows
    BY <1>8, <1>a, <2>1 DEF CdrInsert, OnlyOf
  <2>4. /\ rows[s].status = "completed" /\ rows[s].txn = task[c].txn
        /\ live[s] = "absent"
    BY <1>8, <1>c, <2>1 DEF CdrInsert, AtStage, StopSteps
  <2>5. AtStage(task'[c], rows'[s], live'[s])
    BY <2>2, <2>3, <2>4 DEF AtStage, StopSteps, MeterSteps
  <2>6. Serves(task'[c], rows'[s], ChargerOf[c])
    BY <1>8, <1>c, <2>1, <2>3 DEF CdrInsert, Serves
  <2> QED BY <2>1, <2>2, <2>3, <2>5, <2>6, StageGoes
<1>9. CASE CdrEvent(c)
  <2>1. PICK s \in Sid : s = task[c].sid
    BY <1>9, <1>d DEF CdrEvent, StopSteps
  <2>2. task[c].pc = "cdr_event" /\ AtStage(task[c], rows[s], live[s])
    BY <1>9, <1>c, <2>1 DEF CdrEvent
  <2>3. UNCHANGED <<rows, live, cdrs>> /\ Goto(c, "stop_event")
    BY <1>9 DEF CdrEvent
  <2>4. AtStage([task[c] EXCEPT !.pc = "stop_event"], rows[s], live[s])
    BY <1>a, <2>2 DEF AtStage, StopSteps, MeterSteps, Task
  <2> QED BY <2>1, <2>2, <2>3, <2>4, StageStays
<1>10. CASE StopEvent(c)
  <2>1. PICK s \in Sid : s = task[c].sid
    BY <1>10, <1>d DEF StopEvent, StopSteps
  <2>2. rows[s].status = "completed" /\ live[s] = "absent"
    BY <1>10, <1>c, <2>1 DEF StopEvent, AtStage, StopSteps
  <2>3. cdrs[s] # <<>>
    <3>1. cdrs[s] = <<task[c].energy>>
      BY <1>10, <1>b, <2>1 DEF StopEvent, Relies
    <3>2. <<>> # <<task[c].energy>>
      OBVIOUS
    <3> QED BY <3>1, <3>2
  <2>4. UNCHANGED <<rows, live, cdrs>> /\ Done(c)
    BY <1>10 DEF StopEvent
  <2>5. AtRest(rows'[s], live'[s], cdrs'[s])
    BY <2>2, <2>3, <2>4 DEF AtRest
  <2> QED BY <2>1, <2>4, <2>5, StageEnds DEF OnlyOf
<1>11. ASSUME NEW x \in MeterSteps, Goto(c, x), task[c].pc \in MeterSteps,
              UNCHANGED <<rows, live, cdrs>>
       PROVE  StageInv'
  <2>0. task[c].sid \in Sid \cup {None}
    BY <1>a DEF Task
  <2>1. CASE task[c].sid = None
    BY <1>11, <1>a, <2>1, GotoTask, StageElsewhere
  <2>2. ASSUME NEW s \in Sid, s = task[c].sid PROVE StageInv'
    <3>1. AtStage(task[c], rows[s], live[s])
      BY <1>c, <2>2
    <3>2. AtStage([task[c] EXCEPT !.pc = x], rows[s], live[s])
      BY <1>11, <1>a, <3>1 DEF AtStage, StopSteps, MeterSteps, Task
    <3> QED BY <1>11, <2>2, <3>2, StageStays DEF MeterSteps
  <2> QED BY <2>0, <2>1, <2>2
<1>12. CASE MeterAudit(c) \/ MeterPub(c)
  BY <1>11, <1>12 DEF MeterAudit, MeterPub, AfterRow, MeterSteps
<1>13. CASE MeterLive(c)
  <2>1. PICK s \in Sid : s = task[c].sid
    BY <1>13, <1>d DEF MeterLive
  <2>2. live[s] = "full"
    BY <1>13, <1>c, <2>1 DEF MeterLive, AtStage, MeterSteps
  <2>3. live' = live
    BY <1>13, <1>a, <2>1, <2>2 DEF MeterLive
  <2> QED BY <1>11, <1>13, <2>3 DEF MeterLive, MeterSteps
<1>14. CASE MeterRow(c)
  <2>1. PICK s \in Sid : s = task[c].sid
    BY <1>14, <1>d DEF MeterRow
  <2>2. PICK x \in {"meter_pub", "meter_event"} : Goto(c, x)
    BY <1>14 DEF MeterRow, AfterRow
  <2>3. /\ task'[c].pc = x /\ task'[c].sid = s /\ task'[c].txn = task[c].txn
        /\ \A d \in Conn \ {c} : task'[d] = task[d]
    BY <1>a, <2>1, <2>2, GotoWhole
  <2>4. /\ OnlyOf(s) /\ live' = live
        /\ rows'[s].status = rows[s].status
        /\ rows'[s].txn = rows[s].txn /\ rows'[s].cp = rows[s].cp
    <3>1. CASE UNCHANGED rows
      BY <1>14, <3>1 DEF MeterRow, OnlyOf
    <3>2. CASE rows' = [rows EXCEPT ![s].energy = task[c].energy]
      BY <1>14, <1>a, <3>2 DEF MeterRow, OnlyOf, Row
    <3> QED BY <1>14, <2>1, <3>1, <3>2 DEF MeterRow
  <2>5. /\ rows[s].status = "active" /\ live[s] = "full"
        /\ rows[s].txn = task[c].txn /\ rows[s].cp = ChargerOf[c]
    BY <1>14, <1>c, <2>1 DEF MeterRow, AtStage, MeterSteps, Serves
  <2>6. AtStage(task'[c], rows'[s], live'[s])
    BY <2>3, <2>4, <2>5 DEF AtStage, StopSteps, MeterSteps
  <2>7. Serves(task'[c], rows'[s], ChargerOf[c])
    BY <2>4, <2>5 DEF Serves
  <2> QED BY <2>1, <2>3, <2>4, <2>6, <2>7, StageGoes
<1>15. CASE MeterEvent(c)
  <2>0. task[c].sid \in Sid \cup {None}
    BY <1>a DEF Task
  <2>1. UNCHANGED <<rows, live, cdrs>> /\ Done(c) /\ task[c].pc = "meter_event"
    BY <1>15 DEF MeterEvent
  <2>2. CASE task[c].sid = None
    BY <1>a, <2>1, <2>2, DoneAll, StageElsewhere DEF Idle
  <2>3. ASSUME NEW s \in Sid, s = task[c].sid PROVE StageInv'
    <3>1. rows[s].status = "active" /\ live[s] = "full"
      BY <1>c, <2>1, <2>3 DEF AtStage, MeterSteps
    <3>2. AtRest(rows'[s], live'[s], cdrs'[s])
      BY <2>1, <3>1 DEF AtRest
    <3> QED BY <2>1, <2>3, <3>2, StageEnds DEF OnlyOf
  <2> QED BY <2>0, <2>2, <2>3
<1> QED BY <1>1, <1>2, <1>3, <1>4, <1>5, <1>6, <1>7, <1>8, <1>9, <1>10, <1>12,
           <1>13, <1>14, <1>15 DEF Step

LEMMA StageMessage ==
    ASSUME Calm, IInv, StageInv, TxnInv, NEW c \in Conn, Message(c)
    PROVE  StageInv'
<1>a. /\ task \in [Conn -> Task] /\ rows \in [Sid -> Row]
      /\ None \notin Sid
  BY SessionAssumption DEF IInv, TypeOK
<1>b. ASSUME task[c].pc = "idle" PROVE task[c].sid = None
  BY <1>b DEF StageInv
<1>c. ASSUME NEW s \in Sid, rows[s].cp = ChargerOf[c], rows[s].status = "active",
             task[c].pc = "idle"
      PROVE  Quiet(s)
  <2>1. ASSUME NEW d \in Conn, task[d].sid = s PROVE FALSE
    <3>1. d # c
      BY <1>a, <1>b, <1>c, <2>1
    <3>2. Serves(task[d], rows[s], ChargerOf[d])
      BY <2>1 DEF StageInv
    <3>3. task[d].pc = "start_commit"
      BY <1>c, <3>1, <3>2 DEF Serves, Calm
    <3> QED BY <1>c, <2>1, <3>3 DEF IInv, HandlerInv, Relies
  <2> QED BY <2>1 DEF Quiet
<1>1. ASSUME NEW reg, NEW tag, StartTransaction(c, reg, tag) PROVE StageInv'
  <2>1. PICK s \in Sid, m \in MaxTxns :
          /\ Fresh(s)
          /\ task' = [task EXCEPT ![c] = [pc |-> "start_commit", sid |-> s,
                        txn |-> m + 1, reg |-> reg, energy |-> 0, tag |-> tag]]
    BY <1>1 DEF StartTransaction
  <2>2. /\ task'[c].pc = "start_commit" /\ task'[c].sid = s
        /\ \A d \in Conn \ {c} : task'[d] = task[d]
    BY <1>a, <2>1
  <2>3. Quiet(s) /\ rows[s].status = "none" /\ task[c].pc = "idle"
    BY <1>1, <2>1 DEF Fresh, Quiet, StartTransaction, Receive
  <2>4. live[s] = "absent" /\ UNCHANGED <<rows, live, cdrs>>
    BY <1>1, <2>3 DEF StageInv, AtRest, StartTransaction
  <2>5. AtStage(task'[c], rows'[s], live'[s]) /\ Serves(task'[c], rows'[s], ChargerOf[c])
    BY <2>2, <2>4 DEF AtStage, Serves, StopSteps, MeterSteps
  <2>6. Concerns(c, s)
    BY <1>b, <2>2, <2>3, <2>4 DEF Concerns, Quiet
  <2> QED BY <1>a, <2>2, <2>5, <2>6, StageOf
<1>2. ASSUME NEW reg, NEW t, MeterValues(c, t, reg) PROVE StageInv'
  <2>1. task[c].pc = "idle" /\ UNCHANGED <<rows, live, cdrs>>
    BY <1>2 DEF MeterValues, Receive
  <2>2. PICK s, e :
          /\ task' = [task EXCEPT ![c] = [pc |-> "meter_audit", sid |-> s,
                        txn |-> t, reg |-> reg, energy |-> e, tag |-> None]]
          /\ s = None \/ s \in ActiveRows(c, t)
    BY <1>2 DEF MeterValues
  <2>3. /\ task'[c].pc = "meter_audit" /\ task'[c].sid = s /\ task'[c].txn = t
        /\ \A d \in Conn \ {c} : task'[d] = task[d]
    BY <1>a, <2>2
  <2>4. CASE s = None
    BY <1>b, <2>1, <2>3, <2>4, StageElsewhere
  <2>5. ASSUME NEW r \in Sid, r = s, r \in ActiveRows(c, t) PROVE StageInv'
    <3>1. /\ rows[r].status = "active" /\ rows[r].cp = ChargerOf[c]
          /\ rows[r].txn = t
      BY <2>5 DEF ActiveRows
    <3>2. Quiet(r)
      BY <1>c, <2>1, <3>1
    <3>3. live[r] = "full"
      BY <3>1, <3>2 DEF StageInv, AtRest
    <3>4. AtStage(task'[c], rows'[r], live'[r])
      BY <2>1, <2>3, <3>1, <3>3 DEF AtStage, StopSteps, MeterSteps
    <3>5. Serves(task'[c], rows'[r], ChargerOf[c])
      BY <2>1, <3>1 DEF Serves
    <3>6. Concerns(c, r)
      BY <1>b, <2>1, <2>3, <2>5, <3>2 DEF Concerns, Quiet
    <3> QED BY <1>a, <2>3, <2>5, <3>4, <3>5, <3>6, StageOf
  <2> QED BY <2>2, <2>4, <2>5 DEF ActiveRows
<1>3. ASSUME NEW reg, NEW t, StopTransaction(c, t, reg) PROVE StageInv'
  <2>1. task[c].pc = "idle" /\ UNCHANGED <<live, cdrs>>
    BY <1>3 DEF StopTransaction, Receive
  <2>2. CASE UNCHANGED <<rows, task>>
    BY <2>1, <2>2 DEF StageInv, Quiet
  <2>3. ASSUME NEW r \in ActiveRows(c, t), NEW e,
               Complete(ActiveRows(c, t), reg, e),
               task' = [task EXCEPT ![c] = [pc |-> "stop_pub", sid |-> r,
                                            txn |-> t, reg |-> 0, energy |-> e,
                                            tag |-> None]]
        PROVE  StageInv'
    <3>0. r \in Sid
      BY DEF ActiveRows
    <3>1. /\ rows[r].status = "active" /\ rows[r].cp = ChargerOf[c]
          /\ rows[r].txn = t
      BY DEF ActiveRows
    <3>2. \A s \in Sid \ {r} : s \notin ActiveRows(c, t)
      BY <3>0, <3>1 DEF ActiveRows, TxnInv, TxnsOf
    <3>3. /\ task'[c].pc = "stop_pub" /\ task'[c].sid = r /\ task'[c].txn = t
          /\ task'[c].energy = e
          /\ \A d \in Conn \ {c} : task'[d] = task[d]
      BY <1>a, <2>3
    <3>4. /\ rows'[r].status = "completed" /\ rows'[r].cp = ChargerOf[c]
          /\ rows'[r].txn = t /\ rows'[r].energy = e
          /\ \A s \in Sid \ {r} : rows'[s] = rows[s]
      BY <2>3, <3>0, <3>1, <3>2 DEF Complete
    <3>5. Quiet(r)
      BY <1>c, <2>1, <3>0, <3>1
    <3>6. live[r] = "full"
      BY <3>0, <3>1, <3>5 DEF StageInv, AtRest
    <3>7. AtStage(task'[c], rows'[r], live'[r])
      BY <2>1, <3>3, <3>4, <3>6 DEF AtStage, StopSteps, MeterSteps
    <3>8. Serves(task'[c], rows'[r], ChargerOf[c])
      BY <3>4 DEF Serves
    <3>9. Concerns(c, r)
      BY <1>b, <2>1, <3>0, <3>3, <3>4, <3>5 DEF Concerns, Quiet
    <3> QED BY <1>a, <3>0, <3>3, <3>7, <3>8, <3>9, StageOf
  <2> QED BY <1>3, <2>2, <2>3 DEF StopTransaction
<1> QED BY <1>1, <1>2, <1>3 DEF Message

\* The rows keep their chargers and transaction ids.
SameTxns(R, Q) ==
    \A s \in Sid : /\ Q[s].status = "none" <=> R[s].status = "none"
                   /\ Q[s].status = "none" => Q[s] = R[s]
                   /\ Q[s].cp = R[s].cp /\ Q[s].txn = R[s].txn

LEMMA SameTxnsKeep ==
    ASSUME NEW R, NEW Q, SameTxns(R, Q), TxnsOf(R)
    PROVE  TxnsOf(Q)
<1>1. \A s \in Sid : Q[s].status = "none" => Q[s] = NoRow
  BY DEF TxnsOf, SameTxns
<1>2. \A s \in Sid : Q[s].status # "none" => Q[s].txn > 0
  BY DEF TxnsOf, SameTxns
<1>3. ASSUME NEW s \in Sid, NEW r \in Sid, Q[s].status # "none",
             Q[s].cp = Q[r].cp, Q[s].txn = Q[r].txn
      PROVE  s = r
  BY <1>3 DEF TxnsOf, SameTxns
<1> QED BY <1>1, <1>2, <1>3 DEF TxnsOf

LEMMA SameTxnsAbove ==
    ASSUME NEW R, NEW Q, SameTxns(R, Q), NEW k, NEW x, Above(k, R, x)
    PROVE  Above(k, Q, x)
BY DEF Above, SameTxns

\* Only the commit of a new session gives a row a transaction id.
LEMMA TxnsStay ==
    ASSUME IInv, [Next]_vars
    PROVE  SameTxns(rows, rows') \/ \E c \in Conn : StartCommit(c)
<1> DEFINE Same == SameTxns(rows, rows')
<1>1. ASSUME rows' = rows PROVE Same
  BY <1>1 DEF SameTxns
<1>2. ASSUME NEW c \in Conn, MeterRow(c) PROVE Same
  <2>1. ASSUME rows[task[c].sid].status = "active",
               rows' = [rows EXCEPT ![task[c].sid].energy = task[c].energy]
        PROVE  Same
    BY <2>1 DEF SameTxns, IInv, TypeOK, Row
  <2>2. \/ rows' = rows
        \/ /\ rows[task[c].sid].status = "active"
           /\ rows' = [rows EXCEPT ![task[c].sid].energy = task[c].energy]
    BY <1>2 DEF MeterRow
  <2> HIDE DEF Same
  <2> QED BY <1>1, <2>1, <2>2
<1>3. ASSUME NEW c \in Conn, NEW t, NEW reg, StopTransaction(c, t, reg)
      PROVE  Same
  <2>1. ASSUME NEW e, Complete(ActiveRows(c, t), reg, e) PROVE Same
    BY <2>1 DEF Complete, ActiveRows, SameTxns
  <2>2. rows' = rows \/ \E e : Complete(ActiveRows(c, t), reg, e)
    BY <1>3 DEF StopTransaction
  <2> HIDE DEF Same
  <2> QED BY <1>1, <2>1, <2>2
<1>4. ASSUME NEW c \in Conn, Step(c)
      PROVE  UNCHANGED rows \/ StartCommit(c) \/ MeterRow(c)
  BY <1>4
     DEF Step, StartLive, StartEvent, StartLink, StopPub, StopLive, CdrRead,
         CdrInsert, CdrEvent, StopEvent, MeterAudit, MeterLive, MeterPub,
         MeterEvent
<1>5. ASSUME NEW c \in Conn, Message(c)
      PROVE  UNCHANGED rows \/ \E t, reg : StopTransaction(c, t, reg)
  BY <1>5 DEF Message, StartTransaction, MeterValues
<1> HIDE DEF Same
<1>6. Same \/ \E c \in Conn : StartCommit(c)
  BY <1>1, <1>2, <1>3, <1>4, <1>5 DEF Next, Abort, vars
<1> QED BY <1>6 DEF Same

\* A handler does not go back to opening a session.
LEMMA StepOpensNone ==
    ASSUME IInv, NEW c \in Conn, Step(c)
    PROVE  /\ task'[c].pc # "start_commit"
           /\ \A d \in Conn \ {c} : task'[d] = task[d]
<1>a. task \in [Conn -> Task]
  BY DEF IInv, TypeOK
<1>1. CASE Done(c)
  BY <1>1, <1>a, DoneTask
<1>2. ASSUME NEW x, x # "start_commit", Goto(c, x)
      PROVE  /\ task'[c].pc # "start_commit"
             /\ \A d \in Conn \ {c} : task'[d] = task[d]
  BY <1>2, <1>a, GotoTask
<1>3. CASE CdrRead(c)
  BY <1>3, <1>a DEF CdrRead, Task
<1> QED BY <1>1, <1>2, <1>3
   DEF Step, StartCommit, StartLive, StartEvent, StartLink, StopPub, StopLive,
       CdrInsert, CdrEvent, StopEvent, MeterAudit, MeterLive, MeterRow, MeterPub,
       MeterEvent, AfterRow

LEMMA TxnStep ==
    ASSUME Calm, IInv, TxnInv, [Next]_vars
    PROVE  TxnInv'
<1>a. task \in [Conn -> Task] /\ rows \in [Sid -> Row] /\ ChargerOf \in [Conn -> Charger]
  BY SessionAssumption DEF IInv, TypeOK
<1>1. ASSUME NEW c \in Conn, StartCommit(c) PROVE TxnInv'
  <2>1. PICK s \in Sid : s = task[c].sid /\ rows[s].status = "none"
    BY <1>1 DEF IInv, HandlerInv, Relies, StartCommit, At, StartSteps
  <2>2. /\ rows'[s].status = "active" /\ rows'[s].cp = ChargerOf[c]
        /\ rows'[s].txn = task[c].txn
        /\ \A r \in Sid \ {s} : rows'[r] = rows[r]
    BY <1>1, <1>a, <2>1 DEF StartCommit
  <2>3. /\ task[c].txn > 0
        /\ \A r \in Sid : rows[r].cp = ChargerOf[c] => rows[r].txn < task[c].txn
    BY <1>1 DEF TxnInv, Above, StartCommit, At
  <2>4. task[c].txn \in Nat /\ \A r \in Sid : rows[r].txn \in Nat
    BY <1>a DEF Task, Row
  <2>5. TxnsOf(rows')
    <3>1. \A r \in Sid : rows'[r].status = "none" => rows'[r] = NoRow
      BY <2>2 DEF TxnInv, TxnsOf
    <3>2. \A r \in Sid : rows'[r].status # "none" => rows'[r].txn > 0
      BY <2>2, <2>3 DEF TxnInv, TxnsOf
    <3>3. ASSUME NEW p \in Sid, NEW r \in Sid, rows'[p].status # "none",
                 rows'[p].cp = rows'[r].cp, rows'[p].txn = rows'[r].txn
          PROVE  p = r
      <4>1. CASE p # s /\ r # s
        BY <2>2, <3>3, <4>1 DEF TxnInv, TxnsOf
      <4>2. CASE p = s /\ r # s
        BY <2>2, <2>3, <2>4, <3>3, <4>2
      <4>3. CASE p # s /\ r = s
        BY <2>2, <2>3, <2>4, <3>3, <4>3
      <4> QED BY <4>1, <4>2, <4>3
    <3> QED BY <3>1, <3>2, <3>3 DEF TxnsOf
  <2>6. ASSUME NEW d \in Conn PROVE Above(task'[d], rows', ChargerOf[d])
    <3>1. CASE d = c
      <4>1. task'[c].pc = "start_live"
        BY <1>1, <1>a, GotoTask DEF StartCommit
      <4> QED BY <3>1, <4>1 DEF Above
    <3>2. CASE d # c
      <4>1. task'[d] = task[d] /\ Above(task[d], rows, ChargerOf[d])
        BY <1>1, <1>a, <3>2, GotoTask DEF StartCommit, TxnInv
      <4>2. rows'[s].cp # ChargerOf[d]
        BY <2>2, <3>2 DEF Calm
      <4> QED BY <2>2, <4>1, <4>2 DEF Above
    <3> QED BY <3>1, <3>2
  <2> QED BY <2>5, <2>6 DEF TxnInv
<1>2. ASSUME SameTxns(rows, rows'),
             \A d \in Conn : \/ task'[d].pc # "start_commit"
                             \/ task'[d] = task[d]
                             \/ Above(task'[d], rows, ChargerOf[d])
      PROVE  TxnInv'
  <2>1. TxnsOf(rows')
    BY <1>2, SameTxnsKeep DEF TxnInv
  <2>2. ASSUME NEW d \in Conn PROVE Above(task'[d], rows', ChargerOf[d])
    <3>1. CASE task'[d].pc # "start_commit"
      BY <3>1 DEF Above
    <3>2. CASE task'[d] = task[d] \/ Above(task'[d], rows, ChargerOf[d])
      <4>1. Above(task'[d], rows, ChargerOf[d])
        BY <3>2 DEF TxnInv
      <4> QED BY <1>2, <4>1, SameTxnsAbove
    <3> QED BY <1>2, <3>1, <3>2
  <2> QED BY <2>1, <2>2 DEF TxnInv
<1>3. ASSUME NEW c \in Conn, NEW reg, NEW tag, StartTransaction(c, reg, tag)
      PROVE  /\ Above(task'[c], rows, ChargerOf[c])
             /\ \A d \in Conn \ {c} : task'[d] = task[d]
  <2>1. PICK s \in Sid, m \in MaxTxns :
          task' = [task EXCEPT ![c] = [pc |-> "start_commit", sid |-> s,
                     txn |-> m + 1, reg |-> reg, energy |-> 0, tag |-> tag]]
    BY <1>3 DEF StartTransaction
  <2>2. m \in Nat /\ \A r \in Sid : rows[r].txn \in Nat /\ rows[r].txn <= m
    BY <1>a DEF MaxTxns, Row
  <2>3. task'[c].txn = m + 1 /\ \A d \in Conn \ {c} : task'[d] = task[d]
    BY <1>a, <2>1
  <2>4. m + 1 > 0 /\ \A r \in Sid : rows[r].txn < m + 1
    BY <2>2
  <2> QED BY <2>3, <2>4 DEF Above
<1>4. ASSUME NEW c \in Conn, Message(c)
      PROVE  \A d \in Conn : \/ task'[d].pc # "start_commit"
                             \/ task'[d] = task[d]
                             \/ Above(task'[d], rows, ChargerOf[d])
  <2>1. ASSUME NEW reg, NEW t, StopTransaction(c, t, reg) \/ MeterValues(c, t, reg)
        PROVE  \A d \in Conn : task'[d].pc # "start_commit" \/ task'[d] = task[d]
    BY <1>a, <2>1 DEF StopTransaction, MeterValues
  <2> QED BY <1>3, <1>4, <2>1 DEF Message
<1>5. ASSUME NEW c \in Conn, Step(c)
      PROVE  \A d \in Conn : task'[d].pc # "start_commit" \/ task'[d] = task[d]
  BY <1>5, StepOpensNone
<1>6. \/ \E c \in Conn : StartCommit(c)
      \/ SameTxns(rows, rows')
  BY TxnsStay
<1>7. \A d \in Conn : \/ task'[d].pc # "start_commit"
                      \/ task'[d] = task[d]
                      \/ Above(task'[d], rows, ChargerOf[d])
  BY <1>4, <1>5 DEF Next, Abort, Calm, vars
<1> QED BY <1>1, <1>2, <1>6, <1>7

LEMMA MeterStep ==
    ASSUME Calm, IInv, MeterInv, [Next]_vars
    PROVE  MeterInv'
<1>a. task \in [Conn -> Task] /\ None \notin Sid
  BY SessionAssumption DEF IInv, TypeOK
<1>1. ASSUME NEW c \in Conn, MeterOk(task'[c]), \A d \in Conn \ {c} : task'[d] = task[d]
      PROVE  MeterInv'
  BY <1>1 DEF MeterInv
<1>2. ASSUME NEW c \in Conn, NEW reg, NEW tag, StartTransaction(c, reg, tag)
      PROVE  MeterInv'
  BY <1>a, <1>1, <1>2 DEF StartTransaction, MeterOk, MeterSteps
<1>3. ASSUME NEW c \in Conn, NEW reg, NEW t, StopTransaction(c, t, reg)
      PROVE  MeterInv'
  <2>1. CASE UNCHANGED task
    BY <2>1 DEF MeterInv
  <2> QED BY <1>a, <1>1, <1>3, <2>1 DEF StopTransaction, MeterOk, MeterSteps
<1>4. ASSUME NEW c \in Conn, NEW reg, NEW t, MeterValues(c, t, reg)
      PROVE  MeterInv'
  <2>1. PICK s, e :
          /\ task' = [task EXCEPT ![c] = [pc |-> "meter_audit", sid |-> s,
                        txn |-> t, reg |-> reg, energy |-> e, tag |-> None]]
          /\ \/ s \in Sid
             \/ s = None /\ e = SessionEnergy(reg, 0)
    BY <1>4 DEF MeterValues, ActiveRows
  <2>2. s = None => e = 0
    BY <1>a, <2>1 DEF SessionEnergy
  <2>3. task'[c].pc = "meter_audit" /\ task'[c].sid = s /\ task'[c].energy = e
    BY <1>a, <2>1
  <2>4. \A d \in Conn \ {c} : task'[d] = task[d]
    BY <1>a, <2>1
  <2> QED BY <1>1, <2>2, <2>3, <2>4 DEF MeterOk
<1>5. ASSUME NEW c \in Conn, Step(c) PROVE MeterInv'
  <2>0. MeterOk(task[c]) /\ task[c] \in Task /\ Relies(c)
    BY <1>a DEF MeterInv, IInv, HandlerInv
  <2>1. CASE Done(c)
    BY <1>a, <1>1, <2>1, DoneTask DEF MeterOk, MeterSteps
  <2>2. ASSUME NEW x, x \notin MeterSteps, Goto(c, x) PROVE MeterInv'
    BY <1>a, <1>1, <2>2, GotoTask DEF MeterOk, MeterSteps
  <2>3. CASE CdrRead(c)
    <3>1. task'[c].pc = "cdr_insert" /\ \A d \in Conn \ {c} : task'[d] = task[d]
      BY <1>a, <2>3 DEF CdrRead, Task
    <3> QED BY <1>1, <3>1 DEF MeterOk, MeterSteps
  <2>4. ASSUME task[c].pc \in MeterSteps, NEW x \in MeterSteps, Goto(c, x),
               x = "meter_pub" => task[c].energy > 0
        PROVE  MeterInv'
    BY <1>a, <1>1, <2>0, <2>4, GotoTask DEF MeterOk
  <2>5. CASE MeterAudit(c) \/ MeterLive(c) \/ MeterRow(c) \/ MeterPub(c)
    BY <2>4, <2>5 DEF MeterAudit, MeterLive, MeterRow, MeterPub, At, AfterRow, MeterSteps
  <2> QED BY <1>5, <2>1, <2>2, <2>3, <2>5
     DEF Step, StartCommit, StartLive, StartEvent, StartLink, StopPub, StopLive,
         CdrInsert, CdrEvent, StopEvent, MeterEvent, MeterSteps
<1>6. CASE UNCHANGED vars
  BY <1>6 DEF vars, MeterInv
<1> QED BY <1>2, <1>3, <1>4, <1>5, <1>6 DEF Next, Message, Abort, Calm

LEMMA SameTxnsSole ==
    ASSUME NEW R, NEW Q, SameTxns(R, Q), NEW s \in Sid
    PROVE  Sole(Q, s) <=> Sole(R, s)
BY DEF SameTxns, Sole

\* A step that writes no public session, and after which the same sessions are
\* not paid for yet.
LEMMA PubsStay ==
    ASSUME PubInv, UNCHANGED pub, SameTxns(rows, rows'),
           \A s \in Sid : /\ Unpaid(rows', task', s) <=> Unpaid(rows, task, s)
                          /\ Unpaid(rows, task, s) \/ rows'[s].energy = rows[s].energy
    PROVE  PubInv'
<1> SUFFICES ASSUME NEW p \in Pub PROVE PubOk(pub'[p], rows', task')
  BY DEF PubInv
<1> DEFINE q == pub[p]
<1>1. PubOk(q, rows, task) /\ pub'[p] = q
  BY DEF PubInv
<1>2. q.txn # 0 => \E s \in Sid : rows'[s].txn = q.txn
  BY <1>1 DEF PubOk, SameTxns
<1>3. ASSUME NEW s \in Sid, q.txn = rows'[s].txn, Sole(rows', s)
      PROVE  Receipt(q, rows', task', s)
  <2>1. q.txn = rows[s].txn /\ Sole(rows, s)
    BY <1>3, SameTxnsSole DEF SameTxns
  <2>2. Receipt(q, rows, task, s)
    BY <1>1, <2>1 DEF PubOk
  <2> QED BY <2>2 DEF Receipt
<1>4. q.txn = 0 => ~q.stopped
  BY <1>1 DEF PubOk
<1> HIDE DEF q
<1> QED BY <1>1, <1>2, <1>3, <1>4 DEF PubOk

\* Whether a session is paid for yet, after a step of connection c that does
\* not change its status.
LEMMA UnpaidStays ==
    ASSUME NEW c \in Conn, NEW s \in Sid, rows'[s].status = rows[s].status,
           \A d \in Conn \ {c} : task'[d] = task[d],
           task[c].pc = "stop_pub" => task[c].sid # s,
           task'[c].pc = "stop_pub" => task'[c].sid # s
    PROVE  Unpaid(rows', task', s) <=> Unpaid(rows, task, s)
BY DEF Unpaid

LEMMA PubStartCommit ==
    ASSUME Calm, IInv, CalmInv, NEW c \in Conn, StartCommit(c)
    PROVE  PubInv'
<1>a. /\ task \in [Conn -> Task] /\ rows \in [Sid -> Row]
      /\ \A r \in Sid : rows[r].txn \in Nat
  BY DEF IInv, TypeOK, Row
<1>1. PICK s \in Sid : s = task[c].sid /\ rows[s] = NoRow
  BY DEF IInv, HandlerInv, Relies, StartCommit, At, StartSteps, CalmInv, TxnInv, TxnsOf
<1>2. /\ rows'[s].txn = task[c].txn
      /\ \A r \in Sid \ {s} : rows'[r] = rows[r]
      /\ pub' = pub
  BY <1>a, <1>1 DEF StartCommit
<1>3. /\ task[c].pc = "start_commit" /\ task'[c].pc = "start_live"
      /\ \A d \in Conn \ {c} : task'[d] = task[d]
  BY <1>a, GotoTask DEF StartCommit, At
<1>4. rows[s].txn = 0 /\ rows[s].status = "none" /\ task[c].txn > 0
  BY <1>1, <1>3 DEF NoRow, CalmInv, TxnInv, Above
<1> SUFFICES ASSUME NEW p \in Pub PROVE PubOk(pub[p], rows', task')
  BY <1>2 DEF PubInv
<1>5. PubOk(pub[p], rows, task)
  BY DEF CalmInv, PubInv
<1>6. ASSUME pub[p].txn # 0
      PROVE  \E r \in Sid \ {s} : rows'[r].txn = pub[p].txn
  <2>1. PICK r \in Sid : rows[r].txn = pub[p].txn
    BY <1>5, <1>6 DEF PubOk
  <2>2. r # s
    BY <1>4, <1>6, <2>1
  <2> QED BY <1>2, <2>1, <2>2
<1>7. ASSUME NEW r \in Sid, pub[p].txn = rows'[r].txn, Sole(rows', r)
      PROVE  Receipt(pub[p], rows', task', r)
  <2>1. r # s
    <3>1. CASE r = s
      <4>1. pub[p].txn # 0
        BY <1>2, <1>4, <1>7, <3>1, <1>a
      <4>2. PICK x \in Sid \ {s} : rows'[x].txn = pub[p].txn
        BY <1>6, <4>1
      <4> QED BY <1>7, <3>1, <4>2 DEF Sole
    <3> QED BY <3>1
  <2>2. rows[r].status # "none" /\ rows[r].txn > 0
    BY <1>2, <1>7, <2>1 DEF Sole, CalmInv, TxnInv, TxnsOf
  <2>3. Sole(rows, r)
    <3>1. ASSUME NEW x \in Sid, rows[x].txn = rows[r].txn PROVE x = r
      <4>1. x # s
        BY <1>4, <1>a, <2>2, <3>1
      <4> QED BY <1>2, <1>7, <2>1, <3>1, <4>1 DEF Sole
    <3> QED BY <2>2, <3>1 DEF Sole
  <2>4. Receipt(pub[p], rows, task, r)
    BY <1>2, <1>5, <1>7, <2>1, <2>3 DEF PubOk
  <2>5. Unpaid(rows', task', r) <=> Unpaid(rows, task, r)
    BY <1>2, <1>3, <2>1, UnpaidStays
  <2> QED BY <1>2, <2>1, <2>4, <2>5 DEF Receipt
<1> QED BY <1>5, <1>6, <1>7 DEF PubOk

LEMMA PubStartLink ==
    ASSUME Calm, IInv, CalmInv, NEW c \in Conn, StartLink(c)
    PROVE  PubInv'
<1>a. /\ task \in [Conn -> Task] /\ pub \in [Pub -> PubRow]
  BY DEF IInv, TypeOK
<1>1. PICK s \in Sid : s = task[c].sid
  BY DEF IInv, HandlerInv, Relies, StartLink, At, StartSteps
<1>2. task[c].pc = "start_link" /\ AtStage(task[c], rows[s], live[s])
  BY <1>1 DEF StartLink, At, CalmInv, StageInv
<1>3. rows[s].status = "active" /\ rows[s].txn = task[c].txn /\ rows[s].txn > 0
  <2>1. rows[s].status = "active" /\ rows[s].txn = task[c].txn
    BY <1>2 DEF AtStage
  <2> QED BY <2>1 DEF CalmInv, TxnInv, TxnsOf
<1>4. /\ task'[c].pc = "idle" /\ \A d \in Conn \ {c} : task'[d] = task[d]
      /\ rows' = rows
  BY <1>a, DoneTask DEF StartLink
<1>5. ASSUME NEW r \in Sid
      PROVE  Unpaid(rows', task', r) <=> Unpaid(rows, task, r)
  BY <1>2, <1>4, UnpaidStays
<1> SUFFICES ASSUME NEW p \in Pub PROVE PubOk(pub'[p], rows', task')
  BY DEF PubInv
<1>6. PubOk(pub[p], rows, task) /\ pub[p] \in PubRow
  BY <1>a DEF CalmInv, PubInv
<1>7. \/ pub'[p] = pub[p]
      \/ pub[p].txn = 0 /\ pub'[p] = [pub[p] EXCEPT !.txn = task[c].txn]
  BY <1>a DEF StartLink
<1>8. CASE pub'[p] = pub[p]
  <2>1. ASSUME NEW r \in Sid, pub[p].txn = rows[r].txn, Sole(rows, r)
        PROVE  Receipt(pub[p], rows', task', r)
    <3>1. Receipt(pub[p], rows, task, r)
      BY <1>6, <2>1 DEF PubOk
    <3> QED BY <1>4, <1>5, <3>1 DEF Receipt
  <2> QED BY <1>4, <1>6, <1>8, <2>1 DEF PubOk
<1>9. CASE pub[p].txn = 0 /\ pub'[p] = [pub[p] EXCEPT !.txn = task[c].txn]
  <2>1. /\ pub'[p].txn = rows[s].txn /\ pub'[p].txn # 0
        /\ pub'[p].stopped = pub[p].stopped
    BY <1>3, <1>6, <1>9 DEF PubRow
  <2>2. ~pub'[p].stopped
    BY <1>6, <1>9, <2>1 DEF PubOk
  <2>3. ASSUME NEW r \in Sid, pub'[p].txn = rows[r].txn, Sole(rows, r)
        PROVE  Receipt(pub'[p], rows', task', r)
    <3>1. r = s
      BY <2>1, <2>3 DEF Sole
    <3>2. Unpaid(rows', task', r)
      BY <1>3, <1>4, <3>1 DEF Unpaid
    <3> QED BY <2>2, <3>2 DEF Receipt
  <2> QED BY <1>4, <2>1, <2>2, <2>3 DEF PubOk
<1> QED BY <1>7, <1>8, <1>9

LEMMA PubStopPub ==
    ASSUME Calm, IInv, CalmInv, NEW c \in Conn, StopPub(c)
    PROVE  PubInv'
<1>a. /\ task \in [Conn -> Task] /\ pub \in [Pub -> PubRow]
  BY DEF IInv, TypeOK
<1>1. PICK s \in Sid : s = task[c].sid
  BY DEF IInv, HandlerInv, Relies, StopPub, At, StopSteps
<1>2. task[c].pc = "stop_pub" /\ AtStage(task[c], rows[s], live[s])
  BY <1>1 DEF StopPub, At, CalmInv, StageInv
<1>3. /\ rows[s].status = "completed" /\ rows[s].txn = task[c].txn
      /\ rows[s].energy = task[c].energy /\ rows[s].txn > 0
  <2>1. /\ rows[s].status = "completed" /\ rows[s].txn = task[c].txn
        /\ rows[s].energy = task[c].energy
    BY <1>2 DEF AtStage, StopSteps
  <2> QED BY <2>1 DEF CalmInv, TxnInv, TxnsOf
<1>4. /\ task'[c].pc = "stop_live" /\ \A d \in Conn \ {c} : task'[d] = task[d]
      /\ rows' = rows
  BY <1>a, GotoTask DEF StopPub
<1>5. ASSUME NEW r \in Sid, r # s
      PROVE  Unpaid(rows', task', r) <=> Unpaid(rows, task, r)
  BY <1>1, <1>4, <1>5, UnpaidStays
<1>6. ~Unpaid(rows', task', s) /\ Unpaid(rows, task, s)
  <2>1. \A d \in Conn \ {c} : task'[d].sid # s
    BY <1>1, <1>4, OneHandler DEF CalmInv
  <2> QED BY <1>1, <1>2, <1>3, <1>4, <2>1 DEF Unpaid
<1> SUFFICES ASSUME NEW p \in Pub PROVE PubOk(pub'[p], rows', task')
  BY DEF PubInv
<1>7. PubOk(pub[p], rows, task) /\ pub[p] \in PubRow
  BY <1>a DEF CalmInv, PubInv
<1>8. pub'[p].txn = pub[p].txn
  BY <1>7 DEF StopPub, PubRow
<1>9. ASSUME pub[p].txn # rows[s].txn PROVE pub'[p] = pub[p]
  BY <1>3, <1>9 DEF StopPub
<1>10. ASSUME pub[p].txn = rows[s].txn, ~pub[p].stopped
       PROVE  pub'[p].stopped /\ pub'[p].kwh = rows[s].energy
  BY <1>3, <1>7, <1>10 DEF StopPub, PubRow
<1>11. ASSUME NEW r \in Sid, pub'[p].txn = rows[r].txn, Sole(rows, r)
       PROVE  Receipt(pub'[p], rows', task', r)
  <2>1. Receipt(pub[p], rows, task, r)
    BY <1>7, <1>8, <1>11 DEF PubOk
  <2>2. CASE r = s
    <3>1. ~pub[p].stopped
      BY <1>6, <2>1, <2>2 DEF Receipt
    <3> QED BY <1>4, <1>6, <1>8, <1>10, <1>11, <2>2, <3>1 DEF Receipt
  <2>3. CASE r # s
    <3>1. pub'[p] = pub[p]
      BY <1>8, <1>9, <1>11, <2>3 DEF Sole
    <3> QED BY <1>4, <1>5, <2>1, <2>3, <3>1 DEF Receipt
  <2> QED BY <2>2, <2>3
<1>12. pub'[p].txn = 0 => ~pub'[p].stopped
  BY <1>3, <1>7, <1>8, <1>9 DEF PubOk
<1> QED BY <1>4, <1>7, <1>8, <1>11, <1>12 DEF PubOk

LEMMA PubMeterPub ==
    ASSUME Calm, IInv, CalmInv, NEW c \in Conn, MeterPub(c)
    PROVE  PubInv'
<1>a. /\ task \in [Conn -> Task] /\ task[c] \in Task /\ pub \in [Pub -> PubRow]
  BY DEF IInv, TypeOK
<1>1. PICK s \in Sid : s = task[c].sid
  <2>1. task[c].sid \in Sid \cup {None} /\ task[c].energy > 0
    BY <1>a DEF MeterPub, At, CalmInv, MeterInv, MeterOk, Task
  <2>2. task[c].sid # None
    BY <2>1 DEF MeterPub, At, CalmInv, MeterInv, MeterOk, MeterSteps
  <2> QED BY <2>1, <2>2
<1>2. task[c].pc = "meter_pub" /\ AtStage(task[c], rows[s], live[s])
  BY <1>1 DEF MeterPub, At, CalmInv, StageInv
<1>3. rows[s].status = "active" /\ rows[s].txn = task[c].txn
  BY <1>2 DEF AtStage, MeterSteps
<1>4. /\ task'[c].pc = "meter_event" /\ \A d \in Conn \ {c} : task'[d] = task[d]
      /\ rows' = rows
  BY <1>a, GotoTask DEF MeterPub
<1>5. ASSUME NEW r \in Sid
      PROVE  Unpaid(rows', task', r) <=> Unpaid(rows, task, r)
  BY <1>2, <1>4, UnpaidStays
<1> SUFFICES ASSUME NEW p \in Pub PROVE PubOk(pub'[p], rows', task')
  BY DEF PubInv
<1>6. PubOk(pub[p], rows, task) /\ pub[p] \in PubRow
  BY <1>a DEF CalmInv, PubInv
<1>7. pub'[p].txn = pub[p].txn /\ pub'[p].stopped = pub[p].stopped
  BY <1>6 DEF MeterPub, PubRow
<1>8. pub[p].txn # rows[s].txn => pub'[p] = pub[p]
  BY <1>3 DEF MeterPub
<1>9. ASSUME NEW r \in Sid, pub'[p].txn = rows[r].txn, Sole(rows, r)
      PROVE  Receipt(pub'[p], rows', task', r)
  <2>1. Receipt(pub[p], rows, task, r)
    BY <1>6, <1>7, <1>9 DEF PubOk
  <2>2. CASE r = s
    <3>1. Unpaid(rows, task, r)
      BY <1>3, <2>2 DEF Unpaid
    <3> QED BY <1>5, <1>7, <2>1, <3>1 DEF Receipt
  <2>3. CASE r # s
    <3>1. pub'[p] = pub[p]
      BY <1>7, <1>8, <1>9, <2>3 DEF Sole
    <3> QED BY <1>4, <1>5, <2>1, <3>1 DEF Receipt
  <2> QED BY <2>2, <2>3
<1> QED BY <1>4, <1>6, <1>7, <1>9 DEF PubOk

LEMMA PubMessage ==
    ASSUME Calm, IInv, CalmInv, NEW c \in Conn, Message(c)
    PROVE  PubInv'
<1>a. task \in [Conn -> Task] /\ rows \in [Sid -> Row]
  BY DEF IInv, TypeOK
<1>0. PubInv
  BY DEF CalmInv
<1>1. ASSUME task[c].pc = "idle", task'[c].pc # "stop_pub",
             \A d \in Conn \ {c} : task'[d] = task[d], UNCHANGED <<rows, pub>>
      PROVE  PubInv'
  <2>1. \A s \in Sid : Unpaid(rows', task', s) <=> Unpaid(rows, task, s)
    BY <1>1, UnpaidStays
  <2>2. SameTxns(rows, rows')
    BY <1>1 DEF SameTxns
  <2> QED BY <1>0, <1>1, <2>1, <2>2, PubsStay
<1>2. ASSUME NEW reg, NEW tag, StartTransaction(c, reg, tag) PROVE PubInv'
  BY <1>a, <1>1, <1>2 DEF StartTransaction, Receive
<1>3. ASSUME NEW reg, NEW t, MeterValues(c, t, reg) PROVE PubInv'
  BY <1>a, <1>1, <1>3 DEF MeterValues, Receive
<1>4. ASSUME NEW reg, NEW t, StopTransaction(c, t, reg) PROVE PubInv'
  <2>1. task[c].pc = "idle" /\ pub' = pub
    BY <1>4 DEF StopTransaction, Receive
  <2>2. CASE UNCHANGED <<rows, task>>
    BY <1>0, <2>1, <2>2 DEF PubInv
  <2>3. ASSUME NEW r \in ActiveRows(c, t), NEW e,
               Complete(ActiveRows(c, t), reg, e),
               task' = [task EXCEPT ![c] = [pc |-> "stop_pub", sid |-> r,
                                            txn |-> t, reg |-> 0, energy |-> e,
                                            tag |-> None]]
        PROVE  PubInv'
    <3>1. /\ r \in Sid /\ rows[r].status = "active"
          /\ \A s \in Sid \ {r} : s \notin ActiveRows(c, t)
      BY DEF ActiveRows, CalmInv, TxnInv, TxnsOf
    <3>2. /\ task'[c].pc = "stop_pub" /\ task'[c].sid = r
          /\ \A d \in Conn \ {c} : task'[d] = task[d]
      BY <1>a, <2>3
    <3>3. /\ rows'[r].status = "completed"
          /\ rows'[r].cp = rows[r].cp /\ rows'[r].txn = rows[r].txn
          /\ \A s \in Sid \ {r} : rows'[s] = rows[s]
      BY <2>3, <3>1 DEF Complete
    <3>4. SameTxns(rows, rows')
      BY <3>1, <3>3 DEF SameTxns
    <3>5. Unpaid(rows', task', r) /\ Unpaid(rows, task, r)
      BY <3>1, <3>2 DEF Unpaid
    <3>6. ASSUME NEW s \in Sid \ {r}
          PROVE  /\ Unpaid(rows', task', s) <=> Unpaid(rows, task, s)
                 /\ rows'[s].energy = rows[s].energy
      <4>1. rows'[s] = rows[s]
        BY <3>3
      <4> QED BY <2>1, <3>2, <4>1, UnpaidStays
    <3>7. \A s \in Sid : /\ Unpaid(rows', task', s) <=> Unpaid(rows, task, s)
                         /\ Unpaid(rows, task, s) \/ rows'[s].energy = rows[s].energy
      <4> SUFFICES ASSUME NEW s \in Sid
                   PROVE  /\ Unpaid(rows', task', s) <=> Unpaid(rows, task, s)
                          /\ Unpaid(rows, task, s) \/ rows'[s].energy = rows[s].energy
        OBVIOUS
      <4>1. CASE s = r
        BY <3>5, <4>1
      <4>2. CASE s # r
        BY <3>6, <4>2
      <4> QED BY <4>1, <4>2
    <3> QED BY <1>0, <2>1, <3>4, <3>7, PubsStay
  <2> QED BY <1>4, <2>2, <2>3 DEF StopTransaction
<1> QED BY <1>2, <1>3, <1>4 DEF Message

LEMMA PubStep ==
    ASSUME Calm, IInv, CalmInv, NEW c \in Conn, Step(c)
    PROVE  PubInv'
<1>a. task \in [Conn -> Task] /\ rows \in [Sid -> Row]
  BY DEF IInv, TypeOK
<1>0. PubInv
  BY DEF CalmInv
<1>1. ASSUME task[c].pc # "stop_pub", task'[c].pc # "stop_pub",
             \A d \in Conn \ {c} : task'[d] = task[d], UNCHANGED <<rows, pub>>
      PROVE  PubInv'
  <2>1. \A s \in Sid : Unpaid(rows', task', s) <=> Unpaid(rows, task, s)
    BY <1>1, UnpaidStays
  <2>2. SameTxns(rows, rows')
    BY <1>1 DEF SameTxns
  <2> QED BY <1>0, <1>1, <2>1, <2>2, PubsStay
<1>2. ASSUME Done(c) \/ \E x : x # "stop_pub" /\ Goto(c, x)
      PROVE  task'[c].pc # "stop_pub" /\ \A d \in Conn \ {c} : task'[d] = task[d]
  <2>1. CASE Done(c)
    BY <1>a, <2>1, DoneTask
  <2>2. ASSUME NEW x, x # "stop_pub", Goto(c, x)
        PROVE  task'[c].pc # "stop_pub" /\ \A d \in Conn \ {c} : task'[d] = task[d]
    BY <1>a, <2>2, GotoTask
  <2> QED BY <1>2, <2>1, <2>2
<1>3. CASE \/ StartLive(c) \/ StartEvent(c) \/ StopLive(c) \/ CdrInsert(c)
           \/ CdrEvent(c) \/ StopEvent(c) \/ MeterAudit(c) \/ MeterLive(c)
           \/ MeterEvent(c)
  <2>1. task[c].pc # "stop_pub" /\ UNCHANGED <<rows, pub>>
    BY <1>3 DEF StartLive, StartEvent, StopLive, CdrInsert, CdrEvent, StopEvent,
                MeterAudit, MeterLive, MeterEvent, At
  <2>2. Done(c) \/ \E x : x # "stop_pub" /\ Goto(c, x)
    BY <1>3 DEF StartLive, StartEvent, StopLive, CdrInsert, CdrEvent, StopEvent,
                MeterAudit, MeterLive, MeterEvent, AfterRow
  <2> QED BY <1>1, <1>2, <2>1, <2>2
<1>4. CASE CdrRead(c)
  <2>1. task[c].pc # "stop_pub" /\ UNCHANGED <<rows, pub>>
    BY <1>4 DEF CdrRead, At
  <2>2. task'[c].pc # "stop_pub" /\ \A d \in Conn \ {c} : task'[d] = task[d]
    BY <1>a, <1>4 DEF CdrRead, Task
  <2> QED BY <1>1, <2>1, <2>2
<1>5. CASE MeterRow(c)
  <2>1. task[c].pc # "stop_pub" /\ pub' = pub
    BY <1>5 DEF MeterRow, At
  <2>2. task'[c].pc # "stop_pub" /\ \A d \in Conn \ {c} : task'[d] = task[d]
    BY <1>5, <1>2 DEF MeterRow, AfterRow
  <2>3. ASSUME NEW s \in Sid
        PROVE  /\ rows'[s].status = rows[s].status
               /\ rows'[s].cp = rows[s].cp /\ rows'[s].txn = rows[s].txn
               /\ rows[s].status = "active" \/ rows'[s] = rows[s]
    BY <1>5, <1>a DEF MeterRow, Row
  <2>4. SameTxns(rows, rows')
    BY <2>3 DEF SameTxns
  <2>5. ASSUME NEW s \in Sid
        PROVE  /\ Unpaid(rows', task', s) <=> Unpaid(rows, task, s)
               /\ Unpaid(rows, task, s) \/ rows'[s].energy = rows[s].energy
    <3>1. Unpaid(rows', task', s) <=> Unpaid(rows, task, s)
      BY <2>1, <2>2, <2>3, UnpaidStays
    <3>2. rows[s].status = "active" \/ rows'[s] = rows[s]
      BY <2>3
    <3> QED BY <3>1, <3>2 DEF Unpaid
  <2> QED BY <1>0, <2>1, <2>4, <2>5, PubsStay
<1> QED BY <1>3, <1>4, <1>5, PubStartCommit, PubStartLink, PubStopPub, PubMeterPub
        DEF Step

LEMMA CalmInvStep ==
    ASSUME Calm, IInv, CalmInv, [Next]_vars
    PROVE  CalmInv'
<1>1. StageInv /\ TxnInv /\ MeterInv /\ PubInv
  BY DEF CalmInv
<1>2. CASE UNCHANGED vars
  BY <1>1, <1>2 DEF vars, CalmInv, StageInv, Quiet, TxnInv, MeterInv, PubInv
<1>3. ASSUME NEW c \in Conn, Message(c) \/ Step(c)
      PROVE  StageInv' /\ PubInv'
  BY <1>1, <1>3, StageMessage, StageStep, PubMessage, PubStep
<1>4. ASSUME NEW c \in Conn, Abort(c) PROVE FALSE
  BY <1>4 DEF Abort, Calm
<1>5. TxnInv' /\ MeterInv'
  BY <1>1, TxnStep, MeterStep
<1> QED BY <1>2, <1>3, <1>4, <1>5 DEF Next, CalmInv

LEMMA CalmShowsTrue ==
    ASSUME IInv, CalmInv
    PROVE  ShownIsTrue
<1>1. LiveIsActive
  BY DEF LiveIsActive, CalmInv, StageInv, AtRest
<1>2. ASSUME NEW p \in Pub, NEW s \in Sid, pub[p].txn = rows[s].txn,
             rows[s].status = "completed", UniqueTxn(s), Quiet(s)
      PROVE  pub[p].stopped /\ cdrs[s] = <<pub[p].kwh>>
  <2>1. Sole(rows, s)
    BY <1>2 DEF Sole, UniqueTxn
  <2>2. Receipt(pub[p], rows, task, s)
    BY <1>2, <2>1 DEF CalmInv, PubInv, PubOk
  <2>3. ~Unpaid(rows, task, s)
    BY <1>2 DEF Unpaid, Quiet
  <2>4. pub[p].stopped /\ pub[p].kwh = rows[s].energy
    BY <2>2, <2>3 DEF Receipt
  <2>5. cdrs[s] # <<>>
    BY <1>2 DEF CalmInv, StageInv, AtRest
  <2>6. cdrs[s] = <<rows[s].energy>>
    BY <2>5 DEF IInv, BilledOnce
  <2> QED BY <2>4, <2>6
<1> QED BY <1>1, <1>2 DEF ShownIsTrue, ReceiptMatchesBill

\* When every charger has one connection and nothing fails, Redis holds exactly
\* the active sessions between messages, and the receipt of the charge app is
\* the bill, whatever the chargers send and in whatever order the handlers of
\* different chargers interleave (session.py:152-157, meter.py:199-205).
THEOREM CalmShownIsTrue ==
    ASSUME Calm
    PROVE  Spec => []ShownIsTrue
<1>1. IInv /\ CalmInv /\ [Next]_vars => CalmInv'
  BY CalmInvStep
<1>2. IInv /\ CalmInv => ShownIsTrue
  BY CalmShowsTrue
<1> QED BY <1>1, <1>2, InitCalmInv, Invariance, PTL DEF Spec

-----------------------------------------------------------------------------
(* The handlers implement the ledger.                                      *)

Phase  == [s \in Sid |-> rows[s].status]
Energy == [s \in Sid |-> rows[s].energy]

LEMMA LedgerStutters ==
    ASSUME UNCHANGED <<rows, cdrs>>
    PROVE  UNCHANGED Ledger!vars
BY DEF Ledger!vars

LEMMA LedgerOpens ==
    ASSUME IInv, NEW c \in Conn, StartCommit(c)
    PROVE  \E s \in Sid : Ledger!Open(s)
<1>1. PICK s \in Sid : s = task[c].sid /\ rows[s].status = "none"
  BY DEF StartCommit, At, IInv, HandlerInv, Relies, StartSteps
<1>2. /\ rows'[s].status = "active"
      /\ rows'[s].energy = 0 /\ rows[s].energy = 0
      /\ \A r \in Sid \ {s} : rows'[r] = rows[r]
      /\ cdrs' = cdrs
  BY <1>1 DEF StartCommit, IInv, TypeOK, Unopened
<1>3. Phase' = [Phase EXCEPT ![s] = "active"] /\ Energy' = Energy
  BY <1>2 DEF Phase, Energy
<1> QED BY <1>1, <1>2, <1>3 DEF Ledger!Open, Phase, Energy

LEMMA LedgerGrows ==
    ASSUME IInv, NEW c \in Conn, MeterRow(c)
    PROVE  UNCHANGED Ledger!vars \/ \E s \in Sid : Ledger!Grow(s)
<1>1. CASE UNCHANGED rows
  BY <1>1, LedgerStutters DEF MeterRow
<1>2. CASE /\ rows[task[c].sid].status = "active"
           /\ rows[task[c].sid].energy < task[c].energy
           /\ rows' = [rows EXCEPT ![task[c].sid].energy = task[c].energy]
  <2>1. PICK s \in Sid : s = task[c].sid
    BY DEF MeterRow, At, IInv, HandlerInv, Relies
  <2>2. /\ rows[s] \in Row
        /\ task[c].energy \in Nat
    BY DEF IInv, TypeOK, Task
  <2>3. /\ rows'[s].status = rows[s].status
        /\ rows'[s].energy = task[c].energy
        /\ \A r \in Sid \ {s} : rows'[r] = rows[r]
    BY <1>2, <2>1, <2>2 DEF IInv, TypeOK, Row
  <2>4. Phase' = Phase /\ Energy' = [Energy EXCEPT ![s] = Energy'[s]]
    BY <2>3 DEF Phase, Energy
  <2>5. Phase[s] = "active" /\ Energy'[s] > Energy[s]
    BY <1>2, <2>1, <2>2, <2>3 DEF Phase, Energy, Row
  <2> QED BY <2>4, <2>5 DEF Ledger!Grow, Phase, Energy, MeterRow
<1> QED BY <1>1, <1>2 DEF MeterRow

LEMMA LedgerCloses ==
    ASSUME IInv, NEW c \in Conn, NEW t, NEW reg, StopTransaction(c, t, reg)
    PROVE  UNCHANGED Ledger!vars \/ \E S \in SUBSET Sid : Ledger!Close(S)
<1>0. PICK S \in SUBSET Sid : S = ActiveRows(c, t)
  BY DEF ActiveRows
<1>1. cdrs' = cdrs
  BY DEF StopTransaction
<1>2. CASE UNCHANGED rows
  BY <1>1, <1>2, LedgerStutters
<1>3. ASSUME NEW f \in S, NEW e, Complete(S, reg, e)
      PROVE  Ledger!Close(S)
  <2>1. \A s \in S : rows[s].status = "active"
    BY <1>0 DEF ActiveRows
  <2>2. /\ \A s \in S : rows'[s].status = "completed" /\ rows'[s].energy = e
        /\ \A s \in Sid \ S : rows'[s] = rows[s]
    BY <1>3 DEF Complete
  <2>3. Phase' = [s \in Sid |-> IF s \in S THEN "completed" ELSE Phase[s]]
    BY <2>2 DEF Phase
  <2>4. Energy' = [s \in Sid |-> IF s \in S THEN e ELSE Energy[s]]
    BY <2>2 DEF Energy
  <2>5. e \in {Energy'[s] : s \in S}
    BY <1>3, <2>4
  <2> QED BY <1>1, <1>3, <2>1, <2>3, <2>4, <2>5 DEF Ledger!Close, Phase, Energy
<1>4. UNCHANGED rows \/ \E f \in S : \E e : Complete(S, reg, e)
  BY <1>0 DEF StopTransaction
<1> QED BY <1>2, <1>3, <1>4

LEMMA LedgerBills ==
    ASSUME IInv, NEW c \in Conn, CdrInsert(c)
    PROVE  \E s \in Sid : Ledger!Bill(s)
<1>1. PICK s \in Sid : /\ s = task[c].sid
                       /\ rows[s].status = "completed"
                       /\ cdrs[s] = <<>>
                       /\ task[c].energy = rows[s].energy
  BY DEF CdrInsert, At, IInv, HandlerInv, Relies, StopSteps, UnbilledSteps
<1>2. cdrs' = [cdrs EXCEPT ![s] = Append(<<>>, rows[s].energy)]
  BY <1>1 DEF CdrInsert, IInv, TypeOK
<1>3. Append(<<>>, rows[s].energy) = <<rows[s].energy>>
  OBVIOUS
<1>4. rows' = rows
  BY DEF CdrInsert
<1> QED BY <1>1, <1>2, <1>3, <1>4 DEF Ledger!Bill

LEMMA LedgerStep == IInv /\ [Next]_vars => [Ledger!Next]_(Ledger!vars)
<1> SUFFICES ASSUME IInv, [Next]_vars PROVE [Ledger!Next]_(Ledger!vars)
  OBVIOUS
<1>1. CASE UNCHANGED <<rows, cdrs>>
  BY <1>1, LedgerStutters
<1>2. ASSUME NEW c \in Conn, Step(c)
      PROVE  UNCHANGED <<rows, cdrs>> \/ StartCommit(c) \/ MeterRow(c) \/ CdrInsert(c)
  BY <1>2
     DEF Step, StartLive, StartEvent, StartLink, StopPub, StopLive, CdrRead,
         CdrEvent, StopEvent, MeterAudit, MeterLive, MeterPub, MeterEvent
<1>3. ASSUME NEW c \in Conn, Message(c)
      PROVE  \/ UNCHANGED <<rows, cdrs>>
             \/ \E t, reg : StopTransaction(c, t, reg)
  BY <1>3 DEF Message, StartTransaction, MeterValues
<1> QED BY <1>1, <1>2, <1>3, LedgerOpens, LedgerGrows, LedgerCloses, LedgerBills
        DEF Next, Abort, vars, Ledger!Next

\* Whatever the handlers of all connections do, the rows and the billing
\* records evolve only as the abstract ledger allows: a completed session is
\* never reopened or altered, and its one bill is its final energy.
THEOREM ImplementsLedger == Spec => LedgerSpec
<1>1. Init => Ledger!Init
  BY DEF Init, NoRow, Ledger!Init
<1> QED BY <1>1, Invariance, LedgerStep, PTL DEF Spec, LedgerSpec, Ledger!Spec
=============================================================================
