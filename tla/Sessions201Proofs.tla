-------------------------- MODULE Sessions201Proofs --------------------------
(***************************************************************************)
(* Theorems about Sessions201, for every set of connections, chargers,     *)
(* sessions, transactions and readings, with and without faults.           *)
(*                                                                         *)
(* None of the properties is inductive: each depends on what a handler     *)
(* suspended between two awaits may still rely on.  Relies says that, step *)
(* by step, and RowSound what the columns and records of one session have  *)
(* to do with each other.  That a session has one ender is what keeps two  *)
(* handlers from billing it both.                                          *)
(***************************************************************************)
EXTENDS Sessions201, TLAPS

\* The STOP event of session s was published.
Stopped(s) == \E i \in DOMAIN stream : stream[i].type = "STOP" /\ stream[i].sid = s

\* The CDR event of session s was published, for the energy of its record.
Announced(s) ==
    \E i \in DOMAIN stream : stream[i] = [type |-> "CDR", sid |-> s, kwh |-> due[s]]

\* Steps from which a handler goes on to complete a session, or may.
EndingSteps == {"meter_live", "meter_row", "meter_event", "complete"}

\* What the handler of connection c may rely on where it is suspended.
Relies(c) ==
    LET k == task[c]
        s == k.sid
    IN  /\ k.pc \notin {"idle", "meter_event"} => s \in Sid
        /\ k.pc = "complete" => k.kind = "ended"
        /\ s \in Sid => rows[s].status # "none"
        /\ s \in Sid /\ k.pc \in EndingSteps =>
              /\ ender[s] # c
              /\ k.kind = "ended" => \A t \in Txn : cache[c][t] # s
        /\ k.pc \in StopSteps => ender[s] = c /\ ~Stopped(s)
        /\ k.pc \in {"stop_live", "cdr_read"} =>
              due[s] = None /\ cdrs[s] = <<>> /\ k.final <= rows[s].energy
        /\ k.pc \in {"cdr_insert", "cdr_event", "stop_event"} =>
              due[s] \in Nat /\ k.final <= due[s]
        /\ k.pc \in {"cdr_insert", "cdr_event"} => k.energy = due[s]
        /\ k.pc = "cdr_insert" => cdrs[s] = <<>>
        /\ k.pc \in {"cdr_event", "stop_event"} => cdrs[s] = <<due[s]>>
        /\ k.pc = "stop_event" => Announced(s)

HandlerInv == \A c \in Conn : Relies(c)

\* How the columns and the records of a session go together.
RowSound(s) ==
    /\ rows[s].status = "none" => rows[s].energy = 0
    /\ ender[s] # None <=> rows[s].status = "completed"
    /\ due[s] # None => rows[s].status = "completed"
    /\ cdrs[s] # <<>> => due[s] # None /\ cdrs[s] = <<due[s]>>

RowsSound == \A s \in Sid : RowSound(s)

Sound == HandlerInv /\ RowsSound /\ CacheSound /\ StopFollowsCdr

IInv == TypeOK /\ Sound

USE Session201Assumption

-----------------------------------------------------------------------------
(* What the helpers do.                                                    *)

LEMMA GotoTask ==
    ASSUME task \in [Conn -> Task], NEW c \in Conn, NEW x, Goto(c, x)
    PROVE  /\ task'[c].pc = x
           /\ task'[c].kind = task[c].kind
           /\ task'[c].sid = task[c].sid
           /\ task'[c].energy = task[c].energy
           /\ task'[c].final = task[c].final
           /\ \A d \in Conn \ {c} : task'[d] = task[d]
BY DEF Goto, Task

LEMMA DoneTask ==
    ASSUME task \in [Conn -> Task], NEW c \in Conn, Done(c)
    PROVE  /\ task'[c] = Idle
           /\ \A d \in Conn \ {c} : task'[d] = task[d]
BY DEF Done

LEMMA IdleType == Idle \in Task
BY DEF Idle, Task

\* What a handler starts with when it is told about session s.
Asked(k, kind, s) == k \in Task /\ k.kind = kind /\ k.sid = s

LEMMA AskedUpdated ==
    ASSUME NEW s \in Sid \cup {None}, NEW state \in BOOLEAN
    PROVE  Asked([Idle EXCEPT !.kind = "updated", !.sid = s, !.state = state],
                 "updated", s)
BY DEF Asked, Idle, Task

LEMMA AskedEnded ==
    ASSUME NEW s \in Sid \cup {None}
    PROVE  Asked([Idle EXCEPT !.kind = "ended", !.sid = s], "ended", s)
BY DEF Asked, Idle, Task

\* Published events are appended, and nothing else happens to the stream.
LEMMA PublishAppends ==
    ASSUME stream \in Seq(Event), NEW s \in Sid, NEW e \in Nat,
           NEW type \in {"STOP", "CDR"}, Publish(type, s, e)
    PROVE  /\ stream' \in Seq(Event)
           /\ DOMAIN stream' = 1 .. Len(stream) + 1
           /\ DOMAIN stream = 1 .. Len(stream)
           /\ Len(stream) \in Nat
           /\ \A i \in 1 .. Len(stream) : stream'[i] = stream[i]
           /\ stream'[Len(stream) + 1] = [type |-> type, sid |-> s, kwh |-> e]
BY DEF Publish, Event

LEMMA EventTypes ==
    ASSUME TypeOK, NEW i \in DOMAIN stream
    PROVE  /\ stream[i].type \in {"STOP", "CDR"}
           /\ stream[i].sid \in Sid
           /\ stream[i].kwh \in Nat
<1>1. stream[i] \in Event
  BY DEF TypeOK
<1> QED BY <1>1 DEF Event

\* The session a message is about exists, belongs to the charger and was not
\* completed by this connection.
LEMMA LookupFinds ==
    ASSUME IInv, NEW c \in Conn, NEW t \in Txn, NEW s \in Lookup(c, t)
    PROVE  /\ s \in Sid \cup {None}
           /\ s # None => /\ rows[s].cp = ChargerOf[c] /\ rows[s].txn = t
                          /\ rows[s].status # "none" /\ ender[s] # c
<1>1. CASE cache[c][t] # None
  <2>1. s = cache[c][t]
    BY <1>1 DEF Lookup
  <2> QED BY <1>1, <2>1 DEF IInv, TypeOK, Sound, CacheSound
<1>2. CASE cache[c][t] = None /\ s # None
  <2>1. /\ s \in Sid /\ rows[s].status = "active"
        /\ rows[s].cp = ChargerOf[c] /\ rows[s].txn = t
    BY <1>2 DEF Lookup
  <2>2. ender[s] = None
    BY <2>1 DEF IInv, Sound, RowsSound, RowSound
  <2> QED BY <2>1, <2>2
<1> QED BY <1>1, <1>2

\* Where a handler goes with the meter values of a message.
LEMMA ProcessGoes ==
    ASSUME NEW k \in Task, NEW r \in Nat \cup {None}
    PROVE  /\ Process(k, r) \in Task
           /\ \/ Process(k, r) = Idle
              \/ /\ Process(k, r).kind = k.kind
                 /\ Process(k, r).sid = k.sid
                 /\ \/ Process(k, r).pc = "meter_event" /\ k.sid = None
                    \/ Process(k, r).pc = "meter_live" /\ k.sid # None
                    \/ Process(k, r).pc = "complete" /\ k.sid # None /\ k.kind = "ended"
                    \/ Process(k, r).pc = "state_live" /\ k.sid # None
<1> DEFINE pc == IF r = None THEN AfterMeter(k)
                 ELSE IF k.sid = None THEN "meter_event" ELSE "meter_live"
           e  == IF r = None THEN 0 ELSE r
<1>1. e \in Nat
  OBVIOUS
<1>2. pc \in {"idle", "meter_event", "meter_live", "complete", "state_live"}
  BY DEF AfterMeter
<1>3. CASE pc = "idle"
  BY <1>3, IdleType DEF Process
<1>4. CASE pc # "idle"
  <2>1. Process(k, r) = [k EXCEPT !.pc = pc, !.energy = e]
    BY <1>4 DEF Process
  <2>2. Process(k, r) \in Task
    BY <1>1, <1>2, <2>1 DEF Task, MeterSteps
  <2>3. Process(k, r).kind = k.kind /\ Process(k, r).sid = k.sid /\ Process(k, r).pc = pc
    BY <2>1 DEF Task
  <2>4. \/ pc = "meter_event" /\ k.sid = None
        \/ pc = "meter_live" /\ k.sid # None
        \/ pc = "complete" /\ k.sid # None /\ k.kind = "ended"
        \/ pc = "state_live" /\ k.sid # None
    BY <1>4 DEF AfterMeter
  <2> QED BY <2>2, <2>3, <2>4
<1> QED BY <1>3, <1>4

-----------------------------------------------------------------------------
(* Type correctness.                                                       *)

LEMMA InitIInv == Init => IInv
BY DEF Init, IInv, TypeOK, Sound, HandlerInv, Relies, RowsSound, RowSound,
       CacheSound, StopFollowsCdr, Idle, Row, Task, Event, StopSteps, EndingSteps,
       Stopped, Announced

LEMMA TypeStep ==
    ASSUME IInv, [Next]_vars
    PROVE  TypeOK'
<1> USE DEF IInv, TypeOK
<1>a. task \in [Conn -> Task] /\ Idle \in Task /\ \A r \in Reading : r \in Nat \cup {None}
  BY IdleType
<1>b. None \in Nat \cup {None}
  OBVIOUS
<1>1. ASSUME NEW c \in Conn, NEW t \in Txn, Started(c, t) PROVE TypeOK'
  <2>1. PICK s \in Sid :
           /\ rows' = [rows EXCEPT ![s] = [status |-> "active", cp |-> ChargerOf[c],
                                           txn |-> t, energy |-> 0]]
           /\ cache' = [cache EXCEPT ![c][t] = s]
           /\ task' = [task EXCEPT ![c] = [Idle EXCEPT !.pc = "start_live", !.sid = s]]
    BY <1>1 DEF Started
  <2>2. rows' \in [Sid -> Row]
    BY <2>1 DEF Row
  <2>3. task' \in [Conn -> Task]
    BY <1>a, <2>1 DEF Idle, Task
  <2>4. cache' \in [Conn -> [Txn -> Sid \cup {None}]]
    BY <2>1
  <2> QED BY <1>1, <2>2, <2>3, <2>4 DEF Started, Receive
<1>2. ASSUME NEW c \in Conn, NEW t \in Txn, NEW r \in Nat \cup {None},
             NEW state \in BOOLEAN, Updated(c, t, r, state)
      PROVE  TypeOK'
  <2>1. PICK s \in Lookup(c, t) :
           /\ cache' = [cache EXCEPT ![c][t] = s]
           /\ task' = [task EXCEPT ![c] =
                Process([Idle EXCEPT !.kind = "updated", !.sid = s, !.state = state], r)]
    BY <1>2 DEF Updated
  <2>2. s \in Sid \cup {None}
    BY LookupFinds
  <2>3. task' \in [Conn -> Task]
    BY <2>1, <2>2, AskedUpdated, ProcessGoes DEF Asked
  <2>4. cache' \in [Conn -> [Txn -> Sid \cup {None}]]
    BY <2>1, <2>2
  <2> QED BY <1>2, <2>3, <2>4 DEF Updated, Receive
<1>8. ASSUME NEW c \in Conn, NEW t \in Txn, NEW r \in Nat \cup {None}, Ended(c, t, r)
      PROVE  TypeOK'
  <2>1. PICK s \in Lookup(c, t) :
           task' = [task EXCEPT ![c] =
                Process([Idle EXCEPT !.kind = "ended", !.sid = s], r)]
    BY <1>8 DEF Ended
  <2>2. s \in Sid \cup {None}
    BY LookupFinds
  <2>3. task' \in [Conn -> Task]
    BY <2>1, <2>2, AskedEnded, ProcessGoes DEF Asked
  <2>4. cache' \in [Conn -> [Txn -> Sid \cup {None}]]
    BY <1>8 DEF Ended
  <2> QED BY <1>8, <2>3, <2>4 DEF Ended, Receive
<1>3. ASSUME NEW c \in Conn, NEW r \in Reading, MeterValues(c, r) PROVE TypeOK'
  <2>1. task' \in [Conn -> Task]
    BY <1>a, <1>3, ProcessGoes DEF MeterValues
  <2> QED BY <1>3, <2>1 DEF MeterValues, Receive
<1>4. ASSUME NEW c \in Conn, Step(c) PROVE TypeOK'
  <2> USE DEF At, Goto, Done, MeterSteps, StopSteps
  <2>0. /\ task[c] \in Task
        /\ task[c].energy \in Nat /\ task[c].final \in Nat
        /\ task[c].sid \in Sid \cup {None}
    BY DEF Task
  <2>a. Relies(c)
    BY DEF Sound, HandlerInv
  <2>1. CASE StartLive(c)
    BY <2>0, <2>1 DEF StartLive, Task
  <2>2. CASE StartEvent(c)
    BY <1>a, <2>2 DEF StartEvent
  <2>3. CASE MeterLive(c)
    BY <2>0, <2>3 DEF MeterLive, Hset, Task
  <2>4. CASE MeterRow(c)
    <3>1. \A q \in Row : [q EXCEPT !.energy = IF @ < task[c].energy THEN task[c].energy
                                              ELSE @] \in Row
      BY <2>0 DEF Row
    <3>2. rows' \in [Sid -> Row]
      BY <2>4, <3>1 DEF MeterRow
    <3>3. task' \in [Conn -> Task]
      BY <2>0, <2>4 DEF MeterRow, Task
    <3> QED BY <2>4, <3>2, <3>3 DEF MeterRow
  <2>5. CASE MeterEvent(c)
    BY <1>a, <2>0, <2>5, <1>b, ProcessGoes DEF MeterEvent
  <2>6. CASE StateLive(c)
    BY <1>a, <2>6 DEF StateLive, Hset
  <2>7. CASE Complete(c)
    <3>0. task[c].sid \in Sid
      BY <2>a, <2>7 DEF Complete, Relies
    <3>1. CASE rows[task[c].sid].status = "active"
      <4>1. /\ rows' = [rows EXCEPT ![task[c].sid].status = "completed"]
            /\ ender' = [ender EXCEPT ![task[c].sid] = c]
            /\ task' = [task EXCEPT ![c].pc = "stop_live",
                                    ![c].final = rows[task[c].sid].energy]
        BY <2>7, <3>1 DEF Complete
      <4>2. \A q \in Row : [q EXCEPT !.status = "completed"] \in Row
        BY DEF Row
      <4>6. rows' \in [Sid -> Row]
        BY <4>1, <4>2
      <4>3. ender' \in [Sid -> Conn \cup {None}]
        BY <4>1
      <4>4. rows[task[c].sid].energy \in Nat
        BY <3>0 DEF Row
      <4>5. task' \in [Conn -> Task]
        BY <2>0, <4>1, <4>4 DEF Task
      <4> QED BY <2>7, <4>3, <4>5, <4>6 DEF Complete
    <3>2. CASE rows[task[c].sid].status # "active"
      <4>1. task' = [task EXCEPT ![c] = Idle] /\ UNCHANGED <<rows, ender>>
        BY <2>7, <3>2 DEF Complete
      <4> QED BY <1>a, <2>7, <4>1 DEF Complete
    <3> QED BY <3>1, <3>2
  <2>8. CASE StopLive(c)
    BY <2>0, <2>8 DEF StopLive, Task
  <2>9. CASE CdrRead(c)
    <3>1. rows[task[c].sid].energy \in Nat
      BY <2>a, <2>9 DEF CdrRead, Relies, Row
    <3>2. task' \in [Conn -> Task]
      BY <2>0, <2>9, <3>1 DEF CdrRead, Task
    <3>3. due' \in [Sid -> Nat \cup {None}]
      BY <2>9, <3>1 DEF CdrRead
    <3> QED BY <2>9, <3>2, <3>3 DEF CdrRead
  <2>10. CASE CdrInsert(c)
    <3>1. \A b \in Seq(Nat) : Append(b, task[c].energy) \in Seq(Nat)
      BY <2>0
    <3>2. cdrs' \in [Sid -> Seq(Nat)]
      BY <2>10, <3>1 DEF CdrInsert
    <3> QED BY <2>0, <2>10, <3>2 DEF CdrInsert, Task
  <2>11. CASE CdrEvent(c)
    <3>1. stream' \in Seq(Event)
      BY <2>0, <2>a, <2>11, PublishAppends DEF CdrEvent, Relies
    <3> QED BY <2>0, <2>11, <3>1 DEF CdrEvent, Task
  <2>12. CASE StopEvent(c)
    <3>1. stream' \in Seq(Event)
      BY <2>0, <2>a, <2>12, PublishAppends DEF StopEvent, Relies
    <3> QED BY <1>a, <2>12, <3>1 DEF StopEvent
  <2> QED BY <1>4, <2>1, <2>2, <2>3, <2>4, <2>5, <2>6, <2>7, <2>8, <2>9, <2>10,
             <2>11, <2>12 DEF Step
<1>5. ASSUME NEW c \in Conn, Abort(c) PROVE TypeOK'
  BY <1>a, <1>5 DEF Abort, Done
<1>6. CASE UNCHANGED vars
  BY <1>6 DEF vars
<1>7. ASSUME NEW c \in Conn, Message(c) PROVE TypeOK'
  <2>1. \A r \in Reading \cup {None} : r \in Nat \cup {None}
    BY <1>a, <1>b
  <2> QED BY <1>1, <1>2, <1>3, <1>7, <1>8, <2>1 DEF Message
<1> QED BY <1>4, <1>5, <1>6, <1>7 DEF Next

-----------------------------------------------------------------------------
(* Steps that change nothing but the task of one handler, and the cache of *)
(* that handler.                                                           *)

\* Nothing that another handler relies on changes.
Alone(c) ==
    /\ UNCHANGED <<rows, cdrs, stream, due, ender>>
    /\ \A d \in Conn \ {c} : task'[d] = task[d] /\ cache'[d] = cache[d]

LEMMA AloneKeeps ==
    ASSUME IInv, NEW c \in Conn, Alone(c), Relies(c)', CacheSound'
    PROVE  Sound'
<1>1. ASSUME NEW d \in Conn \ {c} PROVE Relies(d)'
  BY <1>1 DEF Alone, IInv, Sound, HandlerInv, Relies, Stopped, Announced
<1>2. HandlerInv'
  BY <1>1 DEF HandlerInv
<1>3. RowsSound'
  BY DEF Alone, IInv, Sound, RowsSound, RowSound
<1>4. StopFollowsCdr'
  BY DEF Alone, IInv, Sound, StopFollowsCdr
<1> QED BY <1>2, <1>3, <1>4 DEF Sound

\* A handler that goes on to a step at which it relies on no more than before,
\* or ends.
LEMMA TaskKeeps ==
    ASSUME IInv, NEW c \in Conn, Alone(c), Relies(c)', cache' = cache
    PROVE  Sound'
<1>1. CacheSound'
  BY DEF Alone, IInv, Sound, CacheSound
<1> QED BY <1>1, AloneKeeps

LEMMA EndingKeeps ==
    ASSUME IInv, NEW c \in Conn, Done(c),
           UNCHANGED <<rows, cdrs, stream, cache, due, ender>>
    PROVE  Sound'
<1>1. task'[c] = Idle /\ \A d \in Conn \ {c} : task'[d] = task[d]
  BY DoneTask DEF IInv, TypeOK
<1>2. Relies(c)'
  BY <1>1 DEF Relies, Idle, StopSteps, EndingSteps
<1> QED BY <1>1, <1>2, TaskKeeps DEF Alone

\* A handler that starts with, or ends, the meter values of a message.
LEMMA ProcessKeeps ==
    ASSUME IInv, NEW c \in Conn, Alone(c), CacheSound',
           NEW k \in Task, NEW r \in Nat \cup {None}, task'[c] = Process(k, r),
           k.sid \in Sid => /\ rows[k.sid].status # "none" /\ ender[k.sid] # c
                            /\ k.kind = "ended" => \A t \in Txn : cache'[c][t] # k.sid
    PROVE  Sound'
<1>1. \/ task'[c] = Idle
      \/ /\ task'[c].kind = k.kind
         /\ task'[c].sid = k.sid
         /\ \/ task'[c].pc = "meter_event" /\ k.sid = None
            \/ task'[c].pc = "meter_live" /\ k.sid # None
            \/ task'[c].pc = "complete" /\ k.sid # None /\ k.kind = "ended"
            \/ task'[c].pc = "state_live" /\ k.sid # None
  BY ProcessGoes
<1>2. k.sid \in Sid \cup {None}
  BY DEF Task
<1>3. UNCHANGED <<rows, ender>>
  BY DEF Alone
<1>4. Relies(c)'
  BY <1>1, <1>2, <1>3 DEF Relies, Idle, StopSteps, EndingSteps
<1> QED BY <1>4, AloneKeeps

LEMMA TaskStepKeeps ==
    ASSUME IInv, NEW c \in Conn,
           \/ StartLive(c) \/ StartEvent(c) \/ MeterLive(c) \/ MeterEvent(c)
           \/ StateLive(c) \/ StopLive(c)
    PROVE  Sound'
<1>a. task \in [Conn -> Task] /\ task[c] \in Task
  BY DEF IInv, TypeOK
<1>b. Relies(c)
  BY DEF IInv, Sound, HandlerInv
<1> USE DEF At, StopSteps, EndingSteps
<1>1. CASE StartLive(c)
  <2>1. Alone(c) /\ Relies(c)' /\ cache' = cache
    BY <1>1, <1>a, <1>b, GotoTask DEF StartLive, Relies, Alone
  <2> QED BY <2>1, TaskKeeps
<1>2. CASE StartEvent(c)
  BY <1>2, EndingKeeps DEF StartEvent
<1>3. CASE MeterLive(c)
  <2>1. PICK x \in {"meter_event", "meter_row"} : Goto(c, x)
    BY <1>3 DEF MeterLive
  <2>2. /\ UNCHANGED <<rows, cdrs, stream, cache, due, ender>>
        /\ task[c].pc = "meter_live"
    BY <1>3 DEF MeterLive
  <2>3. Alone(c) /\ Relies(c)'
    BY <2>1, <2>2, <1>a, <1>b, GotoTask DEF Relies, Alone
  <2> QED BY <2>2, <2>3, TaskKeeps
<1>4. CASE MeterEvent(c)
  <2>1. /\ task'[c] = Process(task[c], None)
        /\ \A d \in Conn \ {c} : task'[d] = task[d]
        /\ UNCHANGED <<rows, cdrs, stream, cache, due, ender>>
        /\ task[c].pc = "meter_event"
    BY <1>4, <1>a DEF MeterEvent
  <2>2. Alone(c) /\ CacheSound'
    BY <2>1 DEF Alone, IInv, Sound, CacheSound
  <2>3. task[c].sid \in Sid =>
           /\ rows[task[c].sid].status # "none" /\ ender[task[c].sid] # c
           /\ task[c].kind = "ended" => \A t \in Txn : cache'[c][t] # task[c].sid
    BY <1>b, <2>1 DEF Relies
  <2> QED BY <1>a, <2>1, <2>2, <2>3, ProcessKeeps
<1>5. CASE StateLive(c)
  BY <1>5, EndingKeeps DEF StateLive
<1>6. CASE StopLive(c)
  <2>1. Alone(c) /\ cache' = cache
    BY <1>6, <1>a, GotoTask DEF StopLive, Alone
  <2>2. Relies(c)'
    BY <1>6, <1>a, <1>b, GotoTask DEF StopLive, Relies, Stopped
  <2> QED BY <2>1, <2>2, TaskKeeps
<1> QED BY <1>1, <1>2, <1>3, <1>4, <1>5, <1>6

LEMMA UpdatedKeeps ==
    ASSUME IInv, NEW c \in Conn, NEW t \in Txn, NEW r \in Nat \cup {None},
           NEW state \in BOOLEAN, Updated(c, t, r, state)
    PROVE  Sound'
<1>1. PICK s \in Lookup(c, t) :
         /\ cache' = [cache EXCEPT ![c][t] = s]
         /\ task' = [task EXCEPT ![c] =
              Process([Idle EXCEPT !.kind = "updated", !.sid = s, !.state = state], r)]
  BY DEF Updated
<1>2. /\ s \in Sid \cup {None}
      /\ s # None => /\ rows[s].cp = ChargerOf[c] /\ rows[s].txn = t
                     /\ rows[s].status # "none" /\ ender[s] # c
  BY LookupFinds
<1>3. PICK k \in Task : /\ k = [Idle EXCEPT !.kind = "updated", !.sid = s, !.state = state]
                        /\ k.kind = "updated" /\ k.sid = s
  BY <1>2, AskedUpdated DEF Asked
<1>4. Alone(c) /\ task'[c] = Process(k, r)
  BY <1>1, <1>3 DEF Updated, Alone, IInv, TypeOK
<1>5. CacheSound'
  <2>1. UNCHANGED <<rows, ender>>
    BY DEF Updated
  <2>2. \A d \in Conn, u \in Txn :
           cache'[d][u] = IF d = c /\ u = t THEN s ELSE cache[d][u]
    BY <1>1 DEF IInv, TypeOK
  <2> QED BY <1>2, <2>1, <2>2 DEF IInv, Sound, CacheSound
<1> QED BY <1>2, <1>3, <1>4, <1>5, ProcessKeeps

LEMMA EndedKeeps ==
    ASSUME IInv, NEW c \in Conn, NEW t \in Txn, NEW r \in Nat \cup {None},
           Ended(c, t, r)
    PROVE  Sound'
<1>1. PICK s \in Lookup(c, t) :
         task' = [task EXCEPT ![c] =
              Process([Idle EXCEPT !.kind = "ended", !.sid = s], r)]
  BY DEF Ended
<1>2. /\ s \in Sid \cup {None}
      /\ s # None => /\ rows[s].cp = ChargerOf[c] /\ rows[s].txn = t
                     /\ rows[s].status # "none" /\ ender[s] # c
  BY LookupFinds
<1>3. PICK k \in Task : /\ k = [Idle EXCEPT !.kind = "ended", !.sid = s]
                        /\ k.kind = "ended" /\ k.sid = s
  BY <1>2, AskedEnded DEF Asked
<1>4. Alone(c) /\ task'[c] = Process(k, r)
  BY <1>1, <1>3 DEF Ended, Alone, IInv, TypeOK
<1>5. \A d \in Conn, u \in Txn :
         cache'[d][u] = IF d = c /\ u = t THEN None ELSE cache[d][u]
  BY DEF Ended, IInv, TypeOK
<1>6. CacheSound'
  BY <1>5 DEF Ended, IInv, Sound, CacheSound
<1>7. ASSUME NEW u \in Txn, s # None PROVE cache'[c][u] # s
  BY <1>2, <1>5, <1>7 DEF IInv, Sound, CacheSound
<1> QED BY <1>2, <1>3, <1>4, <1>6, <1>7, ProcessKeeps

LEMMA MeterValuesKeeps ==
    ASSUME IInv, NEW c \in Conn, NEW r \in Nat \cup {None}, MeterValues(c, r)
    PROVE  Sound'
<1>1. Alone(c) /\ cache' = cache /\ task'[c] = Process(Idle, r)
  BY DEF MeterValues, Alone, IInv, TypeOK
<1>2. Idle \in Task /\ Idle.sid = None
  BY IdleType DEF Idle
<1>3. CacheSound'
  BY <1>1 DEF Alone, IInv, Sound, CacheSound
<1> QED BY <1>1, <1>2, <1>3, ProcessKeeps

-----------------------------------------------------------------------------
(* Steps that write rows, records or events.                               *)

\* The row is new: nothing names it yet.
LEMMA StartedKeeps ==
    ASSUME IInv, NEW c \in Conn, NEW t \in Txn, Started(c, t)
    PROVE  Sound'
<1>a. TypeOK /\ Sound
  BY DEF IInv
<1>1. PICK s \in Sid :
         /\ rows[s].status = "none"
         /\ rows' = [rows EXCEPT ![s] = [status |-> "active", cp |-> ChargerOf[c],
                                         txn |-> t, energy |-> 0]]
         /\ cache' = [cache EXCEPT ![c][t] = s]
         /\ task' = [task EXCEPT ![c] = [Idle EXCEPT !.pc = "start_live", !.sid = s]]
  BY DEF Started
<1>2. UNCHANGED <<cdrs, stream, due, ender>>
  BY DEF Started
<1>3. /\ \A r \in Sid \ {s} : rows'[r] = rows[r]
      /\ rows'[s].status = "active" /\ rows'[s].cp = ChargerOf[c] /\ rows'[s].txn = t
  BY <1>1, <1>a DEF TypeOK
<1>4. /\ \A d \in Conn, u \in Txn :
            cache'[d][u] = IF d = c /\ u = t THEN s ELSE cache[d][u]
      /\ \A d \in Conn \ {c} : cache'[d] = cache[d] /\ task'[d] = task[d]
      /\ task'[c].pc = "start_live" /\ task'[c].sid = s
  BY <1>1, <1>a DEF TypeOK, Idle
<1>5. ender[s] = None /\ due[s] = None
  BY <1>1, <1>a DEF Sound, RowsSound, RowSound
<1>6. ASSUME NEW d \in Conn PROVE Relies(d)'
  <2>1. CASE d = c
    BY <1>3, <1>4, <2>1 DEF Relies, StopSteps, EndingSteps
  <2>2. CASE d # c
    <3>1. Relies(d) /\ task'[d] = task[d] /\ cache'[d] = cache[d]
      BY <1>4, <1>a, <2>2 DEF Sound, HandlerInv
    <3>2. task[d].sid # s
      BY <1>1, <3>1 DEF Relies
    <3>3. task[d].sid \in Sid => rows'[task[d].sid] = rows[task[d].sid]
      BY <1>3, <3>2
    <3>4. task[d].pc \in {"stop_live", "cdr_read"} => task[d].sid \in Sid
      BY <3>1 DEF Relies
    <3> QED BY <1>2, <3>1, <3>3, <3>4 DEF Relies, Stopped, Announced
  <2> QED BY <2>1, <2>2
<1>7. RowsSound'
  <2>1. rows'[s].status = "active"
    BY <1>3
  <2> QED BY <1>2, <1>3, <1>5, <2>1, <1>a DEF Sound, RowsSound, RowSound
<1>8. CacheSound'
  <2>1. ASSUME NEW d \in Conn, NEW u \in Txn, cache'[d][u] # None
        PROVE  /\ rows'[cache'[d][u]].cp = ChargerOf[d] /\ rows'[cache'[d][u]].txn = u
               /\ rows'[cache'[d][u]].status # "none" /\ ender'[cache'[d][u]] # d
    <3>1. CASE d = c /\ u = t
      BY <1>2, <1>3, <1>4, <1>5, <3>1
    <3>2. CASE ~(d = c /\ u = t)
      <4>1. /\ cache'[d][u] = cache[d][u]
            /\ rows[cache[d][u]].cp = ChargerOf[d] /\ rows[cache[d][u]].txn = u
            /\ rows[cache[d][u]].status # "none" /\ ender[cache[d][u]] # d
        BY <1>4, <1>a, <2>1, <3>2 DEF Sound, CacheSound
      <4>2. cache[d][u] \in Sid \ {s}
        BY <1>1, <1>a, <2>1, <4>1 DEF TypeOK
      <4> QED BY <1>2, <1>3, <4>1, <4>2
    <3> QED BY <3>1, <3>2
  <2> QED BY <2>1 DEF CacheSound
<1>9. StopFollowsCdr'
  BY <1>2, <1>a DEF Sound, StopFollowsCdr
<1> QED BY <1>6, <1>7, <1>8, <1>9 DEF Sound, HandlerInv

\* The energy of a row only grows.
LEMMA MeterRowGrows ==
    ASSUME IInv, NEW c \in Conn, MeterRow(c)
    PROVE  /\ task[c].sid \in Sid
           /\ \A s \in Sid :
                 /\ rows'[s].status = rows[s].status
                 /\ rows'[s].cp = rows[s].cp
                 /\ rows'[s].txn = rows[s].txn
                 /\ rows[s].energy <= rows'[s].energy
                 /\ s # task[c].sid => rows'[s] = rows[s]
           /\ task[c].pc = "meter_row"
           /\ rows[task[c].sid].status # "none"
           /\ ender[task[c].sid] # c
<1>1. /\ Relies(c) /\ task[c].pc = "meter_row"
      /\ task[c].energy \in Nat /\ rows \in [Sid -> Row]
  BY DEF IInv, Sound, HandlerInv, MeterRow, At, TypeOK, Task
<1>2. task[c].sid \in Sid /\ rows[task[c].sid].status # "none" /\ ender[task[c].sid] # c
  BY <1>1 DEF Relies, EndingSteps
<1>3. rows' = [rows EXCEPT ![task[c].sid].energy =
                 IF @ < task[c].energy THEN task[c].energy ELSE @]
  BY DEF MeterRow
<1>4. ASSUME NEW s \in Sid
      PROVE  /\ rows'[s].status = rows[s].status
             /\ rows'[s].cp = rows[s].cp
             /\ rows'[s].txn = rows[s].txn
             /\ rows[s].energy <= rows'[s].energy
             /\ s # task[c].sid => rows'[s] = rows[s]
  BY <1>1, <1>3 DEF Row
<1> QED BY <1>1, <1>2, <1>4

LEMMA MeterRowKeeps ==
    ASSUME IInv, NEW c \in Conn, MeterRow(c)
    PROVE  Sound'
<1>a. TypeOK /\ Sound
  BY DEF IInv
<1>1. /\ task'[c].pc = "meter_event" /\ task'[c].kind = task[c].kind
      /\ task'[c].sid = task[c].sid
      /\ \A d \in Conn \ {c} : task'[d] = task[d]
      /\ UNCHANGED <<cdrs, stream, cache, due, ender>>
  BY <1>a, GotoTask DEF MeterRow, TypeOK
<1>2. \A s \in Sid : /\ rows'[s].status = rows[s].status
                     /\ rows'[s].cp = rows[s].cp
                     /\ rows'[s].txn = rows[s].txn
                     /\ rows[s].energy <= rows'[s].energy
                     /\ rows[s].energy \in Nat /\ rows'[s].energy \in Nat
  BY <1>a, MeterRowGrows, TypeStep DEF TypeOK, Row, Next, Step
<1>3. ASSUME NEW d \in Conn PROVE Relies(d)'
  <2>0. Relies(d) /\ Relies(c) /\ task[c].pc = "meter_row"
    BY <1>a, MeterRowGrows DEF Sound, HandlerInv
  <2>1. CASE d = c
    BY <1>1, <1>2, <2>0, <2>1 DEF Relies, StopSteps, EndingSteps
  <2>2. CASE d # c
    <3>1. task'[d] = task[d] /\ task[d].final \in Nat
      BY <1>1, <1>a, <2>2 DEF TypeOK, Task
    <3>2. task[d].sid \in Sid => rows'[task[d].sid].status = rows[task[d].sid].status
      BY <1>2
    <3>3. task[d].pc \in {"stop_live", "cdr_read"} =>
             task[d].final <= rows'[task[d].sid].energy
      BY <1>2, <2>0, <3>1 DEF Relies
    <3> QED BY <1>1, <2>0, <3>1, <3>2, <3>3 DEF Relies, Stopped, Announced
  <2> QED BY <2>1, <2>2
<1>4. RowsSound'
  <2>1. \A s \in Sid : rows'[s].status = "none" => rows'[s].energy = 0
    <3>1. ASSUME NEW s \in Sid, rows'[s].status = "none" PROVE rows'[s] = rows[s]
      BY <1>2, <3>1, MeterRowGrows
    <3> QED BY <3>1, <1>a DEF Sound, RowsSound, RowSound
  <2> QED BY <1>1, <1>2, <2>1, <1>a DEF Sound, RowsSound, RowSound
<1>5. CacheSound'
  <2>1. ASSUME NEW d \in Conn, NEW u \in Txn, cache[d][u] # None
        PROVE  cache[d][u] \in Sid
    BY <1>a, <2>1 DEF TypeOK
  <2> QED BY <1>1, <1>2, <2>1, <1>a DEF Sound, CacheSound
<1>6. StopFollowsCdr'
  BY <1>1, <1>a DEF Sound, StopFollowsCdr
<1> QED BY <1>3, <1>4, <1>5, <1>6 DEF Sound, HandlerInv

\* The UPDATE finds the row active: this handler is the one to end the session.
LEMMA CompleteKeeps ==
    ASSUME IInv, NEW c \in Conn, Complete(c)
    PROVE  Sound'
<1>a. TypeOK /\ Sound /\ Relies(c) /\ task[c].pc = "complete"
  BY DEF IInv, Sound, HandlerInv, Complete, At
<1>1. PICK s \in Sid : s = task[c].sid
  BY <1>a DEF Relies
<1>2. CASE rows[s].status # "active"
  <2>1. Done(c) /\ UNCHANGED <<rows, cdrs, stream, cache, due, ender>>
    BY <1>1, <1>2 DEF Complete
  <2> QED BY <2>1, EndingKeeps
<1>3. CASE rows[s].status = "active"
  <2>1. /\ rows' = [rows EXCEPT ![s].status = "completed"]
        /\ ender' = [ender EXCEPT ![s] = c]
        /\ task' = [task EXCEPT ![c].pc = "stop_live", ![c].final = rows[s].energy]
        /\ UNCHANGED <<cdrs, stream, cache, due>>
    BY <1>1, <1>3 DEF Complete
  <2>2. /\ rows'[s].status = "completed" /\ rows'[s].energy = rows[s].energy
        /\ rows'[s].cp = rows[s].cp /\ rows'[s].txn = rows[s].txn
        /\ rows[s].energy \in Nat
        /\ \A r \in Sid \ {s} : rows'[r] = rows[r] /\ ender'[r] = ender[r]
        /\ ender'[s] = c
    BY <2>1, <1>a DEF TypeOK, Row
  <2>3. /\ task'[c].pc = "stop_live" /\ task'[c].sid = s
        /\ task'[c].final = rows[s].energy
        /\ \A d \in Conn \ {c} : task'[d] = task[d]
    BY <2>1, <1>1, <1>a DEF TypeOK, Task
  <2>4. ender[s] = None /\ due[s] = None /\ cdrs[s] = <<>>
    BY <1>3, <1>a DEF Sound, RowsSound, RowSound
  <2>5. ~Stopped(s)
    <3>1. <<>> # <<due[s]>>
      OBVIOUS
    <3> QED BY <2>4, <3>1, <1>a DEF Stopped, Sound, StopFollowsCdr
  <2>6. \A t \in Txn : cache[c][t] # s
    BY <1>1, <1>a DEF Relies, EndingSteps
  <2>7. ASSUME NEW d \in Conn PROVE Relies(d)'
    <3>1. CASE d = c
      <4>1. ~Stopped(s)'
        BY <2>1, <2>5 DEF Stopped
      <4> QED BY <2>1, <2>2, <2>3, <2>4, <3>1, <4>1 DEF Relies, StopSteps, EndingSteps
    <3>2. CASE d # c
      <4>1. Relies(d) /\ task'[d] = task[d]
        BY <2>3, <3>2, <1>a DEF Sound, HandlerInv
      <4>2. task[d].sid = s => task[d].pc \notin StopSteps
        BY <2>4, <4>1 DEF Relies
      <4>3. task[d].sid \in Sid => /\ rows[task[d].sid].status # "none"
                                   /\ rows'[task[d].sid].status # "none"
                                   /\ rows'[task[d].sid].energy = rows[task[d].sid].energy
        BY <2>2, <4>1 DEF Relies
      <4>4. /\ task[d].sid \in Sid /\ task[d].sid # s => ender'[task[d].sid] = ender[task[d].sid]
            /\ ender'[s] # d
            /\ task[d].pc \in StopSteps => task[d].sid \in Sid
        BY <2>2, <3>2, <4>1 DEF Relies, StopSteps
      <4> QED BY <2>1, <4>1, <4>2, <4>3, <4>4
              DEF Relies, Stopped, Announced, StopSteps, EndingSteps
    <3> QED BY <3>1, <3>2
  <2>8. RowsSound'
    BY <2>1, <2>2, <2>4, <1>a DEF Sound, RowsSound, RowSound
  <2>9. CacheSound'
    <3>1. ASSUME NEW d \in Conn, NEW u \in Txn, cache[d][u] # None
          PROVE  cache[d][u] \in Sid /\ (cache[d][u] = s => d # c)
      BY <2>6, <3>1, <1>a DEF TypeOK
    <3> QED BY <2>1, <2>2, <3>1, <1>a DEF Sound, CacheSound
  <2>10. StopFollowsCdr'
    BY <2>1, <1>a DEF Sound, StopFollowsCdr
  <2> QED BY <2>7, <2>8, <2>9, <2>10 DEF Sound, HandlerInv
<1> QED BY <1>2, <1>3

\* A session that a handler is billing is billed by no other handler.
LEMMA OneEnder ==
    ASSUME IInv, NEW c \in Conn, task[c].pc \in StopSteps
    PROVE  /\ task[c].sid \in Sid
           /\ rows[task[c].sid].status = "completed"
           /\ \A d \in Conn \ {c} :
                 task[d].pc \in StopSteps => task[d].sid # task[c].sid
<1>1. Relies(c)
  BY DEF IInv, Sound, HandlerInv
<1>2. task[c].sid \in Sid /\ ender[task[c].sid] = c
  BY <1>1 DEF Relies, StopSteps
<1>3. rows[task[c].sid].status = "completed"
  BY <1>2 DEF IInv, Sound, RowsSound, RowSound
<1>4. ASSUME NEW d \in Conn \ {c}, task[d].pc \in StopSteps
      PROVE  ender[task[d].sid] = d
  BY <1>4 DEF IInv, Sound, HandlerInv, Relies
<1> QED BY <1>2, <1>3, <1>4

LEMMA CdrReadKeeps ==
    ASSUME IInv, NEW c \in Conn, CdrRead(c)
    PROVE  Sound'
<1>a. TypeOK /\ Sound /\ Relies(c) /\ task[c].pc = "cdr_read"
  BY DEF IInv, Sound, HandlerInv, CdrRead, At
<1>1. PICK s \in Sid : s = task[c].sid
  BY <1>a DEF Relies
<1>2. /\ task' = [task EXCEPT ![c].pc = "cdr_insert", ![c].energy = rows[s].energy]
      /\ due' = [due EXCEPT ![s] = rows[s].energy]
      /\ UNCHANGED <<rows, cdrs, stream, cache, ender>>
  BY <1>1 DEF CdrRead
<1>3. /\ task'[c].pc = "cdr_insert" /\ task'[c].sid = s
      /\ task'[c].final = task[c].final /\ task'[c].energy = rows[s].energy
      /\ \A d \in Conn \ {c} : task'[d] = task[d]
  BY <1>1, <1>2, <1>a DEF TypeOK, Task
<1>4. /\ due'[s] = rows[s].energy /\ rows[s].energy \in Nat
      /\ \A r \in Sid \ {s} : due'[r] = due[r]
  BY <1>2, <1>a DEF TypeOK, Row
<1>5. /\ rows[s].status = "completed"
      /\ \A d \in Conn \ {c} : task[d].pc \in StopSteps => task[d].sid # s
  BY <1>1, <1>a, OneEnder DEF StopSteps
<1>6. /\ ender[s] = c /\ ~Stopped(s) /\ due[s] = None /\ cdrs[s] = <<>>
      /\ task[c].final <= rows[s].energy
  BY <1>1, <1>a DEF Relies, StopSteps
<1>7. ASSUME NEW d \in Conn PROVE Relies(d)'
  <2>1. CASE d = c
    <3>1. ~Stopped(s)'
      BY <1>2, <1>6 DEF Stopped
    <3> QED BY <1>2, <1>3, <1>4, <1>5, <1>6, <2>1, <3>1
            DEF Relies, StopSteps, EndingSteps
  <2>2. CASE d # c
    <3>1. Relies(d) /\ task'[d] = task[d]
      BY <1>3, <2>2, <1>a DEF Sound, HandlerInv
    <3>2. task[d].pc \in StopSteps =>
             task[d].sid \in Sid /\ due'[task[d].sid] = due[task[d].sid]
      BY <1>4, <1>5, <2>2, <3>1 DEF Relies, StopSteps
    <3> QED BY <1>2, <3>1, <3>2 DEF Relies, Stopped, Announced, StopSteps
  <2> QED BY <2>1, <2>2
<1>8. RowsSound'
  BY <1>2, <1>4, <1>5, <1>6, <1>a DEF Sound, RowsSound, RowSound
<1>9. CacheSound'
  BY <1>2, <1>a DEF Sound, CacheSound
<1>10. StopFollowsCdr'
  <2>1. ASSUME NEW i \in DOMAIN stream, stream[i].type = "STOP"
        PROVE  stream[i].sid \in Sid \ {s}
    <3>1. stream[i].sid \in Sid
      BY <2>1, <1>a, EventTypes
    <3> QED BY <1>6, <2>1, <3>1 DEF Stopped
  <2> QED BY <1>2, <1>4, <2>1, <1>a DEF Sound, StopFollowsCdr
<1> QED BY <1>7, <1>8, <1>9, <1>10 DEF Sound, HandlerInv

LEMMA CdrInsertKeeps ==
    ASSUME IInv, NEW c \in Conn, CdrInsert(c)
    PROVE  Sound'
<1>a. TypeOK /\ Sound /\ Relies(c) /\ task[c].pc = "cdr_insert"
  BY DEF IInv, Sound, HandlerInv, CdrInsert, At
<1>1. PICK s \in Sid : s = task[c].sid
  BY <1>a DEF Relies
<1>2. /\ ender[s] = c /\ ~Stopped(s) /\ cdrs[s] = <<>>
      /\ due[s] \in Nat /\ task[c].final <= due[s] /\ task[c].energy = due[s]
  BY <1>1, <1>a DEF Relies, StopSteps
<1>3. UNCHANGED <<rows, stream, cache, due, ender>>
  BY DEF CdrInsert
<1>4. /\ cdrs'[s] = <<due[s]>>
      /\ \A r \in Sid \ {s} : cdrs'[r] = cdrs[r]
  <2>1. Append(<<>>, task[c].energy) = <<due[s]>>
    BY <1>2
  <2> QED BY <1>1, <1>2, <2>1, <1>a DEF CdrInsert, TypeOK
<1>5. /\ task'[c].pc = "cdr_event" /\ task'[c].sid = s
      /\ task'[c].final = task[c].final /\ task'[c].energy = task[c].energy
      /\ \A d \in Conn \ {c} : task'[d] = task[d]
  BY <1>1, <1>a, GotoTask DEF CdrInsert, TypeOK
<1>6. /\ rows[s].status = "completed"
      /\ \A d \in Conn \ {c} : task[d].pc \in StopSteps => task[d].sid # s
  BY <1>1, <1>a, OneEnder DEF StopSteps
<1>7. ASSUME NEW d \in Conn PROVE Relies(d)'
  <2>1. CASE d = c
    <3>1. ~Stopped(s)'
      BY <1>2, <1>3 DEF Stopped
    <3> QED BY <1>2, <1>3, <1>4, <1>5, <1>6, <2>1, <3>1
            DEF Relies, StopSteps, EndingSteps
  <2>2. CASE d # c
    <3>1. Relies(d) /\ task'[d] = task[d]
      BY <1>5, <2>2, <1>a DEF Sound, HandlerInv
    <3>2. task[d].pc \in StopSteps =>
             task[d].sid \in Sid /\ cdrs'[task[d].sid] = cdrs[task[d].sid]
      BY <1>4, <1>6, <2>2, <3>1 DEF Relies, StopSteps
    <3> QED BY <1>3, <3>1, <3>2 DEF Relies, Stopped, Announced, StopSteps
  <2> QED BY <2>1, <2>2
<1>8. RowsSound'
  BY <1>2, <1>3, <1>4, <1>a DEF Sound, RowsSound, RowSound
<1>9. CacheSound'
  BY <1>3, <1>a DEF Sound, CacheSound
<1>10. StopFollowsCdr'
  <2>1. ASSUME NEW i \in DOMAIN stream, stream[i].type = "STOP"
        PROVE  stream[i].sid \in Sid \ {s}
    <3>1. stream[i].sid \in Sid
      BY <2>1, <1>a, EventTypes
    <3> QED BY <1>2, <2>1, <3>1 DEF Stopped
  <2> QED BY <1>3, <1>4, <2>1, <1>a DEF Sound, StopFollowsCdr
<1> QED BY <1>7, <1>8, <1>9, <1>10 DEF Sound, HandlerInv

\* A STOP event is in order, as StopFollowsCdr demands.
InOrder(i) ==
    LET s == stream[i].sid
    IN  /\ cdrs[s] = <<due[s]>>
        /\ stream[i].kwh <= due[s]
        /\ \E j \in 1 .. i - 1 : stream[j] = [type |-> "CDR", sid |-> s, kwh |-> due[s]]
        /\ \A j \in DOMAIN stream :
              stream[j].type = "STOP" /\ stream[j].sid = s => j = i

\* It stays so when another event is appended that is not a STOP of its session.
LEMMA OrderKept ==
    ASSUME NEW n \in Nat, DOMAIN stream = 1 .. n, DOMAIN stream' = 1 .. n + 1,
           \A j \in 1 .. n : stream'[j] = stream[j],
           UNCHANGED <<cdrs, due>>,
           NEW i \in 1 .. n, InOrder(i),
           ~(stream'[n + 1].type = "STOP" /\ stream'[n + 1].sid = stream[i].sid)
    PROVE  InOrder(i)'
<1>1. PICK s : s = stream[i].sid /\ s = stream'[i].sid
  OBVIOUS
<1>2. PICK j \in 1 .. i - 1 : stream[j] = [type |-> "CDR", sid |-> s, kwh |-> due[s]]
  BY <1>1 DEF InOrder
<1>3. j \in 1 .. n /\ stream'[j] = stream[j]
  OBVIOUS
<1>4. stream'[j] = [type |-> "CDR", sid |-> s, kwh |-> due'[s]]
  BY <1>2, <1>3
<1>5. ASSUME NEW m \in DOMAIN stream', stream'[m].type = "STOP", stream'[m].sid = s
      PROVE  m = i
  <2>1. m \in 1 .. n
    BY <1>1, <1>5
  <2> QED BY <1>1, <1>5, <2>1 DEF InOrder
<1> QED BY <1>1, <1>4, <1>5 DEF InOrder

LEMMA CdrEventKeeps ==
    ASSUME IInv, NEW c \in Conn, CdrEvent(c)
    PROVE  Sound'
<1>a. TypeOK /\ Sound /\ Relies(c) /\ task[c].pc = "cdr_event"
  BY DEF IInv, Sound, HandlerInv, CdrEvent, At
<1>1. PICK s \in Sid : s = task[c].sid
  BY <1>a DEF Relies
<1>2. UNCHANGED <<rows, cdrs, cache, due, ender>>
  BY DEF CdrEvent
<1>3. /\ task'[c].pc = "stop_event" /\ task'[c].sid = s
      /\ task'[c].final = task[c].final
      /\ \A d \in Conn \ {c} : task'[d] = task[d]
  BY <1>1, <1>a, GotoTask DEF CdrEvent, TypeOK
<1> DEFINE n == Len(stream)
<1>4. /\ DOMAIN stream' = 1 .. n + 1 /\ DOMAIN stream = 1 .. n /\ n \in Nat
      /\ \A i \in 1 .. n : stream'[i] = stream[i]
      /\ stream'[n + 1] = [type |-> "CDR", sid |-> s, kwh |-> due[s]]
  <2>1. task[c].energy \in Nat /\ task[c].energy = due[s]
    BY <1>1, <1>a DEF Relies, TypeOK, Task
  <2> QED BY <1>1, <1>a, <2>1, PublishAppends DEF CdrEvent, TypeOK
<1> HIDE DEF n
<1>5. stream'[n + 1].type = "CDR" /\ n + 1 \in DOMAIN stream'
  BY <1>4
<1>6. \A r \in Sid : /\ Stopped(r)' => Stopped(r)
                     /\ Announced(r) => Announced(r)'
  <2>1. ASSUME NEW r \in Sid, Stopped(r)' PROVE Stopped(r)
    BY <1>4, <1>5, <2>1 DEF Stopped
  <2>2. ASSUME NEW r \in Sid, Announced(r) PROVE Announced(r)'
    BY <1>2, <1>4, <2>2 DEF Announced
  <2> QED BY <2>1, <2>2
<1>7. Announced(s)'
  BY <1>2, <1>4, <1>5 DEF Announced
<1>8. ASSUME NEW d \in Conn PROVE Relies(d)'
  <2>1. CASE d = c
    BY <1>1, <1>2, <1>3, <1>6, <1>7, <1>a, <2>1 DEF Relies, StopSteps, EndingSteps
  <2>2. CASE d # c
    <3>1. Relies(d) /\ task'[d] = task[d]
      BY <1>3, <2>2, <1>a DEF Sound, HandlerInv
    <3>2. task[d].pc \in StopSteps => task[d].sid \in Sid
      BY <3>1 DEF Relies, StopSteps
    <3> QED BY <1>2, <1>6, <3>1, <3>2 DEF Relies, StopSteps
  <2> QED BY <2>1, <2>2
<1>9. RowsSound' /\ CacheSound'
  BY <1>2, <1>a DEF Sound, RowsSound, RowSound, CacheSound
<1>10. StopFollowsCdr'
  <2>1. ASSUME NEW i \in DOMAIN stream', stream'[i].type = "STOP" PROVE InOrder(i)'
    <3>1. i \in 1 .. n /\ stream[i].type = "STOP"
      BY <1>4, <1>5, <2>1
    <3>2. InOrder(i)
      BY <1>4, <3>1, <1>a DEF Sound, StopFollowsCdr, InOrder
    <3> QED BY <1>2, <1>4, <1>5, <3>1, <3>2, OrderKept
  <2> QED BY <2>1 DEF StopFollowsCdr, InOrder
<1> QED BY <1>8, <1>9, <1>10 DEF Sound, HandlerInv

LEMMA StopEventKeeps ==
    ASSUME IInv, NEW c \in Conn, StopEvent(c)
    PROVE  Sound'
<1>a. TypeOK /\ Sound /\ Relies(c) /\ task[c].pc = "stop_event"
  BY DEF IInv, Sound, HandlerInv, StopEvent, At
<1>1. PICK s \in Sid : s = task[c].sid
  BY <1>a DEF Relies
<1>2. UNCHANGED <<rows, cdrs, cache, due, ender>>
  BY DEF StopEvent
<1>3. task'[c] = Idle /\ \A d \in Conn \ {c} : task'[d] = task[d]
  BY <1>a, DoneTask DEF StopEvent, TypeOK
<1>4. /\ ~Stopped(s) /\ Announced(s) /\ cdrs[s] = <<due[s]>>
      /\ due[s] \in Nat /\ task[c].final <= due[s] /\ task[c].final \in Nat
  BY <1>1, <1>a DEF Relies, StopSteps, TypeOK, Task
<1> DEFINE n == Len(stream)
<1>5. /\ DOMAIN stream' = 1 .. n + 1 /\ DOMAIN stream = 1 .. n /\ n \in Nat
      /\ \A i \in 1 .. n : stream'[i] = stream[i]
      /\ stream'[n + 1] = [type |-> "STOP", sid |-> s, kwh |-> task[c].final]
  BY <1>1, <1>4, <1>a, PublishAppends DEF StopEvent, TypeOK
<1> HIDE DEF n
<1>6. \A d \in Conn \ {c} : task[d].pc \in StopSteps => task[d].sid # s
  BY <1>1, <1>a, OneEnder DEF StopSteps
<1>7. \A r \in Sid : /\ r # s /\ Stopped(r)' => Stopped(r)
                     /\ Announced(r) => Announced(r)'
  <2>1. ASSUME NEW r \in Sid \ {s}, Stopped(r)' PROVE Stopped(r)
    BY <1>5, <2>1 DEF Stopped
  <2>2. ASSUME NEW r \in Sid, Announced(r) PROVE Announced(r)'
    BY <1>2, <1>5, <2>2 DEF Announced
  <2> QED BY <2>1, <2>2
<1>8. ASSUME NEW d \in Conn PROVE Relies(d)'
  <2>1. CASE d = c
    BY <1>3, <2>1 DEF Relies, Idle, StopSteps, EndingSteps
  <2>2. CASE d # c
    <3>1. Relies(d) /\ task'[d] = task[d]
      BY <1>3, <2>2, <1>a DEF Sound, HandlerInv
    <3>2. task[d].pc \in StopSteps => task[d].sid \in Sid \ {s}
      BY <1>6, <2>2, <3>1 DEF Relies, StopSteps
    <3> QED BY <1>2, <1>7, <3>1, <3>2 DEF Relies, StopSteps
  <2> QED BY <2>1, <2>2
<1>9. RowsSound' /\ CacheSound'
  BY <1>2, <1>a DEF Sound, RowsSound, RowSound, CacheSound
<1>10. ASSUME NEW i \in DOMAIN stream', stream'[i].type = "STOP" PROVE InOrder(i)'
  <2>1. CASE i = n + 1
    <3>1. stream'[i].sid = s /\ stream'[i].kwh = task[c].final
      BY <1>5, <1>10, <2>1
    <3>2. PICK j \in 1 .. n : stream[j] = [type |-> "CDR", sid |-> s, kwh |-> due[s]]
      BY <1>4, <1>5 DEF Announced
    <3>3. j \in 1 .. i - 1 /\ stream'[j] = [type |-> "CDR", sid |-> s, kwh |-> due'[s]]
      BY <1>2, <1>5, <2>1, <3>1, <3>2
    <3>4. \A m \in 1 .. n : ~(stream[m].type = "STOP" /\ stream[m].sid = s)
      BY <1>4, <1>5 DEF Stopped
    <3>5. \A m \in DOMAIN stream' :
             stream'[m].type = "STOP" /\ stream'[m].sid = s => m = i
      BY <1>5, <2>1, <3>1, <3>4
    <3> QED BY <1>2, <1>4, <3>1, <3>3, <3>5 DEF InOrder
  <2>2. CASE i # n + 1
    <3>1. i \in 1 .. n /\ stream[i] = stream'[i]
      BY <1>5, <1>10, <2>2
    <3>2. InOrder(i)
      BY <1>5, <1>10, <3>1, <1>a DEF Sound, StopFollowsCdr, InOrder
    <3>3. stream[i].sid # s
      BY <1>4, <1>5, <1>10, <3>1 DEF Stopped
    <3>4. stream'[n + 1].sid = s
      BY <1>5
    <3> QED BY <1>2, <1>5, <3>1, <3>2, <3>3, <3>4, OrderKept
  <2> QED BY <2>1, <2>2
<1>11. StopFollowsCdr'
  BY <1>10 DEF StopFollowsCdr, InOrder
<1> QED BY <1>8, <1>9, <1>11 DEF Sound, HandlerInv

-----------------------------------------------------------------------------
(* The theorems.                                                           *)

LEMMA SoundStep ==
    ASSUME IInv, [Next]_vars
    PROVE  Sound'
<1>1. ASSUME NEW c \in Conn, Message(c) PROVE Sound'
  <2>1. \A r \in Reading \cup {None} : r \in Nat \cup {None}
    OBVIOUS
  <2>2. ASSUME NEW t \in Txn, Started(c, t) PROVE Sound'
    BY <2>2, StartedKeeps
  <2>3. ASSUME NEW t \in Txn, NEW r \in Reading \cup {None}, NEW state \in BOOLEAN,
               Updated(c, t, r, state)
        PROVE  Sound'
    BY <2>1, <2>3, UpdatedKeeps
  <2>4. ASSUME NEW t \in Txn, NEW r \in Reading \cup {None}, Ended(c, t, r)
        PROVE  Sound'
    BY <2>1, <2>4, EndedKeeps
  <2>5. ASSUME NEW r \in Reading, MeterValues(c, r) PROVE Sound'
    BY <2>1, <2>5, MeterValuesKeeps
  <2> QED BY <1>1, <2>2, <2>3, <2>4, <2>5 DEF Message
<1>2. ASSUME NEW c \in Conn, Step(c) PROVE Sound'
  BY <1>2, TaskStepKeeps, MeterRowKeeps, CompleteKeeps, CdrReadKeeps, CdrInsertKeeps,
     CdrEventKeeps, StopEventKeeps DEF Step
<1>3. ASSUME NEW c \in Conn, Abort(c) PROVE Sound'
  BY <1>3, EndingKeeps DEF Abort
<1>4. CASE UNCHANGED vars
  BY <1>4 DEF vars, IInv, Sound, HandlerInv, Relies, Stopped, Announced, RowsSound,
     RowSound, CacheSound, StopFollowsCdr
<1> QED BY <1>1, <1>2, <1>3, <1>4 DEF Next

LEMMA Invariance == Spec => []IInv
<1>1. IInv /\ [Next]_vars => IInv'
  BY TypeStep, SoundStep DEF IInv
<1> QED BY InitIInv, <1>1, PTL DEF Spec

\* Every row, cache entry, event and suspended handler is well formed.
THEOREM TypeCorrect == Spec => []TypeOK
BY Invariance, PTL DEF IInv

\* The cache of a handler names only live rows of its charger under their own
\* transaction, and what is announced as stopped was billed and announced before,
\* however handlers of several connections interleave and abort
\* (transaction.py:117-178).
THEOREM SessionsAreSound == Spec => []SessionsSound
<1>1. IInv => SessionsSound
  BY DEF IInv, Sound, SessionsSound
<1> QED BY <1>1, Invariance, PTL

\* The energy of a completed session changes only through a connection that did
\* not complete it (meter.py:52).
THEOREM LateEnergy == Spec => LateEnergyIsForeign
<1>1. ASSUME IInv, [Next]_vars, NEW s \in Sid, rows[s].status = "completed",
             rows'[s].energy # rows[s].energy
      PROVE  \E c \in Conn : /\ task[c].pc = "meter_row" /\ task[c].sid = s
                             /\ c # ender[s]
  <2>a. TypeOK
    BY <1>1 DEF IInv
  <2>1. ASSUME NEW c \in Conn, MeterRow(c)
        PROVE  task[c].pc = "meter_row" /\ task[c].sid = s /\ c # ender[s]
    BY <1>1, <2>1, MeterRowGrows
  <2>2. ASSUME NEW c \in Conn, Complete(c) PROVE FALSE
    <3>1. \A r \in Sid : [rows[r] EXCEPT !.status = "completed"].energy = rows[r].energy
      BY <2>a DEF TypeOK, Row
    <3>2. rows' = rows \/ rows' = [rows EXCEPT ![task[c].sid].status = "completed"]
      BY <2>2 DEF Complete
    <3> QED BY <1>1, <2>a, <3>1, <3>2 DEF TypeOK
  <2>3. ASSUME NEW c \in Conn, NEW t \in Txn, Started(c, t) PROVE FALSE
    BY <1>1, <2>a, <2>3 DEF Started, TypeOK
  <2>4. ASSUME NEW c \in Conn, Step(c), rows' # rows PROVE MeterRow(c) \/ Complete(c)
    BY <2>4 DEF Step, StartLive, StartEvent, MeterLive, MeterEvent, StateLive, StopLive,
                CdrRead, CdrInsert, CdrEvent, StopEvent
  <2>5. ASSUME NEW c \in Conn, Message(c), rows' # rows
        PROVE  \E t \in Txn : Started(c, t)
    BY <2>5 DEF Message, Updated, Ended, MeterValues
  <2>6. rows' # rows
    BY <1>1
  <2> QED BY <1>1, <2>1, <2>2, <2>3, <2>4, <2>5, <2>6 DEF Next, Abort, vars
<1>2. IInv /\ [Next]_vars =>
        [\A s \in Sid :
           rows[s].status = "completed" /\ rows'[s].energy # rows[s].energy =>
               \E c \in Conn : /\ task[c].pc = "meter_row" /\ task[c].sid = s
                               /\ c # ender[s]]_vars
  BY <1>1
<1> QED BY <1>2, Invariance, PTL DEF Spec, LateEnergyIsForeign

-----------------------------------------------------------------------------
(* The handlers implement the ledger.                                      *)

Phase  == [s \in Sid |-> IF due[s] # None THEN "completed"
                         ELSE IF rows[s].status = "none" THEN "none"
                         ELSE "active"]
Energy == [s \in Sid |-> IF due[s] # None THEN due[s] ELSE rows[s].energy]

\* A step that keeps the energies, and whether a session was opened.
LEMMA LedgerStutters ==
    ASSUME UNCHANGED <<cdrs, due>>,
           \A s \in Sid : /\ rows'[s].energy = rows[s].energy
                          /\ rows'[s].status = "none" <=> rows[s].status = "none"
    PROVE  UNCHANGED Ledger!vars
<1>1. Phase' = Phase /\ Energy' = Energy
  BY DEF Phase, Energy
<1> QED BY <1>1 DEF Ledger!vars, Phase, Energy

LEMMA LedgerOpens ==
    ASSUME IInv, NEW c \in Conn, NEW t \in Txn, Started(c, t)
    PROVE  \E s \in Sid : Ledger!Open(s)
<1>1. PICK s \in Sid :
         /\ rows[s].status = "none"
         /\ rows' = [rows EXCEPT ![s] = [status |-> "active", cp |-> ChargerOf[c],
                                         txn |-> t, energy |-> 0]]
         /\ UNCHANGED <<cdrs, due>>
  BY DEF Started
<1>2. /\ rows'[s].status = "active" /\ rows'[s].energy = 0
      /\ \A r \in Sid \ {s} : rows'[r] = rows[r]
      /\ rows[s].energy = 0 /\ due[s] = None
  BY <1>1 DEF IInv, TypeOK, Sound, RowsSound, RowSound
<1>3. Phase[s] = "none" /\ Phase' = [Phase EXCEPT ![s] = "active"]
  BY <1>1, <1>2 DEF Phase
<1>4. Energy' = Energy
  BY <1>1, <1>2 DEF Energy
<1> QED BY <1>1, <1>3, <1>4 DEF Ledger!Open, Phase, Energy

\* A late reading changes the row, but not the ledger: the record is made.
LEMMA LedgerGrows ==
    ASSUME IInv, NEW c \in Conn, MeterRow(c)
    PROVE  UNCHANGED Ledger!vars \/ \E s \in Sid : Ledger!Grow(s)
<1>1. PICK s \in Sid : /\ s = task[c].sid
                       /\ rows[s].status # "none"
                       /\ rows'[s].status = rows[s].status
                       /\ rows[s].energy <= rows'[s].energy
                       /\ \A r \in Sid \ {s} : rows'[r] = rows[r]
  BY MeterRowGrows
<1>a. UNCHANGED <<cdrs, due>>
  BY DEF MeterRow
<1>2. CASE rows'[s].energy = rows[s].energy
  <2>1. \A r \in Sid : /\ rows'[r].energy = rows[r].energy
                       /\ rows'[r].status = "none" <=> rows[r].status = "none"
    BY <1>1, <1>2
  <2> QED BY <1>a, <2>1, LedgerStutters
<1>3. CASE due[s] # None
  <2>1. Phase' = Phase /\ Energy' = Energy
    BY <1>1, <1>3, <1>a DEF Phase, Energy
  <2> QED BY <1>a, <2>1 DEF Ledger!vars, Phase, Energy
<1>4. CASE due[s] = None /\ rows'[s].energy # rows[s].energy
  <2>1. rows[s].energy \in Nat /\ rows'[s].energy \in Nat
    <3>1. rows[s] \in Row /\ rows'[s] \in Row
      BY TypeStep DEF IInv, TypeOK, Next, Step
    <3> QED BY <3>1 DEF Row
  <2>2. Phase[s] = "active" /\ Phase' = Phase
    BY <1>1, <1>4, <1>a DEF Phase
  <2>3. Energy' = [Energy EXCEPT ![s] = Energy'[s]] /\ Energy'[s] > Energy[s]
    BY <1>1, <1>4, <1>a, <2>1 DEF Energy
  <2> QED BY <1>a, <2>2, <2>3 DEF Ledger!Grow, Phase, Energy
<1> QED BY <1>2, <1>3, <1>4

\* The session closes when its record is made, with the energy of that moment.
LEMMA LedgerCloses ==
    ASSUME IInv, NEW c \in Conn, CdrRead(c)
    PROVE  \E S \in SUBSET Sid : Ledger!Close(S)
<1>1. PICK s \in Sid : /\ s = task[c].sid
                       /\ rows[s].status # "none"
                       /\ due[s] = None
  BY DEF CdrRead, At, IInv, Sound, HandlerInv, Relies
<1>2. rows[s].energy # None /\ due \in [Sid -> Nat \cup {None}]
  BY DEF IInv, TypeOK, Row
<1>3. due' = [due EXCEPT ![s] = rows[s].energy] /\ UNCHANGED <<rows, cdrs>>
  BY <1>1 DEF CdrRead
<1>4. Phase' = [r \in Sid |-> IF r \in {s} THEN "completed" ELSE Phase[r]]
  BY <1>2, <1>3 DEF Phase
<1>5. /\ Energy' = [r \in Sid |-> IF r \in {s} THEN rows[s].energy ELSE Energy[r]]
      /\ Energy'[s] = rows[s].energy
  BY <1>1, <1>2, <1>3 DEF Energy
<1>6. Phase[s] = "active"
  BY <1>1 DEF Phase
<1>7. rows[s].energy \in {Energy'[r] : r \in {s}}
  BY <1>5
<1>8. Ledger!Close({s})
  BY <1>3, <1>4, <1>5, <1>6, <1>7 DEF Ledger!Close, Phase, Energy
<1> QED BY <1>8

LEMMA LedgerBills ==
    ASSUME IInv, NEW c \in Conn, CdrInsert(c)
    PROVE  \E s \in Sid : Ledger!Bill(s)
<1>1. PICK s \in Sid : /\ s = task[c].sid
                       /\ due[s] \in Nat
                       /\ cdrs[s] = <<>>
                       /\ task[c].energy = due[s]
  BY DEF CdrInsert, At, IInv, Sound, HandlerInv, Relies
<1>2. Append(<<>>, due[s]) = <<due[s]>>
  OBVIOUS
<1>3. cdrs' = [cdrs EXCEPT ![s] = <<due[s]>>] /\ UNCHANGED <<rows, due>>
  BY <1>1, <1>2 DEF CdrInsert, IInv, TypeOK
<1>4. /\ Phase[s] = "completed" /\ Energy[s] = due[s]
      /\ Phase' = Phase /\ Energy' = Energy
  BY <1>1, <1>3 DEF Phase, Energy
<1> QED BY <1>1, <1>3, <1>4 DEF Ledger!Bill, Phase, Energy

LEMMA LedgerStep == IInv /\ [Next]_vars => [Ledger!Next]_(Ledger!vars)
<1> SUFFICES ASSUME IInv, [Next]_vars PROVE [Ledger!Next]_(Ledger!vars)
  OBVIOUS
<1>1. CASE UNCHANGED <<rows, cdrs, due>>
  BY <1>1, LedgerStutters
<1>2. ASSUME NEW c \in Conn, Complete(c) PROVE UNCHANGED Ledger!vars
  <2>1. ASSUME NEW s \in Sid
        PROVE  /\ rows'[s].energy = rows[s].energy
               /\ rows'[s].status = "none" <=> rows[s].status = "none"
    <3>1. CASE UNCHANGED rows
      BY <3>1
    <3>2. CASE /\ rows[task[c].sid].status = "active"
               /\ rows' = [rows EXCEPT ![task[c].sid].status = "completed"]
      BY <3>2 DEF IInv, TypeOK, Row
    <3> QED BY <1>2, <3>1, <3>2 DEF Complete
  <2> QED BY <1>2, <2>1, LedgerStutters DEF Complete
<1>3. ASSUME NEW c \in Conn, Step(c)
      PROVE  \/ UNCHANGED <<rows, cdrs, due>>
             \/ MeterRow(c) \/ Complete(c) \/ CdrRead(c) \/ CdrInsert(c)
  BY <1>3 DEF Step, StartLive, StartEvent, MeterLive, MeterEvent, StateLive, StopLive,
              CdrEvent, StopEvent
<1>4. ASSUME NEW c \in Conn, Message(c)
      PROVE  UNCHANGED <<rows, cdrs, due>> \/ \E t \in Txn : Started(c, t)
  BY <1>4 DEF Message, Updated, Ended, MeterValues
<1> QED BY <1>1, <1>2, <1>3, <1>4, LedgerOpens, LedgerGrows, LedgerCloses, LedgerBills
        DEF Next, Abort, vars, Ledger!Next

\* The 2.0.1 handlers keep the ledger's promises too, with a session closed when
\* its record is made: it is billed at most once, for the energy of that moment,
\* and no later reading reaches the bill (transaction.py:147-178).
THEOREM ImplementsLedger == Spec => LedgerSpec
<1>1. Init => Ledger!Init
  BY DEF Init, Ledger!Init
<1> QED BY <1>1, Invariance, LedgerStep, PTL DEF Spec, LedgerSpec, Ledger!Spec
=============================================================================
