-------------------------- MODULE PaidStartProofs --------------------------
(***************************************************************************)
(* Proofs about PaidStart: for any number of sessions, chargers, webhook   *)
(* requests, tasks, retries and faults, a RemoteStart goes out only for a  *)
(* session somebody paid, a paid session is never forgotten, and none is   *)
(* given up before it has failed as often as promised.                     *)
(***************************************************************************)
EXTENDS PaidStart, TLAPS

\* A webhook at work has a session and a status; it will start the session only
\* if it has set it to paid itself, or is about to.
HookOk(h) ==
    /\ hook[h].pc \notin {"new", "done"} =>
         hook[h].pub \in Pub /\ hook[h].status \in {"paid", "refused"}
    /\ hook[h].pc \in {"new", "done"} => hook[h].pub = None
    /\ hook[h].pc = "update" => hook[h].status = "paid"
    /\ hook[h].pc = "repeat" /\ hook[h].status = "paid" => charged[hook[h].pub]
    /\ hook[h].pc \in {"trigger", "queue"} => charged[hook[h].pub]

HookSound == \A h \in Hook : HookOk(h)

\* A session cannot be paid, told to start, started or queued without a webhook
\* that brought the payment.
PaidSound ==
    \A p \in Pub :
        /\ pay[p] = "paid" => charged[p]
        /\ told[p] # "no" => charged[p]
        /\ started[p] => told[p] = "sent"
        /\ queue[p] # None => charged[p]

\* The steps at which a task works on one key.
AtKey == {"drop", "fail", "send", "delete", "requeue"}

\* What a task has read stays true: the key was there, and its counter did not
\* exceed the failures of the session, which never become fewer.
TaskOk(t) ==
    /\ task[t].pc \in AtKey <=> task[t].pub # None
    /\ \A p \in task[t].keys : charged[p]
    /\ task[t].pub # None => charged[task[t].pub]
    /\ task[t].pub # None => task[t].retries <= fails[task[t].pub]
    /\ task[t].pc \in {"send", "requeue"} => task[t].retries < MaxRetries
    /\ task[t].pc = "requeue" => task[t].retries < fails[task[t].pub]
    /\ task[t].pc \in {"drop", "fail"} => fails[task[t].pub] = MaxRetries
    /\ task[t].pc = "delete" => told[task[t].pub] # "no"

TaskSound == \A t \in Task : TaskOk(t)

\* The counter of a key never exceeds the failures of its session.
QueueSound ==
    \A p \in Pub :
        /\ queue[p] # None => queue[p] <= fails[p]
        /\ dropped[p] = "failed" => fails[p] = MaxRetries

\* A paid session is in one of four places, or in the hands of a coroutine that
\* nothing can replace.
Held(p) == told[p] # "no" \/ queue[p] # None \/ dropped[p] # "no"

Accounted == \A p \in Pub : charged[p] => Held(p) \/ LastHope(p)

Sound == HookSound /\ PaidSound /\ TaskSound /\ QueueSound /\ Accounted

IInv == TypeOK /\ Sound

-----------------------------------------------------------------------------
(* Lemmas about the model's operators.                                     *)

HookRec == [pc     : {"new", "update", "repeat", "trigger", "queue", "done"},
            pub    : Pub \cup {None},
            status : {"none", "paid", "refused"}]

TaskRec == [pc      : {"idle", "keys", "get", "drop", "fail", "send", "delete", "requeue"},
            cp      : Charger \cup {None},
            keys    : SUBSET Pub,
            pub     : Pub \cup {None},
            retries : 0 .. MaxRetries]

\* The history only grows: payments, commands and failures stay what they are.
Grows ==
    \A p \in Pub : /\ charged[p] => charged'[p]
                   /\ told[p] # "no" => told'[p] # "no"
                   /\ fails[p] <= fails'[p]

LEMMA InitIInv == Init => IInv
<1> SUFFICES ASSUME Init PROVE IInv
  OBVIOUS
<1> USE DEF Init
<1>1. TypeOK
  <2>1. ReachTypeOK
    BY DEF ReachInit, ReachTypeOK
  <2>2. NewHook \in HookRec /\ IdleTask \in TaskRec
    BY PaidAssumption DEF NewHook, IdleTask, HookRec, TaskRec
  <2> QED BY <2>1, <2>2, PaidAssumption DEF TypeOK, HookRec, TaskRec
<1>2. HookSound /\ TaskSound
  BY DEF HookSound, HookOk, TaskSound, TaskOk, NewHook, IdleTask, AtKey
<1>3. PaidSound /\ QueueSound /\ Accounted
  BY DEF PaidSound, QueueSound, Accounted
<1> QED BY <1>1, <1>2, <1>3 DEF IInv, Sound

\* A step of webhook h moves its program counter and nothing else of it; at the
\* end its request is forgotten.
LEMMA HookMoves ==
    ASSUME TypeOK, NEW h \in Hook, NEW pc \in {"trigger", "queue", "done"}, HookTo(h, pc)
    PROVE  /\ hook' \in [Hook -> HookRec]
           /\ hook'[h].pc = pc
           /\ pc = "done" => hook'[h].pub = None
           /\ pc # "done" => hook'[h].pub = hook[h].pub /\ hook'[h].status = hook[h].status
           /\ \A g \in Hook \ {h} : hook'[g] = hook[g]
<1>1. hook \in [Hook -> HookRec]
  BY DEF TypeOK, HookRec
<1>2. /\ DoneHook \in HookRec /\ DoneHook.pc = "done" /\ DoneHook.pub = None
  BY DEF DoneHook, NewHook, HookRec
<1>3. /\ [hook[h] EXCEPT !.pc = pc] \in HookRec
      /\ [hook[h] EXCEPT !.pc = pc].pc = pc
      /\ [hook[h] EXCEPT !.pc = pc].pub = hook[h].pub
      /\ [hook[h] EXCEPT !.pc = pc].status = hook[h].status
  BY <1>1 DEF HookRec
<1>4. /\ hook' = [hook EXCEPT ![h] = IF pc = "done" THEN DoneHook
                                     ELSE [hook[h] EXCEPT !.pc = pc]]
  BY DEF HookTo
<1>5. CASE pc = "done"
  BY <1>1, <1>2, <1>4, <1>5
<1>6. CASE pc # "done"
  <2> DEFINE r == [hook[h] EXCEPT !.pc = pc]
  <2>1. hook' = [hook EXCEPT ![h] = r]
    BY <1>4, <1>6
  <2>2. /\ r \in HookRec /\ r.pc = pc /\ r.pub = hook[h].pub /\ r.status = hook[h].status
    BY <1>3
  <2> HIDE DEF r
  <2> QED BY <1>1, <1>6, <2>1, <2>2
<1> QED BY <1>5, <1>6

\* Task t is put into state r; the others stay where they are.
LEMMA TaskMoves ==
    ASSUME TypeOK, NEW t \in Task, NEW r \in TaskRec, task' = [task EXCEPT ![t] = r]
    PROVE  /\ task' \in [Task -> TaskRec]
           /\ task'[t] = r
           /\ \A u \in Task \ {t} : task'[u] = task[u]
BY DEF TypeOK, TaskRec

\* A task that is done with a key has none at hand, and no more left than before.
LEMMA NextKeyDoes ==
    ASSUME TypeOK, NEW t \in Task, NextKey(t)
    PROVE  /\ task' \in [Task -> TaskRec]
           /\ task'[t].pc \in {"idle", "get"}
           /\ task'[t].pub = None
           /\ task'[t].keys \subseteq task[t].keys
           /\ \A u \in Task \ {t} : task'[u] = task[u]
<1>1. task \in [Task -> TaskRec]
  BY DEF TypeOK, TaskRec
<1> DEFINE r == IF task[t].keys = {} THEN IdleTask
                ELSE [task[t] EXCEPT !.pc = "get", !.pub = None, !.retries = 0]
<1>2. /\ r \in TaskRec /\ r.pc \in {"idle", "get"} /\ r.pub = None
      /\ r.keys \subseteq task[t].keys
  <2>1. CASE task[t].keys = {}
    BY <2>1, PaidAssumption DEF IdleTask, TaskRec
  <2>2. CASE task[t].keys # {}
    <3> DEFINE e == [task[t] EXCEPT !.pc = "get", !.pub = None, !.retries = 0]
    <3>1. task[t] \in TaskRec
      BY <1>1
    <3>a. 0 \in 0 .. MaxRetries
      BY PaidAssumption
    <3>b. e \in TaskRec
      BY <3>1, <3>a DEF TaskRec
    <3>c. e.pc = "get" /\ e.pub = None /\ e.keys = task[t].keys
      BY <3>1 DEF TaskRec
    <3>2. /\ e \in TaskRec /\ e.pc = "get" /\ e.pub = None /\ e.keys = task[t].keys
      BY <3>b, <3>c
    <3>3. r = e
      BY <2>2
    <3> HIDE DEF e, r
    <3> QED BY <3>2, <3>3
  <2> QED BY <2>1, <2>2
<1>3. task' = [task EXCEPT ![t] = r]
  BY DEF NextKey
<1> HIDE DEF r
<1> QED BY <1>2, <1>3, TaskMoves

-----------------------------------------------------------------------------
(* What a step leaves of the parts of the invariant.                       *)

LEMMA HooksStay ==
    ASSUME TypeOK, HookSound, Grows, hook' = hook
    PROVE  HookSound'
<1> SUFFICES ASSUME NEW h \in Hook PROVE HookOk(h)'
  BY DEF HookSound
<1>1. HookOk(h)
  BY DEF HookSound
<1>2. hook[h].pc \in {"new", "update", "repeat", "trigger", "queue", "done"}
  BY DEF TypeOK
<1> QED BY <1>1, <1>2 DEF HookOk, Grows

LEMMA HookAlone ==
    ASSUME TypeOK, HookSound, Grows, NEW h \in Hook, HookOk(h)',
           \A g \in Hook \ {h} : hook'[g] = hook[g]
    PROVE  HookSound'
<1> SUFFICES ASSUME NEW g \in Hook, g # h PROVE HookOk(g)'
  BY DEF HookSound
<1>1. HookOk(g) /\ hook'[g] = hook[g]
  BY DEF HookSound
<1>2. hook[g].pc \in {"new", "update", "repeat", "trigger", "queue", "done"}
  BY DEF TypeOK
<1> QED BY <1>1, <1>2 DEF HookOk, Grows

LEMMA TaskFrame ==
    ASSUME TypeOK, TypeOK', Grows, NEW t \in Task, TaskOk(t), task'[t] = task[t]
    PROVE  TaskOk(t)'
<1>1. /\ task[t].pub \in Pub \cup {None} /\ task[t].keys \subseteq Pub
      /\ task[t].retries \in Nat
  BY PaidAssumption DEF TypeOK
<1>2. \A p \in Pub : fails[p] \in 0 .. MaxRetries /\ fails'[p] \in 0 .. MaxRetries
  BY DEF TypeOK
<1>3. /\ task'[t].pc \in AtKey <=> task'[t].pub # None
      /\ \A p \in task'[t].keys : charged'[p]
      /\ task'[t].pub # None => charged'[task'[t].pub]
      /\ task'[t].pc = "delete" => told'[task'[t].pub] # "no"
  BY <1>1 DEF TaskOk, Grows, AtKey
<1>4. /\ task'[t].pub # None => task'[t].retries <= fails'[task'[t].pub]
      /\ task'[t].pc \in {"send", "requeue"} => task'[t].retries < MaxRetries
      /\ task'[t].pc = "requeue" => task'[t].retries < fails'[task'[t].pub]
      /\ task'[t].pc \in {"drop", "fail"} => fails'[task'[t].pub] = MaxRetries
  BY <1>1, <1>2, PaidAssumption DEF TaskOk, Grows, AtKey
<1> QED BY <1>3, <1>4 DEF TaskOk, AtKey

LEMMA TasksStay ==
    ASSUME TypeOK, TypeOK', TaskSound, Grows, task' = task
    PROVE  TaskSound'
BY TaskFrame DEF TaskSound

LEMMA TaskAlone ==
    ASSUME TypeOK, TypeOK', TaskSound, Grows, NEW t \in Task, TaskOk(t)',
           \A u \in Task \ {t} : task'[u] = task[u]
    PROVE  TaskSound'
<1>1. ASSUME NEW u \in Task, u # t PROVE TaskOk(u)'
  BY <1>1, TaskFrame DEF TaskSound
<1> QED BY <1>1 DEF TaskSound

\* A session stays accounted for if it stays where it is and in the same hands.
LEMMA AccountedStays ==
    ASSUME Accounted, NEW p \in Pub,
           charged'[p] => charged[p],
           Held(p) => Held(p)',
           LastHope(p) => LastHope(p)' \/ Held(p)'
    PROVE  charged'[p] => Held(p)' \/ LastHope(p)'
BY DEF Accounted

\* Hands that do not move do not let go.
LEMMA HopeStays ==
    ASSUME NEW p \in Pub,
           \A h \in Hook : hook[h].pub = p /\ hook[h].pc \in {"trigger", "queue"} =>
                           hook'[h] = hook[h],
           \A t \in Task : task[t].pub = p /\ task[t].pc = "fail" => task'[t] = task[t],
           LastHope(p)
    PROVE  LastHope(p)'
BY DEF LastHope

-----------------------------------------------------------------------------
(* The steps.                                                              *)

\* Sockets come and go; nothing here depends on them.
LEMMA LinkKeeps ==
    ASSUME IInv, NEW a \in Charger, Link(a)
    PROVE  IInv'
<1>1. ReachTypeOK'
  BY DEF IInv, TypeOK, Link, Arrive, Lose, Forget, ReachTypeOK
<1>2. UNCHANGED payVars
  BY DEF Link
<1>3. TypeOK'
  BY <1>1, <1>2 DEF IInv, TypeOK, payVars
<1>4. Sound'
  BY <1>2 DEF payVars, IInv, Sound, HookSound, HookOk, PaidSound, TaskSound, TaskOk, AtKey,
              QueueSound, Accounted, Held, LastHope
<1> QED BY <1>3, <1>4 DEF IInv

LEMMA HeartbeatKeeps ==
    ASSUME IInv, NEW a \in Charger, Heartbeat(a)
    PROVE  IInv'
<1>a. TypeOK /\ Sound
  BY DEF IInv
<1>1. PICK t \in Task : /\ task[t].pc = "idle"
                        /\ task' = [task EXCEPT ![t].pc = "keys", ![t].cp = a]
  <2>1. \E t \in Task : task[t].pc = "idle"
    BY DEF Heartbeat
  <2> DEFINE c == CHOOSE x \in Task : task[x].pc = "idle"
  <2>2. c \in Task /\ task[c].pc = "idle"
    BY <2>1
  <2>3. task' = [task EXCEPT ![c].pc = "keys", ![c].cp = a]
    BY DEF Heartbeat
  <2> HIDE DEF c
  <2> QED BY <2>2, <2>3
<1> DEFINE r == [task[t] EXCEPT !.pc = "keys", !.cp = a]
<1>2. task[t] \in TaskRec
  BY <1>a DEF TypeOK, TaskRec
<1>3. /\ r \in TaskRec /\ r.pc = "keys" /\ r.pub = task[t].pub /\ r.keys = task[t].keys
  BY <1>2 DEF TaskRec
<1>4. task' = [task EXCEPT ![t] = r]
  BY <1>1, <1>a DEF TypeOK
<1> HIDE DEF r
<1>5. /\ task' \in [Task -> TaskRec] /\ task'[t] = r
      /\ \A u \in Task \ {t} : task'[u] = task[u]
  BY <1>3, <1>4, <1>a, TaskMoves
<1>6. UNCHANGED <<reachVars, pay, started, queue, hook, told, charged, fails, dropped, faults>>
  BY DEF Heartbeat
<1>7. TypeOK'
  BY <1>5, <1>6, <1>a DEF TypeOK, TaskRec, ReachTypeOK, reachVars
<1>8. Grows
  BY <1>6, <1>a DEF Grows, TypeOK
<1>9. TaskOk(t)'
  BY <1>1, <1>3, <1>5, <1>6, <1>a DEF Sound, TaskSound, TaskOk, AtKey
<1>10. TaskSound'
  BY <1>5, <1>7, <1>8, <1>9, <1>a, TaskAlone DEF Sound
<1>11. HookSound' /\ PaidSound' /\ QueueSound'
  BY <1>6, <1>8, <1>a, HooksStay DEF Sound, PaidSound, QueueSound
<1>12. Accounted'
  <2> SUFFICES ASSUME NEW p \in Pub PROVE charged'[p] => Held(p)' \/ LastHope(p)'
    BY DEF Accounted
  <2>1. Held(p) => Held(p)'
    BY <1>6 DEF Held
  <2>2. LastHope(p) => LastHope(p)'
    BY <1>1, <1>5, <1>6, HopeStays
  <2> QED BY <1>6, <1>a, <2>1, <2>2, AccountedStays DEF Sound
<1> QED BY <1>7, <1>10, <1>11, <1>12 DEF IInv, Sound

\* What the driver and the charger do; only the start at the charger needs a
\* reason, the RemoteStart it got.
LEMMA AppKeeps ==
    ASSUME IInv, NEW q \in Pub, App(q)
    PROVE  IInv'
<1>a. TypeOK /\ Sound
  BY DEF IInv
<1>1. /\ UNCHANGED <<reachVars, hook, task, told, charged, fails, faults>>
      /\ \A p \in Pub : pay'[p] = "paid" => pay[p] = "paid"
      /\ \A p \in Pub : started'[p] => started[p] \/ told[p] = "sent"
      /\ \A p \in Pub : queue'[p] # None => queue'[p] = queue[p]
      /\ \A p \in Pub : dropped[p] # "no" => dropped'[p] = dropped[p]
      /\ \A p \in Pub : queue[p] # None /\ queue'[p] = None => dropped'[p] # "no"
      /\ \A p \in Pub : dropped'[p] = "failed" => dropped[p] = "failed"
      /\ pay' \in [Pub -> {"none", "pending", "paid", "refused", "cancelled", "failed"}]
      /\ started' \in [Pub -> BOOLEAN]
      /\ queue' \in [Pub -> 0 .. MaxRetries \cup {None}]
      /\ dropped' \in [Pub -> {"no", "expired", "failed", "cut"}]
  <2>1. CASE Create(q)
    BY <2>1, <1>a DEF Create, TypeOK
  <2>2. CASE Cancel(q)
    BY <2>2, <1>a DEF Cancel, TypeOK
  <2>3. CASE StartLinked(q)
    BY <2>3, <1>a DEF StartLinked, TypeOK
  <2>4. CASE Expire(q)
    BY <2>4, <1>a DEF Expire, TypeOK
  <2> QED BY <2>1, <2>2, <2>3, <2>4 DEF App
<1>2. TypeOK'
  BY <1>1, <1>a DEF TypeOK, ReachTypeOK, reachVars
<1>3. Grows
  BY <1>1, <1>a DEF Grows, TypeOK
<1>4. HookSound' /\ TaskSound'
  BY <1>1, <1>2, <1>3, <1>a, HooksStay, TasksStay DEF Sound
<1>5. PaidSound'
  BY <1>1, <1>a DEF Sound, PaidSound
<1>6. QueueSound'
  BY <1>1, <1>a DEF Sound, QueueSound
<1>7. Accounted'
  BY <1>1, <1>a DEF Sound, Accounted, Held, LastHope
<1> QED BY <1>2, <1>4, <1>5, <1>6, <1>7 DEF IInv, Sound

LEMMA HookReadKeeps ==
    ASSUME IInv, NEW p \in Pub, NEW status \in {"paid", "refused"}, HookRead(p, status)
    PROVE  IInv'
<1>a. TypeOK /\ Sound
  BY DEF IInv
<1> DEFINE r == [pc     |-> IF status = "paid" /\ pay[p] # "paid" THEN "update" ELSE "repeat",
                 pub    |-> p,
                 status |-> status]
<1>1. PICK h \in Hook : hook[h].pc = "new" /\ hook' = [hook EXCEPT ![h] = r]
  <2>1. \E h \in Hook : hook[h].pc = "new"
    BY DEF HookRead
  <2> DEFINE c == CHOOSE h \in Hook : hook[h].pc = "new"
  <2>2. c \in Hook /\ hook[c].pc = "new"
    BY <2>1
  <2>3. hook' = [hook EXCEPT ![c] = r]
    BY DEF HookRead
  <2> HIDE DEF c, r
  <2> QED BY <2>2, <2>3
<1>2. /\ r \in HookRec /\ r.pub = p /\ r.status = status
      /\ r.pc \in {"update", "repeat"}
      /\ r.pc = "update" => status = "paid"
      /\ r.pc = "repeat" /\ status = "paid" => pay[p] = "paid"
  BY DEF HookRec
<1> HIDE DEF r
<1>3. UNCHANGED <<reachVars, pay, started, queue, task, told, charged, fails, dropped, faults>>
  BY DEF HookRead
<1>4. /\ hook' \in [Hook -> HookRec] /\ hook'[h] = r
      /\ \A g \in Hook \ {h} : hook'[g] = hook[g]
  BY <1>1, <1>2, <1>a DEF TypeOK, HookRec
<1>5. TypeOK'
  BY <1>3, <1>4, <1>a DEF TypeOK, HookRec, ReachTypeOK, reachVars
<1>6. Grows
  BY <1>3, <1>a DEF Grows, TypeOK
<1>7. HookOk(h)'
  BY <1>2, <1>3, <1>4, <1>a DEF Sound, PaidSound, HookOk
<1>8. HookSound' /\ TaskSound'
  BY <1>3, <1>4, <1>5, <1>6, <1>7, <1>a, HookAlone, TasksStay DEF Sound
<1>9. PaidSound' /\ QueueSound'
  BY <1>3, <1>a DEF Sound, PaidSound, QueueSound
<1>10. Accounted'
  <2> SUFFICES ASSUME NEW x \in Pub PROVE charged'[x] => Held(x)' \/ LastHope(x)'
    BY DEF Accounted
  <2>1. Held(x) => Held(x)'
    BY <1>3 DEF Held
  <2>2. LastHope(x) => LastHope(x)'
    BY <1>1, <1>3, <1>4, HopeStays
  <2> QED BY <1>3, <1>a, <2>1, <2>2, AccountedStays DEF Sound
<1> QED BY <1>5, <1>8, <1>9, <1>10 DEF IInv, Sound

\* The webhook that sets the session to paid takes it into its hands.
LEMMA HookUpdateKeeps ==
    ASSUME IInv, NEW h \in Hook, HookUpdate(h)
    PROVE  IInv'
<1>a. TypeOK /\ Sound
  BY DEF IInv
<1> DEFINE p == hook[h].pub
           s == hook[h].status
           pc == IF hook[h].pc = "update" THEN "trigger" ELSE "done"
<1>1. /\ hook[h].pc \in {"update", "repeat"}
      /\ pay' = [pay EXCEPT ![p] = s]
      /\ charged' = [charged EXCEPT ![p] = @ \/ s = "paid"]
      /\ HookTo(h, pc) /\ pc \in {"trigger", "queue", "done"}
      /\ UNCHANGED <<reachVars, started, queue, task, told, fails, dropped, faults>>
  BY DEF HookUpdate
<1>2. /\ p \in Pub /\ s \in {"paid", "refused"}
      /\ hook[h].pc = "update" => pc = "trigger" /\ s = "paid"
      /\ hook[h].pc = "repeat" => pc = "done" /\ (s = "paid" => charged[p])
  BY <1>1, <1>a DEF Sound, HookSound, HookOk
<1>3. /\ hook' \in [Hook -> HookRec]
      /\ hook'[h].pc = pc
      /\ pc = "done" => hook'[h].pub = None
      /\ pc # "done" => hook'[h].pub = p /\ hook'[h].status = s
      /\ \A g \in Hook \ {h} : hook'[g] = hook[g]
  BY <1>1, <1>a, HookMoves
<1> HIDE DEF p, s, pc
<1>4. /\ charged' \in [Pub -> BOOLEAN]
      /\ \A x \in Pub : x # p => charged'[x] = charged[x]
      /\ charged[p] => charged'[p]
      /\ s = "paid" => charged'[p]
      /\ s # "paid" => charged'[p] = charged[p]
      /\ \A x \in Pub : charged[x] => charged'[x]
  BY <1>1, <1>2, <1>a DEF TypeOK
<1>5. /\ pay' \in [Pub -> {"none", "pending", "paid", "refused", "cancelled", "failed"}]
      /\ pay'[p] = s /\ \A x \in Pub : x # p => pay'[x] = pay[x]
  BY <1>1, <1>2, <1>a DEF TypeOK
<1>6. TypeOK'
  BY <1>1, <1>3, <1>4, <1>5, <1>a DEF TypeOK, HookRec, ReachTypeOK, reachVars
<1>7. Grows
  <2>1. \A x \in Pub : fails[x] <= fails'[x]
    BY <1>1, <1>a DEF TypeOK
  <2> QED BY <1>1, <1>4, <2>1 DEF Grows
<1>8. HookOk(h)'
  BY <1>1, <1>2, <1>3, <1>4 DEF HookOk
<1>9. HookSound' /\ TaskSound'
  BY <1>1, <1>3, <1>6, <1>7, <1>8, <1>a, HookAlone, TasksStay DEF Sound
<1>10. PaidSound'
  <2> SUFFICES ASSUME NEW x \in Pub
               PROVE  /\ pay'[x] = "paid" => charged'[x]
                      /\ told'[x] # "no" => charged'[x]
                      /\ started'[x] => told'[x] = "sent"
                      /\ queue'[x] # None => charged'[x]
    BY DEF PaidSound
  <2>1. pay'[x] = "paid" => charged'[x]
    BY <1>4, <1>5, <1>a DEF Sound, PaidSound
  <2> QED BY <1>1, <1>4, <1>a, <2>1 DEF Sound, PaidSound
<1>11. QueueSound'
  BY <1>1, <1>a DEF Sound, QueueSound
<1>12. Accounted'
  <2> SUFFICES ASSUME NEW x \in Pub PROVE charged'[x] => Held(x)' \/ LastHope(x)'
    BY DEF Accounted
  <2>1. Held(x) => Held(x)'
    BY <1>1 DEF Held
  <2>2. LastHope(x) => LastHope(x)'
    BY <1>1, <1>3, HopeStays
  <2>3. CASE x = p /\ hook[h].pc = "update"
    BY <1>2, <1>3, <2>3 DEF LastHope
  <2>4. CASE ~(x = p /\ hook[h].pc = "update")
    <3>1. charged'[x] => charged[x]
      BY <1>1, <1>2, <1>4, <2>4
    <3> QED BY <1>a, <2>1, <2>2, <3>1, AccountedStays DEF Sound
  <2> QED BY <2>3, <2>4
<1> QED BY <1>6, <1>9, <1>10, <1>11, <1>12 DEF IInv, Sound

\* What a command does, and that a RemoteStart once told is never untold.
LEMMA ToldDoes ==
    ASSUME TypeOK, NEW p \in Pub, NEW how \in SendTo(CpOf[p]), how # "unreachable", Told(p, how)
    PROVE  /\ told' \in [Pub -> {"no", "lost", "sent"}]
           /\ told'[p] # "no" /\ (told[p] = "sent" => told'[p] = "sent")
           /\ \A x \in Pub : x # p => told'[x] = told[x]
<1>1. how \in {"sent", "lost"}
  BY DEF SendTo
<1> QED BY <1>1 DEF Told, TypeOK

LEMMA HookTriggerKeeps ==
    ASSUME IInv, NEW h \in Hook, HookTrigger(h)
    PROVE  IInv'
<1>a. TypeOK /\ Sound
  BY DEF IInv
<1> DEFINE p == hook[h].pub
<1>1. /\ hook[h].pc = "trigger"
      /\ UNCHANGED <<reachVars, pay, started, queue, task, charged, fails, dropped, faults>>
  BY DEF HookTrigger
<1>2. p \in Pub /\ charged[p]
  BY <1>1, <1>a DEF Sound, HookSound, HookOk
<1>3. PICK how \in SendTo(CpOf[p]) :
        IF how = "unreachable"
        THEN HookTo(h, "queue") /\ UNCHANGED told
        ELSE HookTo(h, "done") /\ Told(p, how)
  BY DEF HookTrigger
<1>4. /\ hook' \in [Hook -> HookRec]
      /\ hook'[h].pc \in {"queue", "done"}
      /\ hook'[h].pc = "done" => hook'[h].pub = None
      /\ hook'[h].pc # "done" => hook'[h].pub = p /\ hook'[h].status = hook[h].status
      /\ \A g \in Hook \ {h} : hook'[g] = hook[g]
  <2>1. CASE how = "unreachable"
    BY <1>3, <1>a, <2>1, HookMoves
  <2>2. CASE how # "unreachable"
    BY <1>3, <1>a, <2>2, HookMoves
  <2> QED BY <2>1, <2>2
<1>5. /\ told' \in [Pub -> {"no", "lost", "sent"}]
      /\ told[p] = "sent" => told'[p] = "sent"
      /\ told[p] # "no" => told'[p] # "no"
      /\ \A x \in Pub : x # p => told'[x] = told[x]
      /\ told'[p] # "no" \/ hook'[h].pc = "queue"
  <2>1. CASE how = "unreachable"
    BY <1>3, <1>a, <2>1, HookMoves DEF TypeOK
  <2>2. CASE how # "unreachable"
    BY <1>2, <1>3, <1>a, <2>2, ToldDoes
  <2> QED BY <2>1, <2>2
<1>p. p' = hook'[h].pub
  OBVIOUS
<1> HIDE DEF p
<1>6. TypeOK'
  BY <1>1, <1>4, <1>5, <1>a DEF TypeOK, HookRec, ReachTypeOK, reachVars
<1>7. Grows
  <2>1. \A x \in Pub : fails[x] <= fails'[x]
    BY <1>1, <1>a DEF TypeOK
  <2> QED BY <1>1, <1>2, <1>5, <2>1 DEF Grows
<1>8. HookOk(h)'
  <2>1. hook[h].status \in {"paid", "refused"}
    BY <1>1, <1>a DEF Sound, HookSound, HookOk
  <2> QED BY <1>1, <1>2, <1>4, <2>1 DEF HookOk
<1>9. HookSound' /\ TaskSound'
  BY <1>1, <1>4, <1>6, <1>7, <1>8, <1>a, HookAlone, TasksStay DEF Sound
<1>10. PaidSound' /\ QueueSound'
  BY <1>1, <1>2, <1>5, <1>a DEF Sound, PaidSound, QueueSound
<1>11. Accounted'
  <2> SUFFICES ASSUME NEW x \in Pub PROVE charged'[x] => Held(x)' \/ LastHope(x)'
    BY DEF Accounted
  <2>1. Held(x) => Held(x)'
    BY <1>1, <1>2, <1>5 DEF Held
  <2>2. CASE x = p
    BY <1>4, <1>5, <2>2 DEF Held, LastHope
  <2>3. CASE x # p
    <3>1. hook[h].pub # x
      BY <2>3 DEF p
    <3>2. LastHope(x) => LastHope(x)'
      BY <1>1, <1>4, <3>1, HopeStays
    <3> QED BY <1>1, <1>a, <2>1, <3>2, AccountedStays DEF Sound
  <2> QED BY <2>2, <2>3
<1> QED BY <1>6, <1>9, <1>10, <1>11 DEF IInv, Sound

\* The webhook ends by queueing the session, or by a fault, which is on record if
\* nobody else would start it.
LEMMA HookEndKeeps ==
    ASSUME IInv, NEW h \in Hook, HookQueue(h) \/ AbortHook(h)
    PROVE  IInv'
<1>a. TypeOK /\ Sound
  BY DEF IInv
<1>1. /\ hook[h].pc \in {"update", "repeat", "trigger", "queue"}
      /\ HookTo(h, "done")
      /\ UNCHANGED <<reachVars, pay, started, task, told, charged, fails>>
  BY <1>a DEF HookQueue, AbortHook, TypeOK
<1> DEFINE p == hook[h].pub
<1>2. p \in Pub /\ (hook[h].pc \in {"trigger", "queue"} => charged[p])
  BY <1>1, <1>a DEF Sound, HookSound, HookOk
<1>3. /\ hook' \in [Hook -> HookRec] /\ hook'[h].pc = "done" /\ hook'[h].pub = None
      /\ \A g \in Hook \ {h} : hook'[g] = hook[g]
  BY <1>1, <1>a, HookMoves
<1>4. /\ queue' \in [Pub -> 0 .. MaxRetries \cup {None}]
      /\ \A x \in Pub : queue'[x] = queue[x] \/ (x = p /\ queue'[x] = 0 /\ charged[x])
      /\ dropped' \in [Pub -> {"no", "expired", "failed", "cut"}]
      /\ \A x \in Pub : dropped'[x] = dropped[x] \/ (dropped[x] = "no" /\ dropped'[x] = "cut")
      /\ hook[h].pc \in {"trigger", "queue"} => queue'[p] # None \/ dropped'[p] # "no"
      /\ faults' \in 0 .. MaxFaults
  <2>1. CASE HookQueue(h)
    BY <1>2, <1>a, <2>1, PaidAssumption DEF HookQueue, TypeOK
  <2>2. CASE AbortHook(h)
    <3>1. faults' \in 0 .. MaxFaults /\ queue' = queue
      BY <1>a, <2>2, PaidAssumption DEF AbortHook, Fault, TypeOK
    <3>2. Cut(IF hook[h].pc \in {"trigger", "queue"} THEN {p} ELSE {})
      BY <2>2 DEF AbortHook
    <3> QED BY <1>2, <1>a, <3>1, <3>2 DEF Cut, TypeOK
  <2> QED BY <2>1, <2>2
<1> HIDE DEF p
<1>5. TypeOK'
  BY <1>1, <1>3, <1>4, <1>a DEF TypeOK, HookRec, ReachTypeOK, reachVars
<1>6. Grows
  BY <1>1, <1>a DEF Grows, TypeOK
<1>7. HookOk(h)'
  BY <1>3 DEF HookOk
<1>8. HookSound' /\ TaskSound'
  BY <1>1, <1>3, <1>5, <1>6, <1>7, <1>a, HookAlone, TasksStay DEF Sound
<1>9. PaidSound'
  BY <1>1, <1>4, <1>a DEF Sound, PaidSound
<1>10. QueueSound'
  <2>1. \A x \in Pub : fails[x] \in 0 .. MaxRetries
    BY <1>a DEF TypeOK
  <2> QED BY <1>1, <1>4, <1>a, <2>1, PaidAssumption DEF Sound, QueueSound
<1>11. Accounted'
  <2> SUFFICES ASSUME NEW x \in Pub PROVE charged'[x] => Held(x)' \/ LastHope(x)'
    BY DEF Accounted
  <2>1. Held(x) => Held(x)'
    BY <1>1, <1>4, PaidAssumption DEF Held
  <2>2. CASE x = p /\ hook[h].pc \in {"trigger", "queue"}
    BY <1>4, <2>2 DEF Held
  <2>3. CASE ~(x = p /\ hook[h].pc \in {"trigger", "queue"})
    <3>1. ~(hook[h].pub = x /\ hook[h].pc \in {"trigger", "queue"})
      BY <2>3 DEF p
    <3>2. LastHope(x) => LastHope(x)'
      BY <1>1, <1>3, <3>1, HopeStays
    <3> QED BY <1>1, <1>a, <2>1, <3>2, AccountedStays DEF Sound
  <2> QED BY <2>2, <2>3
<1> QED BY <1>5, <1>8, <1>9, <1>10, <1>11 DEF IInv, Sound

\* The task takes a snapshot of the keys, each of a session that was paid.
LEMMA TaskKeysKeeps ==
    ASSUME IInv, NEW t \in Task, TaskKeys(t)
    PROVE  IInv'
<1>a. TypeOK /\ Sound
  BY DEF IInv
<1> DEFINE keys == {p \in Pub : CpOf[p] = task[t].cp /\ queue[p] # None}
           r == IF keys = {} THEN IdleTask ELSE [task[t] EXCEPT !.pc = "get", !.keys = keys]
<1>1. /\ task[t].pc = "keys" /\ task' = [task EXCEPT ![t] = r]
      /\ UNCHANGED <<reachVars, pay, started, queue, hook, told, charged, fails, dropped, faults>>
  BY DEF TaskKeys
<1>2. /\ keys \subseteq Pub /\ \A p \in keys : charged[p]
  BY <1>a DEF Sound, PaidSound
<1>3. task[t] \in TaskRec /\ task[t].pub = None
  BY <1>1, <1>a DEF TypeOK, TaskRec, Sound, TaskSound, TaskOk, AtKey
<1>4. /\ r \in TaskRec /\ r.pc \in {"idle", "get"} /\ r.pub = None
      /\ \A p \in r.keys : charged[p]
  <2> HIDE DEF keys
  <2>1. CASE keys = {}
    BY <2>1, PaidAssumption DEF IdleTask, TaskRec
  <2>2. CASE keys # {}
    <3> DEFINE e == [task[t] EXCEPT !.pc = "get", !.keys = keys]
    <3>1. e \in TaskRec /\ e.pc = "get" /\ e.pub = None /\ e.keys = keys
      BY <1>2, <1>3 DEF TaskRec
    <3>2. r = e
      BY <2>2
    <3> HIDE DEF e, r
    <3> QED BY <1>2, <3>1, <3>2
  <2> QED BY <2>1, <2>2
<1> HIDE DEF keys, r
<1>5. /\ task' \in [Task -> TaskRec] /\ task'[t] = r
      /\ \A u \in Task \ {t} : task'[u] = task[u]
  BY <1>1, <1>4, <1>a, TaskMoves
<1>6. TypeOK'
  BY <1>1, <1>5, <1>a DEF TypeOK, TaskRec, ReachTypeOK, reachVars
<1>7. Grows
  BY <1>1, <1>a DEF Grows, TypeOK
<1>8. TaskOk(t)'
  BY <1>1, <1>4, <1>5 DEF TaskOk, AtKey
<1>9. HookSound' /\ TaskSound' /\ PaidSound' /\ QueueSound'
  BY <1>1, <1>5, <1>6, <1>7, <1>8, <1>a, HooksStay, TaskAlone DEF Sound, PaidSound, QueueSound
<1>10. Accounted'
  <2> SUFFICES ASSUME NEW x \in Pub PROVE charged'[x] => Held(x)' \/ LastHope(x)'
    BY DEF Accounted
  <2>1. Held(x) => Held(x)'
    BY <1>1 DEF Held
  <2>2. LastHope(x) => LastHope(x)'
    BY <1>1, <1>5, HopeStays
  <2> QED BY <1>1, <1>a, <2>1, <2>2, AccountedStays DEF Sound
<1> QED BY <1>6, <1>9, <1>10 DEF IInv, Sound

\* The counter a task finds is one of the key, and so at most the failures of the
\* session; if it is used up, these are as many as promised.
LEMMA TaskGetKeeps ==
    ASSUME IInv, NEW t \in Task, TaskGet(t)
    PROVE  IInv'
<1>a. TypeOK /\ Sound
  BY DEF IInv
<1>1. /\ task[t].pc = "get"
      /\ UNCHANGED <<reachVars, pay, started, queue, hook, told, charged, fails, dropped, faults>>
  BY DEF TaskGet, TaskGetUpTo
<1>2. /\ task[t] \in TaskRec /\ task[t].pub = None
      /\ \A p \in task[t].keys : charged[p]
  BY <1>1, <1>a DEF TypeOK, TaskRec, Sound, TaskSound, TaskOk, AtKey
<1>3. PICK p \in task[t].keys :
        LET left == task[t].keys \ {p}
        IN  task' = [task EXCEPT ![t] =
              IF queue[p] = None
              THEN IF left = {} THEN IdleTask ELSE [task[t] EXCEPT !.keys = left]
              ELSE [task[t] EXCEPT !.keys = left, !.pub = p, !.retries = queue[p],
                             !.pc = IF queue[p] >= MaxRetries THEN "drop" ELSE "send"]]
  BY DEF TaskGet, TaskGetUpTo
<1> DEFINE left == task[t].keys \ {p}
<1>4. p \in Pub /\ charged[p] /\ left \subseteq Pub /\ \A x \in left : charged[x]
  BY <1>2 DEF TaskRec
<1>5. /\ queue[p] \in 0 .. MaxRetries \cup {None} /\ fails[p] \in 0 .. MaxRetries
      /\ queue[p] # None => queue[p] <= fails[p]
  BY <1>4, <1>a DEF TypeOK, Sound, QueueSound
<1>6. ASSUME NEW r \in TaskRec, task' = [task EXCEPT ![t] = r],
             r.pc \in AtKey <=> r.pub # None,
             r.pc \in {"idle", "get", "drop", "send"},
             \A x \in r.keys : charged[x],
             r.pub # None => r.pub = p /\ r.retries <= fails[p],
             r.pc = "send" => r.retries < MaxRetries,
             r.pc = "drop" => fails[p] = MaxRetries
      PROVE  IInv'
  <2>1. /\ task' \in [Task -> TaskRec] /\ task'[t] = r
        /\ \A u \in Task \ {t} : task'[u] = task[u]
    BY <1>6, <1>a, TaskMoves
  <2>2. TypeOK'
    BY <1>1, <2>1, <1>a DEF TypeOK, TaskRec, ReachTypeOK, reachVars
  <2>3. Grows
    BY <1>1, <1>a DEF Grows, TypeOK
  <2>4. TaskOk(t)'
    BY <1>1, <1>4, <1>6, <2>1 DEF TaskOk, AtKey
  <2>5. HookSound' /\ TaskSound' /\ PaidSound' /\ QueueSound'
    BY <1>1, <2>1, <2>2, <2>3, <2>4, <1>a, HooksStay, TaskAlone
       DEF Sound, PaidSound, QueueSound
  <2>6. Accounted'
    <3> SUFFICES ASSUME NEW x \in Pub PROVE charged'[x] => Held(x)' \/ LastHope(x)'
      BY DEF Accounted
    <3>1. Held(x) => Held(x)'
      BY <1>1 DEF Held
    <3>2. LastHope(x) => LastHope(x)'
      BY <1>1, <2>1, HopeStays
    <3> QED BY <1>1, <1>a, <3>1, <3>2, AccountedStays DEF Sound
  <2> QED BY <2>2, <2>5, <2>6 DEF IInv, Sound
<1>7. CASE queue[p] = None /\ left = {}
  <2>1. task' = [task EXCEPT ![t] = IdleTask]
    BY <1>3, <1>7
  <2>2. /\ IdleTask \in TaskRec /\ IdleTask.pc = "idle" /\ IdleTask.pub = None
        /\ IdleTask.keys = {}
    BY PaidAssumption DEF IdleTask, TaskRec
  <2> QED BY <1>6, <2>1, <2>2 DEF AtKey
<1>8. CASE queue[p] = None /\ left # {}
  <2> DEFINE r == [task[t] EXCEPT !.keys = left]
  <2>1. task' = [task EXCEPT ![t] = r]
    BY <1>3, <1>8
  <2>2. r \in TaskRec /\ r.pc = "get" /\ r.pub = None /\ r.keys = left
    BY <1>1, <1>2, <1>4 DEF TaskRec
  <2> HIDE DEF r, left
  <2> QED BY <1>4, <1>6, <2>1, <2>2 DEF AtKey
<1>9. CASE queue[p] # None
  <2> DEFINE pc == IF queue[p] >= MaxRetries THEN "drop" ELSE "send"
             n == queue[p]
  <2>1. /\ pc \in {"drop", "send"} /\ n \in 0 .. MaxRetries /\ n <= fails[p]
        /\ pc = "send" => n < MaxRetries
        /\ pc = "drop" => fails[p] = MaxRetries
    BY <1>5, <1>9, PaidAssumption
  <2> DEFINE r == [task[t] EXCEPT !.keys = left, !.pub = p, !.retries = n, !.pc = pc]
  <2>2. task' = [task EXCEPT ![t] = r]
    BY <1>3, <1>9
  <2> HIDE DEF pc, n, left
  <2>3. r \in TaskRec
    BY <1>2, <1>4, <2>1 DEF TaskRec
  <2>4. r.pc = pc /\ r.pub = p /\ r.keys = left /\ r.retries = n
    BY <1>2 DEF TaskRec
  <2>5. p # None
    BY <1>4, PaidAssumption
  <2> HIDE DEF r
  <2> QED BY <1>4, <1>6, <2>1, <2>2, <2>3, <2>4, <2>5 DEF AtKey
<1> QED BY <1>7, <1>8, <1>9

\* A key is deleted only when its session is in safe hands: the task's own, until
\* the session is marked as failed, or those of the charger.
LEMMA TaskDropKeeps ==
    ASSUME IInv, NEW t \in Task, TaskDrop(t)
    PROVE  IInv'
<1>a. TypeOK /\ Sound
  BY DEF IInv
<1> DEFINE p == task[t].pub
           r == [task[t] EXCEPT !.pc = "fail"]
<1>1. /\ task[t].pc = "drop" /\ queue' = [queue EXCEPT ![p] = None]
      /\ task' = [task EXCEPT ![t].pc = "fail"]
      /\ UNCHANGED <<reachVars, pay, started, hook, told, charged, fails, dropped, faults>>
  BY DEF TaskDrop
<1>2. TaskOk(t) /\ task[t] \in TaskRec
  BY <1>a DEF Sound, TaskSound, TypeOK, TaskRec
<1>3. /\ p \in Pub /\ charged[p] /\ fails[p] = MaxRetries
  BY <1>1, <1>2 DEF TaskOk, AtKey, TaskRec
<1>4. /\ r \in TaskRec /\ r.pc = "fail" /\ r.pub = p /\ r.keys = task[t].keys
      /\ r.retries = task[t].retries
  BY <1>2 DEF TaskRec
<1>5. task' = [task EXCEPT ![t] = r]
  BY <1>1, <1>a DEF TypeOK
<1> HIDE DEF r
<1>6. /\ task' \in [Task -> TaskRec] /\ task'[t] = r
      /\ \A u \in Task \ {t} : task'[u] = task[u]
  BY <1>4, <1>5, <1>a, TaskMoves
<1>7. /\ queue' \in [Pub -> 0 .. MaxRetries \cup {None}]
      /\ \A x \in Pub : x # p => queue'[x] = queue[x]
      /\ queue'[p] = None
  BY <1>1, <1>3, <1>a DEF TypeOK
<1>8. TypeOK'
  BY <1>1, <1>6, <1>7, <1>a DEF TypeOK, TaskRec, ReachTypeOK, reachVars
<1>9. Grows
  BY <1>1, <1>a DEF Grows, TypeOK
<1>10. TaskOk(t)'
  BY <1>1, <1>2, <1>4, <1>6 DEF TaskOk, AtKey
<1> HIDE DEF p
<1>11. HookSound' /\ TaskSound' /\ PaidSound' /\ QueueSound'
  BY <1>1, <1>6, <1>7, <1>8, <1>9, <1>10, <1>a, HooksStay, TaskAlone
     DEF Sound, PaidSound, QueueSound
<1>12. Accounted'
  <2> SUFFICES ASSUME NEW x \in Pub PROVE charged'[x] => Held(x)' \/ LastHope(x)'
    BY DEF Accounted
  <2>1. CASE x = p
    BY <1>4, <1>6, <2>1 DEF LastHope
  <2>2. CASE x # p
    <3>1. Held(x) => Held(x)'
      BY <1>1, <1>7, <2>2 DEF Held
    <3>2. LastHope(x) => LastHope(x)'
      BY <1>1, <1>6, HopeStays
    <3> QED BY <1>1, <1>a, <3>1, <3>2, AccountedStays DEF Sound
  <2> QED BY <2>1, <2>2
<1> QED BY <1>8, <1>11, <1>12 DEF IInv, Sound

\* A step at the end of a key: the session is told or back in the queue or marked
\* as failed, and the task takes the next key.
LEMMA TaskEndsKey ==
    ASSUME IInv, NEW t \in Task, NextKey(t), TypeOK',
           NEW p \in Pub, p = task[t].pub,
           UNCHANGED <<started, hook, told, charged, fails>>,
           \A x \in Pub : pay'[x] = "paid" => pay[x] = "paid",
           \A x \in Pub : x # p => queue'[x] = queue[x] /\ dropped'[x] = dropped[x],
           Held(p)',
           queue'[p] # None => queue'[p] <= fails[p],
           dropped'[p] = "failed" => fails[p] = MaxRetries
    PROVE  IInv'
<1>a. TypeOK /\ Sound
  BY DEF IInv
<1>1. /\ task' \in [Task -> TaskRec] /\ task'[t].pc \in {"idle", "get"}
      /\ task'[t].pub = None /\ task'[t].keys \subseteq task[t].keys
      /\ \A u \in Task \ {t} : task'[u] = task[u]
  BY <1>a, NextKeyDoes
<1>2. Grows
  BY <1>a DEF Grows, TypeOK
<1>3. TaskOk(t)
  BY <1>a DEF Sound, TaskSound
<1>4. TaskOk(t)'
  BY <1>1, <1>3 DEF TaskOk, AtKey
<1>5. HookSound' /\ TaskSound'
  BY <1>1, <1>2, <1>4, <1>a, HooksStay, TaskAlone DEF Sound
<1>6. \A x \in Pub : x = p => charged[x]
  BY <1>3, PaidAssumption DEF TaskOk
<1>7. PaidSound'
  BY <1>6, <1>a DEF Sound, PaidSound
<1>8. QueueSound'
  BY <1>a DEF Sound, QueueSound
<1>9. Accounted'
  <2> SUFFICES ASSUME NEW x \in Pub PROVE charged'[x] => Held(x)' \/ LastHope(x)'
    BY DEF Accounted
  <2>1. CASE x = p
    BY <2>1
  <2>2. CASE x # p
    <3>1. Held(x) => Held(x)'
      BY <2>2 DEF Held
    <3>2. LastHope(x) => LastHope(x)'
      <4>1. \A u \in Task : task[u].pub = x => task'[u] = task[u]
        BY <1>1, <2>2
      <4> QED BY <4>1, HopeStays
    <3> QED BY <1>a, <3>1, <3>2, AccountedStays DEF Sound
  <2> QED BY <2>1, <2>2
<1> QED BY <1>5, <1>7, <1>8, <1>9 DEF IInv, Sound

LEMMA TaskFailKeeps ==
    ASSUME IInv, NEW t \in Task, TaskFail(t)
    PROVE  IInv'
<1>a. TypeOK /\ Sound
  BY DEF IInv
<1> DEFINE p == task[t].pub
<1>1. /\ task[t].pc = "fail" /\ NextKey(t)
      /\ pay' = [pay EXCEPT ![p] = IF started[p] THEN @ ELSE "failed"]
      /\ dropped' = [dropped EXCEPT ![p] = "failed"]
      /\ UNCHANGED <<reachVars, started, queue, hook, told, charged, fails, faults>>
  BY DEF TaskFail
<1>2. TaskOk(t) /\ task[t] \in TaskRec
  BY <1>a DEF Sound, TaskSound, TypeOK, TaskRec
<1>3. p \in Pub /\ fails[p] = MaxRetries
  BY <1>1, <1>2 DEF TaskOk, AtKey, TaskRec
<1>4. queue[p] # None => queue[p] <= fails[p]
  BY <1>3, <1>a DEF Sound, QueueSound
<1>5. task' \in [Task -> TaskRec]
  BY <1>1, <1>a, NextKeyDoes
<1>6. TypeOK'
  BY <1>1, <1>3, <1>5, <1>a DEF TypeOK, TaskRec, ReachTypeOK, reachVars
<1>7. /\ \A x \in Pub : pay'[x] = "paid" => pay[x] = "paid"
      /\ \A x \in Pub : x # p => queue'[x] = queue[x] /\ dropped'[x] = dropped[x]
      /\ dropped'[p] # "no"
      /\ queue'[p] # None => queue'[p] <= fails[p]
  BY <1>1, <1>3, <1>4, <1>a DEF TypeOK
<1> SUFFICES ASSUME NEW q \in Pub, q = p PROVE IInv'
  BY <1>3
<1>8. Held(q)'
  BY <1>7 DEF Held
<1> QED BY <1>1, <1>3, <1>6, <1>7, <1>8, TaskEndsKey

LEMMA TaskDeleteKeeps ==
    ASSUME IInv, NEW t \in Task, TaskDelete(t)
    PROVE  IInv'
<1>a. TypeOK /\ Sound
  BY DEF IInv
<1> DEFINE p == task[t].pub
<1>1. /\ task[t].pc = "delete" /\ NextKey(t)
      /\ queue' = [queue EXCEPT ![p] = None]
      /\ UNCHANGED <<reachVars, pay, started, hook, told, charged, fails, dropped, faults>>
  BY DEF TaskDelete
<1>2. TaskOk(t) /\ task[t] \in TaskRec
  BY <1>a DEF Sound, TaskSound, TypeOK, TaskRec
<1>3. p \in Pub /\ told[p] # "no"
  BY <1>1, <1>2 DEF TaskOk, AtKey, TaskRec
<1>4. dropped[p] = "failed" => fails[p] = MaxRetries
  BY <1>3, <1>a DEF Sound, QueueSound
<1>5. task' \in [Task -> TaskRec]
  BY <1>1, <1>a, NextKeyDoes
<1>6. TypeOK'
  BY <1>1, <1>3, <1>5, <1>a DEF TypeOK, TaskRec, ReachTypeOK, reachVars
<1>7. /\ \A x \in Pub : x # p => queue'[x] = queue[x]
      /\ queue'[p] = None
  BY <1>1, <1>3, <1>a DEF TypeOK
<1> SUFFICES ASSUME NEW q \in Pub, q = p PROVE IInv'
  BY <1>3
<1>8. Held(q)'
  BY <1>1, <1>3 DEF Held
<1> QED BY <1>1, <1>3, <1>4, <1>6, <1>7, <1>8, TaskEndsKey

\* The counter is written back one higher, and this is one more failure; the key
\* may have gone meanwhile, and its session was charged all the same.
LEMMA TaskRequeueKeeps ==
    ASSUME IInv, NEW t \in Task, TaskRequeue(t)
    PROVE  IInv'
<1>a. TypeOK /\ Sound
  BY DEF IInv
<1> DEFINE p == task[t].pub
           n == task[t].retries + 1
<1>1. /\ task[t].pc = "requeue" /\ NextKey(t)
      /\ queue' = [queue EXCEPT ![p] = n]
      /\ UNCHANGED <<reachVars, pay, started, hook, told, charged, fails, dropped, faults>>
  BY DEF TaskRequeue
<1>2. TaskOk(t) /\ task[t] \in TaskRec
  BY <1>a DEF Sound, TaskSound, TypeOK, TaskRec
<1>3. p \in Pub
  BY <1>1, <1>2 DEF TaskOk, AtKey, TaskRec
<1>4. /\ fails[p] \in 0 .. MaxRetries /\ task[t].retries \in 0 .. MaxRetries
      /\ dropped[p] = "failed" => fails[p] = MaxRetries
  BY <1>2, <1>3, <1>a DEF Sound, QueueSound, TypeOK, TaskRec
<1>5. task[t].retries < MaxRetries /\ task[t].retries < fails[p]
  BY <1>1, <1>2 DEF TaskOk
<1>6. n \in 0 .. MaxRetries /\ n <= fails[p] /\ n # None
  BY <1>4, <1>5, PaidAssumption
<1> HIDE DEF n
<1>7. /\ queue' \in [Pub -> 0 .. MaxRetries \cup {None}]
      /\ queue'[p] = n /\ \A x \in Pub : x # p => queue'[x] = queue[x]
  BY <1>1, <1>3, <1>6, <1>a DEF TypeOK
<1>8. task' \in [Task -> TaskRec]
  BY <1>1, <1>a, NextKeyDoes
<1>9. TypeOK'
  BY <1>1, <1>7, <1>8, <1>a DEF TypeOK, TaskRec, ReachTypeOK, reachVars
<1> SUFFICES ASSUME NEW q \in Pub, q = p PROVE IInv'
  BY <1>3
<1>10. Held(q)'
  BY <1>6, <1>7 DEF Held
<1> QED BY <1>1, <1>4, <1>6, <1>7, <1>9, <1>10, TaskEndsKey

\* Each send either reaches a socket or is one more failure.
LEMMA TaskSendKeeps ==
    ASSUME IInv, NEW t \in Task, TaskSend(t)
    PROVE  IInv'
<1>a. TypeOK /\ Sound
  BY DEF IInv
<1> DEFINE p == task[t].pub
<1>1. /\ task[t].pc = "send"
      /\ UNCHANGED <<reachVars, pay, started, queue, hook, charged, dropped, faults>>
  BY DEF TaskSend
<1>2. TaskOk(t) /\ task[t] \in TaskRec
  BY <1>a DEF Sound, TaskSound, TypeOK, TaskRec
<1>3. p \in Pub /\ charged[p]
  BY <1>1, <1>2 DEF TaskOk, AtKey, TaskRec
<1>b. /\ \A x \in Pub : fails[x] \in 0 .. MaxRetries
      /\ task[t].retries \in 0 .. MaxRetries /\ task[t].retries <= fails[p]
      /\ task[t].retries < MaxRetries
  BY <1>1, <1>2, <1>3, <1>a DEF TypeOK, TaskRec, TaskOk, AtKey
<1>4. PICK how \in SendTo(CpOf[p]) :
        IF how = "unreachable"
        THEN /\ task' = [task EXCEPT ![t].pc = "requeue"]
             /\ fails' = [fails EXCEPT ![p] = IF @ < MaxRetries THEN @ + 1 ELSE @]
             /\ UNCHANGED told
        ELSE task' = [task EXCEPT ![t].pc = "delete"] /\ Told(p, how) /\ UNCHANGED fails
  BY DEF TaskSend
<1> DEFINE pc == IF how = "unreachable" THEN "requeue" ELSE "delete"
           r == [task[t] EXCEPT !.pc = pc]
<1>5. task' = [task EXCEPT ![t] = r]
  BY <1>4, <1>a DEF TypeOK
<1>6. pc \in {"requeue", "delete"}
  OBVIOUS
<1> HIDE DEF pc
<1>7. /\ r \in TaskRec /\ r.pc = pc /\ r.pub = p /\ r.keys = task[t].keys
      /\ r.retries = task[t].retries
  BY <1>2, <1>6 DEF TaskRec
<1> HIDE DEF r
<1>8. /\ task' \in [Task -> TaskRec] /\ task'[t] = r
      /\ \A u \in Task \ {t} : task'[u] = task[u]
  BY <1>5, <1>7, <1>a, TaskMoves
<1>9. /\ told' \in [Pub -> {"no", "lost", "sent"}]
      /\ \A x \in Pub : told[x] # "no" => told'[x] # "no"
      /\ \A x \in Pub : told[x] = "sent" => told'[x] = "sent"
      /\ \A x \in Pub : x # p => told'[x] = told[x]
      /\ pc = "delete" => told'[p] # "no"
  <2>1. CASE how = "unreachable"
    BY <1>4, <1>a, <2>1 DEF TypeOK, pc
  <2>2. CASE how # "unreachable"
    BY <1>3, <1>4, <1>a, <2>2, ToldDoes
  <2> QED BY <2>1, <2>2
<1>10. /\ fails' \in [Pub -> 0 .. MaxRetries]
       /\ \A x \in Pub : fails[x] <= fails'[x]
       /\ pc = "requeue" => task[t].retries < fails'[p]
  <2>1. CASE how = "unreachable"
    <3> DEFINE n == IF fails[p] < MaxRetries THEN fails[p] + 1 ELSE fails[p]
    <3>1. n \in 0 .. MaxRetries /\ fails[p] <= n /\ task[t].retries < n
      BY <1>3, <1>b, PaidAssumption
    <3>2. fails' = [fails EXCEPT ![p] = n]
      BY <1>4, <2>1
    <3> HIDE DEF n
    <3>3. /\ fails' \in [Pub -> 0 .. MaxRetries] /\ fails'[p] = n
          /\ \A x \in Pub : x # p => fails'[x] = fails[x]
      BY <1>3, <1>a, <3>1, <3>2 DEF TypeOK
    <3> QED BY <1>b, <3>1, <3>3
  <2>2. CASE how # "unreachable"
    <3>1. fails' = fails /\ pc = "delete"
      BY <1>4, <2>2 DEF pc
    <3> QED BY <1>a, <1>b, <3>1 DEF TypeOK
  <2> QED BY <2>1, <2>2
<1>11. TypeOK'
  BY <1>1, <1>8, <1>9, <1>10, <1>a DEF TypeOK, TaskRec, ReachTypeOK, reachVars
<1>12. Grows
  BY <1>1, <1>9, <1>10 DEF Grows
<1>13. TaskOk(t)'
  <2>1. task[t].retries <= fails'[p]
    BY <1>3, <1>b, <1>10
  <2>2. p # None /\ \A x \in task[t].keys : charged[x]
    BY <1>2, <1>3, PaidAssumption DEF TaskOk
  <2> QED BY <1>1, <1>3, <1>6, <1>7, <1>8, <1>9, <1>10, <1>b, <2>1, <2>2 DEF TaskOk, AtKey
<1>14. HookSound' /\ TaskSound'
  BY <1>1, <1>8, <1>11, <1>12, <1>13, <1>a, HooksStay, TaskAlone DEF Sound
<1>15. PaidSound'
  BY <1>1, <1>3, <1>9, <1>a DEF Sound, PaidSound
<1>16. QueueSound'
  <2>1. \A x \in Pub : fails'[x] \in 0 .. MaxRetries /\ queue[x] \in 0 .. MaxRetries \cup {None}
    BY <1>10, <1>a DEF TypeOK
  <2> QED BY <1>1, <1>10, <1>a, <1>b, <2>1, PaidAssumption DEF Sound, QueueSound
<1>17. Accounted'
  <2> SUFFICES ASSUME NEW x \in Pub PROVE charged'[x] => Held(x)' \/ LastHope(x)'
    BY DEF Accounted
  <2>1. Held(x) => Held(x)'
    BY <1>1, <1>9 DEF Held
  <2>2. LastHope(x) => LastHope(x)'
    BY <1>1, <1>8, HopeStays
  <2> QED BY <1>1, <1>a, <2>1, <2>2, AccountedStays DEF Sound
<1> QED BY <1>11, <1>14, <1>15, <1>16, <1>17 DEF IInv, Sound

\* A fault ends a task, or the mark it was about to make; only in the second case
\* is the session nowhere else, and the fault is on record.
LEMMA AbortTaskKeeps ==
    ASSUME IInv, NEW t \in Task, AbortTask(t)
    PROVE  IInv'
<1>a. TypeOK /\ Sound
  BY DEF IInv
<1> DEFINE S == IF task[t].pc = "fail" THEN {task[t].pub} ELSE {}
<1>1. /\ UNCHANGED <<reachVars, pay, started, queue, hook, told, charged, fails>>
      /\ faults' \in 0 .. MaxFaults
      /\ Cut(S)
  BY <1>a, PaidAssumption DEF AbortTask, Fault, TypeOK
<1>2. /\ dropped' \in [Pub -> {"no", "expired", "failed", "cut"}]
      /\ \A x \in Pub : dropped'[x] = IF x \in S /\ dropped[x] = "no" THEN "cut" ELSE dropped[x]
  <2> HIDE DEF S
  <2> QED BY <1>1, <1>a DEF Cut, TypeOK
<1>3. TaskOk(t)
  BY <1>a DEF Sound, TaskSound
<1>4. /\ task' \in [Task -> TaskRec] /\ TaskOk(t)'
      /\ \A u \in Task \ {t} : task'[u] = task[u]
  <2>1. CASE task[t].pc = "fail"
    <3>1. NextKey(t)
      BY <2>1 DEF AbortTask
    <3>2. /\ task' \in [Task -> TaskRec] /\ task'[t].pc \in {"idle", "get"}
          /\ task'[t].pub = None /\ task'[t].keys \subseteq task[t].keys
          /\ \A u \in Task \ {t} : task'[u] = task[u]
      BY <1>a, <3>1, NextKeyDoes
    <3> QED BY <1>1, <1>3, <3>2 DEF TaskOk, AtKey
  <2>2. CASE task[t].pc # "fail"
    <3>1. task' = [task EXCEPT ![t] = IdleTask]
      BY <2>2 DEF AbortTask
    <3>2. IdleTask \in TaskRec
      BY PaidAssumption DEF IdleTask, TaskRec
    <3>3. /\ task' \in [Task -> TaskRec] /\ task'[t] = IdleTask
          /\ \A u \in Task \ {t} : task'[u] = task[u]
      BY <1>a, <3>1, <3>2, TaskMoves
    <3> QED BY <3>3 DEF TaskOk, AtKey, IdleTask
  <2> QED BY <2>1, <2>2
<1>5. TypeOK'
  BY <1>1, <1>2, <1>4, <1>a DEF TypeOK, TaskRec, ReachTypeOK, reachVars
<1>6. Grows
  BY <1>1, <1>a DEF Grows, TypeOK
<1>7. HookSound' /\ TaskSound' /\ PaidSound'
  BY <1>1, <1>4, <1>5, <1>6, <1>a, HooksStay, TaskAlone DEF Sound, PaidSound
<1>8. QueueSound'
  BY <1>1, <1>2, <1>a DEF Sound, QueueSound
<1>9. Accounted'
  <2> SUFFICES ASSUME NEW x \in Pub PROVE charged'[x] => Held(x)' \/ LastHope(x)'
    BY DEF Accounted
  <2>1. Held(x) => Held(x)'
    BY <1>1, <1>2 DEF Held
  <2>2. CASE task[t].pc = "fail" /\ task[t].pub = x
    BY <1>2, <2>2 DEF Held
  <2>3. CASE ~(task[t].pc = "fail" /\ task[t].pub = x)
    <3>1. LastHope(x) => LastHope(x)'
      BY <1>1, <1>4, <2>3, HopeStays
    <3> QED BY <1>1, <1>a, <2>1, <3>1, AccountedStays DEF Sound
  <2> QED BY <2>2, <2>3
<1> QED BY <1>5, <1>7, <1>8, <1>9 DEF IInv, Sound

\* With the process every coroutine dies; the sessions in their hands are cut off.
LEMMA RestartKeeps ==
    ASSUME IInv, Restart
    PROVE  IInv'
<1>a. TypeOK /\ Sound
  BY DEF IInv
<1>1. /\ Reset
      /\ hook' = [h \in Hook |-> IF hook[h].pc = "new" THEN hook[h] ELSE DoneHook]
      /\ task' = [t \in Task |-> IdleTask]
      /\ Cut({p \in Pub : LastHope(p)})
      /\ faults' \in 0 .. MaxFaults
      /\ UNCHANGED <<pay, started, queue, told, charged, fails>>
  BY <1>a, PaidAssumption DEF Restart, Fault, TypeOK
<1>2. /\ dropped' \in [Pub -> {"no", "expired", "failed", "cut"}]
      /\ \A x \in Pub : /\ dropped[x] # "no" => dropped'[x] = dropped[x]
                        /\ LastHope(x) => dropped'[x] # "no"
                        /\ dropped'[x] = "failed" => dropped[x] = "failed"
  <2> DEFINE S == {p \in Pub : LastHope(p)}
  <2>1. \A x \in Pub : LastHope(x) => x \in S
    OBVIOUS
  <2>2. dropped' = [p \in Pub |-> IF p \in S /\ dropped[p] = "no" THEN "cut" ELSE dropped[p]]
    BY <1>1 DEF Cut
  <2> HIDE DEF S
  <2> QED BY <1>a, <2>1, <2>2 DEF TypeOK
<1>3. DoneHook \in HookRec /\ DoneHook.pc = "done" /\ DoneHook.pub = None
  BY DEF DoneHook, NewHook, HookRec
<1>4. /\ hook' \in [Hook -> HookRec]
      /\ \A h \in Hook : hook'[h].pc \in {"new", "done"} /\ hook'[h].pub = None
  <2>1. \A h \in Hook : hook[h] \in HookRec /\ HookOk(h)
    BY <1>a DEF TypeOK, HookRec, Sound, HookSound
  <2>2. \A h \in Hook : hook[h].pc = "new" => hook[h].pub = None
    BY <2>1 DEF HookOk
  <2> QED BY <1>1, <1>3, <2>1, <2>2
<1>5. IdleTask \in TaskRec /\ IdleTask.pc = "idle" /\ IdleTask.pub = None /\ IdleTask.keys = {}
  BY PaidAssumption DEF IdleTask, TaskRec
<1>6. task' \in [Task -> TaskRec]
  BY <1>1, <1>5
<1>7. ReachTypeOK'
  BY <1>1, <1>a DEF Reset, TypeOK, ReachTypeOK
<1>8. TypeOK'
  BY <1>1, <1>2, <1>4, <1>6, <1>7, <1>a DEF TypeOK, TaskRec, HookRec
<1>9. HookSound' /\ TaskSound'
  BY <1>1, <1>4, <1>5 DEF HookSound, HookOk, TaskSound, TaskOk, AtKey
<1>10. PaidSound' /\ QueueSound'
  BY <1>1, <1>2, <1>a DEF Sound, PaidSound, QueueSound
<1>11. Accounted'
  <2> SUFFICES ASSUME NEW x \in Pub, charged'[x] PROVE Held(x)'
    BY DEF Accounted
  <2>1. Held(x) \/ LastHope(x)
    BY <1>1, <1>a DEF Sound, Accounted
  <2> QED BY <1>1, <1>2, <2>1 DEF Held
<1> QED BY <1>8, <1>9, <1>10, <1>11 DEF IInv, Sound

-----------------------------------------------------------------------------
(* The theorems.                                                           *)

LEMMA NextKeeps ==
    ASSUME IInv, [Next]_vars
    PROVE  IInv'
<1>1. CASE UNCHANGED vars
  <2>1. TypeOK'
    BY <1>1 DEF vars, payVars, reachVars, IInv, TypeOK, ReachTypeOK
  <2>2. Sound'
    BY <1>1 DEF vars, payVars, IInv, Sound, HookSound, HookOk, PaidSound, TaskSound, TaskOk,
                AtKey, QueueSound, Accounted, Held, LastHope
  <2> QED BY <2>1, <2>2 DEF IInv
<1>2. ASSUME NEW a \in Charger, Link(a) \/ Heartbeat(a) PROVE IInv'
  BY <1>2, LinkKeeps, HeartbeatKeeps
<1>3. ASSUME NEW p \in Pub, App(p) PROVE IInv'
  BY <1>3, AppKeeps
<1>4. ASSUME NEW p \in Pub, NEW status \in {"paid", "refused"}, HookRead(p, status) PROVE IInv'
  BY <1>4, HookReadKeeps
<1>5. ASSUME NEW h \in Hook, HookStep(h) \/ AbortHook(h) PROVE IInv'
  BY <1>5, HookUpdateKeeps, HookTriggerKeeps, HookEndKeeps DEF HookStep
<1>6. ASSUME NEW t \in Task, TaskStep(t) \/ AbortTask(t) PROVE IInv'
  BY <1>6, TaskKeysKeeps, TaskGetKeeps, TaskDropKeeps, TaskFailKeeps, TaskSendKeeps,
     TaskDeleteKeeps, TaskRequeueKeeps, AbortTaskKeeps DEF TaskStep
<1> QED BY <1>1, <1>2, <1>3, <1>4, <1>5, <1>6, RestartKeeps DEF Next

LEMMA Invariance == Spec => []IInv
<1>1. IInv /\ [Next]_vars => IInv'
  BY NextKeeps
<1> QED BY InitIInv, <1>1, PTL DEF Spec

\* Webhooks and tasks are always at one of their steps, and the counter of a key
\* in Redis never exceeds the limit it is compared with (handler_helpers.py:71-100).
THEOREM TypeCorrect == Spec => []TypeOK
BY Invariance, PTL DEF IInv

\* Whatever webhooks, retries, cancellations and restarts interleave, no charger is
\* told to start for a session nobody paid (public.py:155-179), and none is given up
\* before MaxRetries sends have failed (handler_helpers.py:71-100).
THEOREM OnlyWithReason == Spec => []StartsJustified
<1>1. IInv => StartsJustified
  <2> SUFFICES ASSUME IInv PROVE StartsJustified
    OBVIOUS
  <2>1. StartOnlyPaid
    BY DEF IInv, Sound, PaidSound, StartOnlyPaid
  <2>2. GivenUpAfterRetries
    BY DEF IInv, Sound, QueueSound, GivenUpAfterRetries
  <2> QED BY <2>1, <2>2 DEF StartsJustified
<1> QED BY Invariance, <1>1, PTL

\* A paid session with no coroutine at work on it was told, is queued, or is on
\* record as expired, failed or cut off (public.py:169-222, handler_helpers.py:75-100).
THEOREM PaidIsNotForgotten == Spec => []PaidIsAccounted
<1>1. IInv => PaidIsAccounted
  BY DEF IInv, Sound, Accounted, Held, LastHope, Quiet, PaidIsAccounted
<1> QED BY Invariance, <1>1, PTL
=============================================================================
