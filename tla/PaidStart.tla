----------------------------- MODULE PaidStart -----------------------------
(***************************************************************************)
(* The way of a public session from its creation in the charge app to the  *)
(* start at the charger: the payment webhook and the RemoteStart it        *)
(* triggers (api/public.py), the queue of starts for a charger that is not *)
(* connected (Redis keys pending_start:<charger>:<session>, with a TTL),   *)
(* the tasks every boot and heartbeat schedules to work it off             *)
(* (ocpp16/handler_helpers.py), and the cancellation by the driver         *)
(* (api/public_sessions.py).  Webhooks, tasks and cancellations are        *)
(* coroutines of the process and interleave at every await.                *)
(*                                                                         *)
(* The link of a StartTransaction to its public session is a single step   *)
(* here; Sessions16 has it, and the receipt, in detail.  The connections   *)
(* are those of ChargerReach.  The payment states paid and authorized,     *)
(* which are treated alike, are one state, and so are all the others a     *)
(* webhook may bring (refused); cancelled is the cancellation by the       *)
(* driver, which also sets stopped_at.                                     *)
(***************************************************************************)
EXTENDS ChargerReach, Naturals

CONSTANTS
    Pub,        \* public sessions
    CpOf,       \* the charger a session is for
    Hook,       \* webhook requests, each handled once
    Task,       \* tasks that may work on pending starts at a time
    None,       \* no session, no charger
    MaxRetries, \* retries before a start is given up: 3 in the code
    MaxFaults   \* bound: awaits that raise and restarts of the process

ASSUME PaidAssumption ==
    /\ CpOf \in [Pub -> Charger]
    /\ MaxRetries \in Nat
    /\ MaxFaults \in Nat
    /\ None \notin Pub \cup Charger \cup Nat

VARIABLES
    pay,      \* public_sessions.payment_status
    started,  \* started_at, the transaction is linked
    queue,    \* retries in pending_start:<charger>:<session>; None without key
    hook,     \* webhook requests: step, session, the status they bring
    task,     \* tasks: step, charger, keys they have left, session, retries
    told,     \* history: whether a RemoteStart was sent, or lost on a dead socket
    charged,  \* history: a webhook has set the session to paid
    fails,    \* history: sends of a task that failed, counted up to MaxRetries
    dropped,  \* history: a key expired, its session was marked as failed, or the
              \* coroutine that had to start or to fail it was cut off
    faults    \* how many faults have happened

payVars == <<pay, started, queue, hook, task, told, charged, fails, dropped, faults>>
vars == <<reachVars, payVars>>

IdleTask == [pc |-> "idle", cp |-> None, keys |-> {}, pub |-> None, retries |-> 0]
NewHook  == [pc |-> "new", pub |-> None, status |-> "none"]
DoneHook == [NewHook EXCEPT !.pc = "done"]

TypeOK ==
    /\ ReachTypeOK
    /\ pay \in [Pub -> {"none", "pending", "paid", "refused", "cancelled", "failed"}]
    /\ started \in [Pub -> BOOLEAN]
    /\ queue \in [Pub -> 0 .. MaxRetries \cup {None}]
    /\ hook \in [Hook -> [pc     : {"new", "update", "repeat", "trigger", "queue", "done"},
                          pub    : Pub \cup {None},
                          status : {"none", "paid", "refused"}]]
    /\ task \in [Task -> [pc      : {"idle", "keys", "get", "drop", "fail", "send",
                                     "delete", "requeue"},
                          cp      : Charger \cup {None},
                          keys    : SUBSET Pub,
                          pub     : Pub \cup {None},
                          retries : 0 .. MaxRetries]]
    /\ told \in [Pub -> {"no", "lost", "sent"}]
    /\ charged \in [Pub -> BOOLEAN]
    /\ fails \in [Pub -> 0 .. MaxRetries]
    /\ dropped \in [Pub -> {"no", "expired", "failed", "cut"}]
    /\ faults \in 0 .. MaxFaults

Init ==
    /\ ReachInit
    /\ pay = [p \in Pub |-> "none"]
    /\ started = [p \in Pub |-> FALSE]
    /\ queue = [p \in Pub |-> None]
    /\ hook = [h \in Hook |-> NewHook]
    /\ task = [t \in Task |-> IdleTask]
    /\ told = [p \in Pub |-> "no"]
    /\ charged = [p \in Pub |-> FALSE]
    /\ fails = [p \in Pub |-> 0]
    /\ dropped = [p \in Pub |-> "no"]
    /\ faults = 0

-----------------------------------------------------------------------------
(* The session in the charge app and at the charger.                       *)

\* The guard against duplicates looks back two minutes only, so a session may
\* be created whatever others there are.
Create(p) ==
    /\ pay[p] = "none"
    /\ pay' = [pay EXCEPT ![p] = "pending"]
    /\ UNCHANGED <<reachVars, started, queue, hook, task, told, charged, fails, dropped, faults>>

\* The request reads started_at, at any time before (it was not set once), and
\* the UPDATE looks at it again.
Cancel(p) ==
    /\ pay[p] # "none"
    /\ pay' = IF started[p] THEN pay ELSE [pay EXCEPT ![p] = "cancelled"]
    /\ UNCHANGED <<reachVars, started, queue, hook, task, told, charged, fails, dropped, faults>>

\* The charger starts with the tag of the RemoteStart; the link looks neither at
\* the payment nor at stopped_at.
StartLinked(p) ==
    /\ told[p] = "sent" /\ ~started[p]
    /\ started' = [started EXCEPT ![p] = TRUE]
    /\ UNCHANGED <<reachVars, pay, queue, hook, task, told, charged, fails, dropped, faults>>

-----------------------------------------------------------------------------
(* The webhook.                                                            *)

HookTo(h, pc) ==
    hook' = [hook EXCEPT ![h] = IF pc = "done" THEN DoneHook ELSE [@ EXCEPT !.pc = pc]]

\* The previous status is read; it decides whether the update will be followed
\* by a RemoteStart.  The provider may bring any status, repeated or late.
HookRead(p, status) ==
    /\ pay[p] # "none"
    /\ \E h \in Hook : hook[h].pc = "new"
    /\ hook' = [hook EXCEPT ![CHOOSE h \in Hook : hook[h].pc = "new"] =
                 [pc     |-> IF status = "paid" /\ pay[p] # "paid" THEN "update" ELSE "repeat",
                  pub    |-> p,
                  status |-> status]]
    /\ UNCHANGED <<reachVars, pay, started, queue, task, told, charged, fails, dropped, faults>>

\* Faulty: any change of the status triggers.
HookUpdateAlways(h) ==
    LET p == hook[h].pub
    IN  /\ hook[h].pc \in {"update", "repeat"}
        /\ pay' = [pay EXCEPT ![p] = hook[h].status]
        /\ charged' = [charged EXCEPT ![p] = @ \/ hook[h].status = "paid"]
        /\ HookTo(h, "trigger")
        /\ UNCHANGED <<reachVars, started, queue, task, told, fails, dropped, faults>>

HookUpdate(h) ==
    LET p == hook[h].pub
    IN  /\ hook[h].pc \in {"update", "repeat"}
        /\ pay' = [pay EXCEPT ![p] = hook[h].status]
        /\ charged' = [charged EXCEPT ![p] = @ \/ hook[h].status = "paid"]
        /\ HookTo(h, IF hook[h].pc = "update" THEN "trigger" ELSE "done")
        /\ UNCHANGED <<reachVars, started, queue, task, told, fails, dropped, faults>>

\* The history of a RemoteStart that left for the charger.
Told(p, how) ==
    told' = [told EXCEPT ![p] = IF @ = "sent" THEN "sent" ELSE how]

HookTrigger(h) ==
    LET p == hook[h].pub
    IN  /\ hook[h].pc = "trigger"
        /\ \E how \in SendTo(CpOf[p]) :
             IF how = "unreachable"
             THEN HookTo(h, "queue") /\ UNCHANGED told
             ELSE HookTo(h, "done") /\ Told(p, how)
        /\ UNCHANGED <<reachVars, pay, started, queue, task, charged, fails, dropped, faults>>

HookQueue(h) ==
    /\ hook[h].pc = "queue"
    /\ queue' = [queue EXCEPT ![hook[h].pub] = 0]
    /\ HookTo(h, "done")
    /\ UNCHANGED <<reachVars, pay, started, task, told, charged, fails, dropped, faults>>

-----------------------------------------------------------------------------
(* The queue and its tasks.                                                *)

\* The TTL of a key runs out.
Expire(p) ==
    /\ queue[p] # None
    /\ queue' = [queue EXCEPT ![p] = None]
    /\ dropped' = [dropped EXCEPT ![p] = IF @ = "no" THEN "expired" ELSE @]
    /\ UNCHANGED <<reachVars, pay, started, hook, task, told, charged, fails, faults>>

\* The end of a boot or of a heartbeat schedules a task, on whichever socket the
\* message came in.  (Bound: none when all of Task are busy.)
Heartbeat(a) ==
    /\ reg[a] # "never"
    /\ \E t \in Task : task[t].pc = "idle"
    /\ LET t == CHOOSE x \in Task : task[x].pc = "idle"
       IN  task' = [task EXCEPT ![t].pc = "keys", ![t].cp = a]
    /\ UNCHANGED <<reachVars, pay, started, queue, hook, told, charged, fails, dropped, faults>>

\* Task t is done with the key it works on.
NextKey(t) ==
    task' = [task EXCEPT ![t] = IF @.keys = {} THEN IdleTask
                                ELSE [@ EXCEPT !.pc = "get", !.pub = None, !.retries = 0]]

TaskKeys(t) ==
    LET keys == {p \in Pub : CpOf[p] = task[t].cp /\ queue[p] # None}
    IN  /\ task[t].pc = "keys"
        /\ task' = [task EXCEPT ![t] = IF keys = {} THEN IdleTask
                                       ELSE [@ EXCEPT !.pc = "get", !.keys = keys]]
        /\ UNCHANGED <<reachVars, pay, started, queue, hook, told, charged, fails, dropped, faults>>

\* The next key of the snapshot: gone, used up, or to be tried once more.
TaskGetUpTo(t, limit) ==
    /\ task[t].pc = "get"
    /\ \E p \in task[t].keys :
         LET left == task[t].keys \ {p}
         IN  task' = [task EXCEPT ![t] =
               IF queue[p] = None
               THEN IF left = {} THEN IdleTask ELSE [@ EXCEPT !.keys = left]
               ELSE [@ EXCEPT !.keys = left, !.pub = p, !.retries = queue[p],
                              !.pc = IF queue[p] >= limit THEN "drop" ELSE "send"]]
    /\ UNCHANGED <<reachVars, pay, started, queue, hook, told, charged, fails, dropped, faults>>

\* Faulty: tried once too often.
TaskGetLate(t) == TaskGetUpTo(t, MaxRetries + 1)

TaskGet(t) == TaskGetUpTo(t, MaxRetries)

TaskDrop(t) ==
    /\ task[t].pc = "drop"
    /\ queue' = [queue EXCEPT ![task[t].pub] = None]
    /\ task' = [task EXCEPT ![t].pc = "fail"]
    /\ UNCHANGED <<reachVars, pay, started, hook, told, charged, fails, dropped, faults>>

\* _fail_pending_start, unless the session has started meanwhile.
TaskFail(t) ==
    LET p == task[t].pub
    IN  /\ task[t].pc = "fail"
        /\ pay' = [pay EXCEPT ![p] = IF started[p] THEN @ ELSE "failed"]
        /\ dropped' = [dropped EXCEPT ![p] = "failed"]
        /\ NextKey(t)
        /\ UNCHANGED <<reachVars, started, queue, hook, told, charged, fails, faults>>

TaskSend(t) ==
    LET p == task[t].pub
    IN  /\ task[t].pc = "send"
        /\ \E how \in SendTo(CpOf[p]) :
             IF how = "unreachable"
             THEN /\ task' = [task EXCEPT ![t].pc = "requeue"]
                  /\ fails' = [fails EXCEPT ![p] = IF @ < MaxRetries THEN @ + 1 ELSE @]
                  /\ UNCHANGED told
             ELSE task' = [task EXCEPT ![t].pc = "delete"] /\ Told(p, how) /\ UNCHANGED fails
        /\ UNCHANGED <<reachVars, pay, started, queue, hook, charged, dropped, faults>>

TaskDelete(t) ==
    /\ task[t].pc = "delete"
    /\ queue' = [queue EXCEPT ![task[t].pub] = None]
    /\ NextKey(t)
    /\ UNCHANGED <<reachVars, pay, started, hook, told, charged, fails, dropped, faults>>

\* Faulty: the key is written back as it was.
TaskRequeueSame(t) ==
    /\ task[t].pc = "requeue"
    /\ queue' = [queue EXCEPT ![task[t].pub] = task[t].retries]
    /\ NextKey(t)
    /\ UNCHANGED <<reachVars, pay, started, hook, told, charged, fails, dropped, faults>>

\* Faulty: the key of a start that failed is dropped.
TaskRequeueNot(t) ==
    /\ task[t].pc = "requeue"
    /\ queue' = [queue EXCEPT ![task[t].pub] = None]
    /\ NextKey(t)
    /\ UNCHANGED <<reachVars, pay, started, hook, told, charged, fails, dropped, faults>>

\* The counter the task read, plus one, with a new TTL; the key is created again
\* if it has gone meanwhile.
TaskRequeue(t) ==
    /\ task[t].pc = "requeue"
    /\ queue' = [queue EXCEPT ![task[t].pub] = task[t].retries + 1]
    /\ NextKey(t)
    /\ UNCHANGED <<reachVars, pay, started, hook, told, charged, fails, dropped, faults>>

-----------------------------------------------------------------------------
(* Faults.                                                                 *)

\* A webhook that has set the session to paid and not yet triggered, a task that
\* has deleted the key and not yet failed the session.
LastHope(p) ==
    \/ \E h \in Hook : hook[h].pub = p /\ hook[h].pc \in {"trigger", "queue"}
    \/ \E t \in Task : task[t].pub = p /\ task[t].pc = "fail"

Fault == faults < MaxFaults /\ faults' = faults + 1

Cut(S) == dropped' = [p \in Pub |-> IF p \in S /\ dropped[p] = "no" THEN "cut" ELSE dropped[p]]

AbortHook(h) ==
    /\ hook[h].pc \notin {"new", "done"}
    /\ Fault
    /\ HookTo(h, "done")
    /\ Cut(IF hook[h].pc \in {"trigger", "queue"} THEN {hook[h].pub} ELSE {})
    /\ UNCHANGED <<reachVars, pay, started, queue, task, told, charged, fails>>

\* _fail_pending_start is guarded: the task goes on.  Anything else ends it.
AbortTask(t) ==
    /\ task[t].pc # "idle"
    /\ Fault
    /\ IF task[t].pc = "fail" THEN NextKey(t) ELSE task' = [task EXCEPT ![t] = IdleTask]
    /\ Cut(IF task[t].pc = "fail" THEN {task[t].pub} ELSE {})
    /\ UNCHANGED <<reachVars, pay, started, queue, hook, told, charged, fails>>

\* Every coroutine dies with the process; Redis and the database stay.
Restart ==
    /\ Fault
    /\ Reset
    /\ hook' = [h \in Hook |-> IF hook[h].pc = "new" THEN hook[h]
                               ELSE DoneHook]
    /\ task' = [t \in Task |-> IdleTask]
    /\ Cut({p \in Pub : LastHope(p)})
    /\ UNCHANGED <<pay, started, queue, told, charged, fails>>

-----------------------------------------------------------------------------
App(p) ==
    \/ Create(p) \/ Cancel(p)
    \/ StartLinked(p) \/ Expire(p)

HookStep(h) == HookUpdate(h) \/ HookTrigger(h) \/ HookQueue(h)

TaskStep(t) ==
    \/ TaskKeys(t) \/ TaskGet(t) \/ TaskDrop(t) \/ TaskFail(t)
    \/ TaskSend(t) \/ TaskDelete(t) \/ TaskRequeue(t)

Link(a) == (Arrive(a) \/ Lose(a) \/ Forget(a)) /\ UNCHANGED payVars

Next ==
    \/ \E a \in Charger : Link(a) \/ Heartbeat(a)
    \/ \E p \in Pub : App(p)
    \/ \E p \in Pub, status \in {"paid", "refused"} : HookRead(p, status)
    \/ \E h \in Hook : HookStep(h) \/ AbortHook(h)
    \/ \E t \in Task : TaskStep(t) \/ AbortTask(t)
    \/ Restart

Spec == Init /\ [][Next]_vars

\* A charger with an open socket sends heartbeats, at the interval the answer to
\* its boot told it, and they are handled.
Served(a) == up[a] /\ Heartbeat(a)

Fairness ==
    /\ \A a \in Charger : WF_vars(Served(a))
    /\ \A h \in Hook : WF_vars(HookStep(h))
    /\ \A t \in Task : WF_vars(TaskStep(t))

FairSpec == Spec /\ Fairness

-----------------------------------------------------------------------------
(* Properties.                                                             *)

\* No charger is told to start for a session that nobody ever paid, whatever
\* webhooks, cancellations and retries do to its status (public.py:155-179).
StartOnlyPaid ==
    \A p \in Pub : told[p] # "no" \/ started[p] \/ queue[p] # None => charged[p]

\* No coroutine is about to start or to fail session p.
Quiet(p) ==
    /\ \A h \in Hook : hook[h].pub # p
    /\ \A t \in Task : task[t].pub # p

\* A paid session is never forgotten: a RemoteStart was sent, or it is queued,
\* or its key expired, or it was marked as failed.  Cutting a coroutine off loses
\* it only between the update and the queue (public.py:169-222), and between the
\* deletion of the key and the mark (handler_helpers.py:75-77).
PaidIsAccounted ==
    \A p \in Pub :
        charged[p] /\ Quiet(p) => told[p] # "no" \/ queue[p] # None \/ dropped[p] # "no"

\* A session is given up only after as many failed sends as the docstring
\* promises, though tasks read and write the counter with awaits in between
\* (handler_helpers.py:46-48, 71-100).
GivenUpAfterRetries ==
    \A p \in Pub : dropped[p] = "failed" => fails[p] = MaxRetries

\* What happens to a public session has its reason: only a payment starts or queues
\* it, and only as many failures as the docstring promises give it up.
StartsJustified == StartOnlyPaid /\ GivenUpAfterRetries

\* A paid session is started or given up in the end if its charger keeps a socket
\* and heartbeats on it, even on a socket the tables have lost.
PaidIsResolved ==
    \A p \in Pub :
        <>[]up[CpOf[p]] =>
            (charged[p] ~> told[p] # "no" \/ dropped[p] # "no")
=============================================================================
