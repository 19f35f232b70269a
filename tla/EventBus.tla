------------------------------ MODULE EventBus ------------------------------
(***************************************************************************)
(* The event bus (events/bus.py: a Redis stream read through a consumer    *)
(* group) and the consumer that bills from it (events/consumers/           *)
(* lago_billing.py).  Producers append and let Redis trim the stream; the  *)
(* consumer reads batches of undelivered entries, handles them one by one  *)
(* and acknowledges each.  An entry is named by its position, as Redis     *)
(* names it by an id that grows.                                           *)
(*                                                                         *)
(* What may go wrong is a constant: "crash" is the death of the process or *)
(* a shutdown; "raise" an exception that ends the consumer task and leaves *)
(* the process running without it (ensure_group, subscription lookup);     *)
(* "redis" loses the answer of a read or of an acknowledgement; "lago" is  *)
(* a POST that fails or whose answer times out.                            *)
(***************************************************************************)
EXTENDS Naturals, Sequences

CONSTANTS
    MaxLen,     \* config.events.max_stream_length
    BatchSize,  \* entries read at once
    Faults,     \* the faults that may happen
    MaxEvents,  \* bound: events published
    MaxFaults   \* bound: faults that happen

ASSUME BusAssumption ==
    /\ MaxLen \in Nat \ {0}
    /\ BatchSize \in Nat \ {0}
    /\ Faults \subseteq {"crash", "raise", "redis", "lago"}
    /\ MaxEvents \in Nat
    /\ MaxFaults \in Nat

\* What the consumer makes of an entry: a CDR to bill; a CDR that is simulated,
\* without energy or without subscription; any other event.
Kinds == {"bill", "skip", "other"}

VARIABLES
    stream,   \* the kind of every entry ever appended
    first,    \* the oldest entry Redis still has
    group,    \* whether the consumer group exists
    cursor,   \* the group's last delivered entry
    pending,  \* entries delivered and not acknowledged
    acked,    \* entries acknowledged
    pc,       \* where the consumer task is
    batch,    \* entries it has read and not finished, oldest first
    billed,   \* what Lago accepted, in order
    failed,   \* entries whose POST was logged as failed
    faults    \* how many faults have happened

vars == <<stream, first, group, cursor, pending, acked, pc, batch, billed, failed, faults>>

Entries == 1 .. Len(stream)

TypeOK ==
    /\ stream \in Seq(Kinds)
    /\ first \in Nat \ {0}
    /\ group \in BOOLEAN
    /\ cursor \in Nat
    /\ pending \subseteq Entries
    /\ acked \subseteq Entries
    /\ pc \in {"down", "start", "read", "take", "body", "ack", "ended"}
    /\ batch \in Seq(Entries)
    /\ billed \in Seq(Entries)
    /\ failed \subseteq Entries
    /\ faults \in Nat

Init ==
    /\ stream = <<>>
    /\ first = 1
    /\ group = FALSE
    /\ cursor = 0
    /\ pending = {} /\ acked = {}
    /\ pc = "down"
    /\ batch = <<>>
    /\ billed = <<>>
    /\ failed = {}
    /\ faults = 0

-----------------------------------------------------------------------------
(* Producers.                                                              *)

\* XADD with an approximate MAXLEN: Redis keeps at least the MaxLen newest.
Publish(k) ==
    /\ Len(stream) < MaxEvents
    /\ stream' = Append(stream, k)
    /\ first' \in {f \in first .. Len(stream) + 1 :
                     f = first \/ f + MaxLen <= Len(stream) + 2}
    /\ UNCHANGED <<group, cursor, pending, acked, pc, batch, billed, failed, faults>>

-----------------------------------------------------------------------------
(* The consumer.                                                           *)

Fault(f) ==
    /\ f \in Faults
    /\ faults < MaxFaults
    /\ faults' = faults + 1

\* The process (re)starts the consumer task.
Start ==
    /\ pc = "down"
    /\ pc' = "start"
    /\ UNCHANGED <<stream, first, group, cursor, pending, acked, batch, billed, failed, faults>>

\* Faulty: the group starts at the newest entry.
EnsureGroupAtEnd ==
    /\ pc = "start"
    /\ pc' = "read"
    /\ group' = TRUE
    /\ cursor' = IF group THEN cursor ELSE Len(stream)
    /\ UNCHANGED <<stream, first, pending, acked, batch, billed, failed, faults>>

\* Faulty: an existing group is set back to the start.
EnsureGroupReset ==
    /\ pc = "start"
    /\ pc' = "read"
    /\ group' = TRUE
    /\ cursor' = 0
    /\ UNCHANGED <<stream, first, pending, acked, batch, billed, failed, faults>>

\* A new group starts at 0, with the whole history; BUSYGROUP is ignored.
EnsureGroup ==
    /\ pc = "start"
    /\ pc' = "read"
    /\ group' = TRUE
    /\ cursor' = IF group THEN cursor ELSE 0
    /\ UNCHANGED <<stream, first, pending, acked, batch, billed, failed, faults>>

\* Faulty: a full batch is assumed, however many entries there are.
ReadFullBatch ==
    /\ pc = "read"
    /\ cursor < Len(stream)
    /\ pending' = pending \cup cursor + 1 .. cursor + BatchSize
    /\ cursor' = cursor + BatchSize
    /\ batch' = [n \in 1 .. BatchSize |-> cursor + n]
    /\ pc' = "take"
    /\ UNCHANGED <<stream, first, group, acked, billed, failed, faults>>

\* XREADGROUP ">": the oldest entries after the cursor that are still there.
\* They are pending once Redis has sent them, whether the answer arrives or not.
Read ==
    LET from == IF cursor + 1 < first THEN first ELSE cursor + 1
        to   == IF from + BatchSize - 1 < Len(stream) THEN from + BatchSize - 1
                ELSE Len(stream)
    IN  /\ pc = "read"
        /\ from <= Len(stream)
        /\ pending' = pending \cup from .. to
        /\ cursor' = to
        /\ \/ /\ batch' = [n \in 1 .. to - from + 1 |-> from + n - 1]
              /\ pc' = "take"
              /\ UNCHANGED faults
           \/ /\ Fault("redis")
              /\ UNCHANGED <<batch, pc>>
        /\ UNCHANGED <<stream, first, group, acked, billed, failed>>

\* XACK of the entry at hand.  When it raises, the entry may have been
\* acknowledged or not; consume goes on with the next one in any case.
Acknowledge ==
    LET i == Head(batch)
    IN  /\ \/ pending' = pending \ {i} /\ acked' = acked \cup {i} /\ UNCHANGED faults
           \/ Fault("redis") /\ UNCHANGED <<pending, acked>>
           \/ Fault("redis") /\ pending' = pending \ {i} /\ acked' = acked \cup {i}
        /\ batch' = Tail(batch)
        /\ pc' = "take"

\* Faulty: what the filter lets through is acknowledged before it is handled.
TakeAckFirst ==
    /\ pc = "take"
    /\ IF batch = <<>>
       THEN pc' = "read" /\ UNCHANGED <<pending, acked, batch, faults>>
       ELSE IF stream[Head(batch)] = "other"
            THEN Acknowledge
            ELSE /\ pc' = "body"
                 /\ pending' = pending \ {Head(batch)}
                 /\ acked' = acked \cup {Head(batch)}
                 /\ UNCHANGED <<batch, faults>>
    /\ UNCHANGED <<stream, first, group, cursor, billed, failed>>

\* The next entry of the batch: one of another type is acknowledged at once.
Take ==
    /\ pc = "take"
    /\ IF batch = <<>>
       THEN pc' = "read" /\ UNCHANGED <<pending, acked, batch, faults>>
       ELSE IF stream[Head(batch)] = "other"
            THEN Acknowledge
            ELSE pc' = "body" /\ UNCHANGED <<pending, acked, batch, faults>>
    /\ UNCHANGED <<stream, first, group, cursor, billed, failed>>

\* _send_to_lago: the POST is accepted; or it fails, which is logged, and Lago
\* may have accepted it all the same when the answer timed out.
Send(i) ==
    \/ billed' = Append(billed, i) /\ UNCHANGED <<failed, faults>>
    \/ /\ Fault("lago")
       /\ failed' = failed \cup {i}
       /\ billed' \in {billed, Append(billed, i)}

\* The body of the consumer's loop comes to its end whether the POST was
\* accepted or not.
Body ==
    /\ pc = "body"
    /\ pc' = "ack"
    /\ \/ stream[Head(batch)] = "skip" /\ UNCHANGED <<billed, failed, faults>>
       \/ stream[Head(batch)] = "bill" /\ Send(Head(batch))
    /\ UNCHANGED <<stream, first, group, cursor, pending, acked, batch>>

\* The body has come back to the generator, which acknowledges.
Ack ==
    /\ pc = "ack"
    /\ Acknowledge
    /\ UNCHANGED <<stream, first, group, cursor, billed, failed>>

\* The task ends for good: gather collects the exception and nothing starts
\* the task again while the process lives.
Raise ==
    /\ pc \in {"start", "body"}
    /\ Fault("raise")
    /\ pc' = "ended"
    /\ batch' = <<>>
    /\ UNCHANGED <<stream, first, group, cursor, pending, acked, billed, failed>>

\* The process ends; what it had read is forgotten, not what Redis keeps.
Crash ==
    /\ pc # "down"
    /\ Fault("crash")
    /\ pc' = "down"
    /\ batch' = <<>>
    /\ UNCHANGED <<stream, first, group, cursor, pending, acked, billed, failed>>

Consume == Start \/ EnsureGroup \/ Read \/ Take \/ Body \/ Ack

Next == (\E k \in Kinds : Publish(k)) \/ Consume \/ Raise \/ Crash

Spec == Init /\ [][Next]_vars

\* The event loop resumes the consumer, and docker restarts the process
\* (restart: unless-stopped) when it has died, not when one task has ended.
FairSpec == Spec /\ WF_vars(Consume)

-----------------------------------------------------------------------------
(* Properties.                                                             *)

\* No entry is billed twice, and bills follow the order of the stream: across
\* restarts the group never goes back (bus.py:74-87, 117-123).
BilledInOrder ==
    \A i, j \in DOMAIN billed : i < j => billed[i] < billed[j]

\* A billable CDR is acknowledged only once Lago has it or its failure was
\* logged (bus.py:144-147): what a crash interrupts is still in the pending list.
AckedIsSettled ==
    \A i \in acked :
        stream[i] = "bill" =>
            i \in failed \/ \E n \in DOMAIN billed : billed[n] = i

\* Redis never hands out what was trimmed, and nothing else is passed over: an
\* entry at or before the cursor was delivered or fell off the stream.
CursorAccounts ==
    \A i \in 1 .. cursor : i \in pending \cup acked \/ i < first

\* Every entry behind the cursor and every acknowledged one is accounted for.
EntriesAccounted == AckedIsSettled /\ CursorAccounts

\* "No message loss on downtime" (bus.py:5): whatever is published, before the
\* first start or while the process is down, is delivered in the end, unless the
\* stream outgrew its maximal length meanwhile, or an exception ended the task
\* and the process went on without it for ever (main.py:230).
DeliveredInTheEnd ==
    []<>(pc # "ended") =>
        \A i \in 1 .. MaxEvents :
            i \in Entries ~> i \in pending \cup acked \/ i < first

\* As long as nothing fails, every billable CDR still in the stream is billed.
BilledInTheEnd ==
    \A i \in 1 .. MaxEvents :
        i \in Entries /\ stream[i] = "bill" ~>
            \/ \E n \in DOMAIN billed : billed[n] = i
            \/ i < first
            \/ faults > 0

\* docs/events.md:7, "the unacknowledged message stays pending and is
\* redelivered on restart": it does not stay pending for ever.
RedeliveredOnRestart ==
    \A i \in 1 .. MaxEvents : i \in pending ~> i \notin pending

\* Nothing published is lost on the way to the bill, across restarts.
SettledInTheEnd == DeliveredInTheEnd /\ BilledInTheEnd
=============================================================================
