--------------------------- MODULE EventBusProofs ---------------------------
(***************************************************************************)
(* Theorems about EventBus, for every length of the stream, size of a      *)
(* batch, kind and number of faults.                                       *)
(*                                                                         *)
(* That an entry is billed once and in order needs to know what the task   *)
(* holds in memory: its batch is ahead of all that was billed, and behind  *)
(* the group's cursor, which never goes back.                              *)
(***************************************************************************)
EXTENDS EventBus, TLAPS

\* Lago has the entry, or its failure was logged.
Settled(i) == i \in failed \/ \E n \in DOMAIN billed : billed[n] = i

\* The entries in memory were delivered, oldest first, and are gone with the task.
BatchSound ==
    /\ pc \in {"down", "start", "read", "ended"} => batch = <<>>
    /\ pc \in {"body", "ack"} => batch # <<>>
    /\ \A n \in DOMAIN batch : batch[n] <= cursor
    /\ \A m, n \in DOMAIN batch : m < n => batch[m] < batch[n]

\* The group exists from the first read on, and its cursor stays in the stream.
GroupSound ==
    /\ cursor <= Len(stream)
    /\ ~group => cursor = 0
    /\ pc \in {"read", "take", "body", "ack"} => group

\* Everything billed was delivered, and is older than what is still to be handled.
BilledBehind ==
    \A k \in DOMAIN billed :
        /\ billed[k] <= cursor
        /\ \A n \in DOMAIN batch :
              pc \in {"take", "body"} \/ (pc = "ack" /\ n # 1) => billed[k] < batch[n]

\* What is about to be acknowledged after the body is settled.
BodySound == pc = "ack" /\ stream[Head(batch)] = "bill" => Settled(Head(batch))

Sound == BatchSound /\ GroupSound /\ BilledBehind /\ BodySound

IInv == TypeOK /\ Sound /\ BilledInOrder /\ AckedIsSettled /\ CursorAccounts

USE BusAssumption

-----------------------------------------------------------------------------
(* Sequences.                                                              *)

LEMMA SeqGrows ==
    ASSUME NEW S, NEW T, S \subseteq T, NEW q \in Seq(S)
    PROVE  q \in Seq(T)
OBVIOUS

\* What is left of a queue whose head was taken.
LEMMA TailOf ==
    ASSUME NEW S, NEW q \in Seq(S), q # <<>>
    PROVE  /\ Head(q) = q[1] /\ Head(q) \in S
           /\ Tail(q) \in Seq(S)
           /\ DOMAIN q = 1 .. Len(q) /\ 1 \in DOMAIN q
           /\ \A n \in DOMAIN Tail(q) : /\ n + 1 \in DOMAIN q
                                        /\ Tail(q)[n] = q[n + 1]
           /\ DOMAIN Tail(q) \subseteq Nat \ {0}
OBVIOUS

LEMMA AppendTo ==
    ASSUME NEW S, NEW q \in Seq(S), NEW e \in S
    PROVE  /\ Append(q, e) \in Seq(S)
           /\ Len(q) \in Nat /\ Len(Append(q, e)) = Len(q) + 1
           /\ DOMAIN q = 1 .. Len(q) /\ DOMAIN Append(q, e) = 1 .. Len(q) + 1
           /\ \A n \in 1 .. Len(q) : Append(q, e)[n] = q[n]
           /\ Append(q, e)[Len(q) + 1] = e
OBVIOUS

LEMMA InitIInv == Init => IInv
<1> SUFFICES ASSUME Init PROVE IInv
  OBVIOUS
<1> USE DEF Init
<1>1. TypeOK
  <2>1. \A S : <<>> \in Seq(S)
    OBVIOUS
  <2>2. /\ stream \in Seq(Kinds) /\ batch \in Seq(Entries) /\ billed \in Seq(Entries)
    BY <2>1
  <2>4. group \in BOOLEAN
    OBVIOUS
  <2>3. /\ first \in Nat \ {0} /\ cursor \in Nat /\ faults \in Nat
        /\ pending \subseteq Entries /\ acked \subseteq Entries /\ failed \subseteq Entries
        /\ pc \in {"down", "start", "read", "take", "body", "ack", "ended"}
    OBVIOUS
  <2> HIDE DEF Init
  <2> QED BY <2>2, <2>3, <2>4 DEF TypeOK
<1>2. BatchSound /\ GroupSound /\ BodySound
  BY DEF BatchSound, GroupSound, BodySound
<1>3. BilledBehind /\ BilledInOrder
  BY DEF BilledBehind, BilledInOrder
<1>4. AckedIsSettled /\ CursorAccounts
  BY DEF AckedIsSettled, CursorAccounts
<1> QED BY <1>1, <1>2, <1>3, <1>4 DEF IInv, Sound

-----------------------------------------------------------------------------
(* Producers.  The entries there are keep their numbers and kinds.         *)

LEMMA PublishKeeps ==
    ASSUME IInv, NEW k \in Kinds, Publish(k)
    PROVE  IInv'
<1>a. TypeOK /\ Sound
  BY DEF IInv
<1>1. /\ stream' \in Seq(Kinds) /\ Len(stream) \in Nat
      /\ Len(stream') = Len(stream) + 1
      /\ \A i \in Entries : i \in Entries' /\ stream'[i] = stream[i]
  BY <1>a, AppendTo DEF Publish, TypeOK, Entries
<1>2. UNCHANGED <<group, cursor, pending, acked, pc, batch, billed, failed, faults>>
  BY DEF Publish
<1>3. first' \in Nat \ {0} /\ first <= first'
  BY <1>a, <1>1 DEF Publish, TypeOK
<1>4. TypeOK'
  <2>1. batch' \in Seq(Entries') /\ billed' \in Seq(Entries')
    <3>1. Entries \subseteq Entries'
      BY <1>1
    <3> QED BY <1>2, <1>a, <3>1, SeqGrows DEF TypeOK
  <2> QED BY <1>1, <1>2, <1>3, <1>a, <2>1 DEF TypeOK
<1>5. BatchSound' /\ GroupSound' /\ BilledBehind'
  BY <1>1, <1>2, <1>a DEF Sound, BatchSound, GroupSound, BilledBehind, TypeOK
<1>6. BodySound'
  <2>1. ASSUME pc = "ack" PROVE Head(batch) \in Entries
    BY <2>1, <1>a, TailOf DEF Sound, BatchSound, TypeOK
  <2> QED BY <1>1, <1>2, <1>a, <2>1 DEF Sound, BodySound, Settled
<1>7. BilledInOrder'
  BY <1>2 DEF IInv, BilledInOrder
<1>8. AckedIsSettled'
  BY <1>1, <1>2, <1>a DEF IInv, AckedIsSettled, TypeOK
<1>9. CursorAccounts'
  BY <1>2, <1>3, <1>a DEF IInv, CursorAccounts, TypeOK
<1> QED BY <1>4, <1>5, <1>6, <1>7, <1>8, <1>9 DEF IInv, Sound

-----------------------------------------------------------------------------
(* The consumer.                                                           *)

LEMMA StartKeeps ==
    ASSUME IInv, Start
    PROVE  IInv'
BY DEF Start, IInv, TypeOK, Entries, Sound, BatchSound, GroupSound, BilledBehind,
       BodySound, BilledInOrder, AckedIsSettled, CursorAccounts

LEMMA EnsureGroupKeeps ==
    ASSUME IInv, EnsureGroup
    PROVE  IInv'
<1>1. cursor' = cursor
  BY DEF EnsureGroup, IInv, Sound, GroupSound
<1> QED BY <1>1
        DEF EnsureGroup, IInv, TypeOK, Entries, Sound, BatchSound, GroupSound,
            BilledBehind, BodySound, BilledInOrder, AckedIsSettled, CursorAccounts

\* A read starts behind the cursor, and what it skips was trimmed.
LEMMA ReadKeeps ==
    ASSUME IInv, Read
    PROVE  IInv'
<1>a. TypeOK /\ Sound
  BY DEF IInv
<1> DEFINE from == IF cursor + 1 < first THEN first ELSE cursor + 1
           to   == IF from + BatchSize - 1 < Len(stream) THEN from + BatchSize - 1
                   ELSE Len(stream)
<1>1. /\ from \in Nat /\ to \in Nat /\ cursor \in Nat
      /\ cursor < from /\ from <= to /\ to <= Len(stream)
      /\ Len(stream) \in Nat
      /\ \A i \in Nat : cursor < i /\ i < from => i < first
  BY <1>a DEF Read, TypeOK
<1>2. /\ pc = "read" /\ group
      /\ pending' = pending \cup from .. to
      /\ cursor' = to
      /\ UNCHANGED <<stream, first, group, acked, billed, failed>>
      /\ \/ /\ batch' = [n \in 1 .. to - from + 1 |-> from + n - 1]
            /\ pc' = "take" /\ UNCHANGED faults
         \/ Fault("redis") /\ UNCHANGED <<batch, pc>>
  BY <1>a DEF Read, Sound, GroupSound
<1>b. faults' = faults \/ faults' = faults + 1
  BY <1>2 DEF Fault
<1>3. batch = <<>> /\ faults' \in Nat
  BY <1>2, <1>b, <1>a DEF Sound, BatchSound, TypeOK
<1> HIDE DEF from, to
<1>4. /\ batch' \in Seq(Entries')
      /\ \A n \in DOMAIN batch' : cursor < batch'[n] /\ batch'[n] <= to
      /\ \A m, n \in DOMAIN batch' : m < n => batch'[m] < batch'[n]
      /\ pc' \in {"read", "take"}
      /\ pc' = "read" => batch' = <<>>
  <2>1. CASE /\ batch' = [n \in 1 .. to - from + 1 |-> from + n - 1]
             /\ pc' = "take"
    <3>1. to - from + 1 \in Nat
      BY <1>1
    <3>2. \A n \in 1 .. to - from + 1 : /\ from + n - 1 \in 1 .. Len(stream)
                                        /\ cursor < from + n - 1 /\ from + n - 1 <= to
      BY <1>1
    <3>3. batch' \in Seq(1 .. Len(stream)) /\ DOMAIN batch' = 1 .. to - from + 1
      BY <2>1, <3>1, <3>2
    <3> QED BY <1>1, <1>2, <2>1, <3>2, <3>3 DEF Entries
  <2>2. CASE UNCHANGED <<batch, pc>>
    BY <1>2, <1>3, <2>2
  <2> QED BY <1>2, <2>1, <2>2
<1>5. TypeOK'
  <2>1. from .. to \subseteq Entries
    BY <1>1 DEF Entries
  <2> QED BY <1>1, <1>2, <1>3, <1>4, <1>a, <2>1 DEF TypeOK, Entries
<1>6. BatchSound'
  BY <1>2, <1>4 DEF BatchSound
<1>7. GroupSound'
  BY <1>1, <1>2 DEF GroupSound
<1>8. BilledBehind'
  <2>1. ASSUME NEW k \in DOMAIN billed
        PROVE  /\ billed[k] \in Nat /\ billed[k] <= cursor
    BY <1>a DEF TypeOK, Entries, Sound, BilledBehind
  <2>2. \A n \in DOMAIN batch' : batch'[n] \in Nat
    BY <1>4 DEF Entries
  <2> QED BY <1>1, <1>2, <1>4, <2>1, <2>2 DEF BilledBehind
<1>9. BodySound'
  BY <1>4 DEF BodySound
<1>10. BilledInOrder' /\ AckedIsSettled'
  BY <1>2 DEF IInv, BilledInOrder, AckedIsSettled
<1>11. CursorAccounts'
  <2>1. ASSUME NEW i \in 1 .. to PROVE i \in pending' \cup acked' \/ i < first'
    <3>1. CASE i <= cursor
      BY <1>1, <1>2, <3>1 DEF IInv, CursorAccounts
    <3>2. CASE cursor < i /\ i < from
      BY <1>1, <1>2, <3>2
    <3>3. CASE from <= i
      BY <1>1, <1>2, <3>3
    <3> QED BY <1>1, <3>1, <3>2, <3>3
  <2> QED BY <1>2, <2>1 DEF CursorAccounts
<1> QED BY <1>5, <1>6, <1>7, <1>8, <1>9, <1>10, <1>11 DEF IInv, Sound


\* The head of the batch is acknowledged, or still pending.
LEMMA AcknowledgeDoes ==
    ASSUME TypeOK, batch # <<>>, Acknowledge
    PROVE  /\ Head(batch) \in Entries /\ Head(batch) = batch[1] /\ 1 \in DOMAIN batch
           /\ batch' = Tail(batch) /\ Tail(batch) \in Seq(Entries)
           /\ pc' = "take"
           /\ DOMAIN Tail(batch) \subseteq Nat \ {0}
           /\ \A n \in DOMAIN Tail(batch) : /\ n + 1 \in DOMAIN batch
                                            /\ Tail(batch)[n] = batch[n + 1]
           /\ pending \cup acked \subseteq pending' \cup acked'
           /\ pending' \subseteq Entries /\ acked' \subseteq Entries
           /\ acked' \subseteq acked \cup {Head(batch)}
           /\ faults' \in Nat
<1>1. batch \in Seq(Entries)
  BY DEF TypeOK
<1>2. batch' = Tail(batch) /\ pc' = "take"
  BY DEF Acknowledge
<1>3. faults' = faults \/ faults' = faults + 1
  BY DEF Acknowledge, Fault
<1>4. \/ pending' = pending \ {Head(batch)} /\ acked' = acked \cup {Head(batch)}
      \/ UNCHANGED <<pending, acked>>
  BY DEF Acknowledge
<1>5. Head(batch) \in Entries
  BY <1>1, TailOf
<1> QED BY <1>1, <1>2, <1>3, <1>4, <1>5, TailOf DEF TypeOK

\* A batch without its head keeps what is promised of it; the head is settled if
\* it has to be.
LEMMA AcknowledgeKeeps ==
    ASSUME IInv, batch # <<>>, Acknowledge, group,
           UNCHANGED <<stream, first, group, cursor, billed, failed>>,
           stream[Head(batch)] = "bill" => Settled(Head(batch)),
           \A k \in DOMAIN billed, n \in DOMAIN batch : n # 1 => billed[k] < batch[n]
    PROVE  IInv'
<1>a. TypeOK /\ Sound
  BY DEF IInv
<1>1. /\ Head(batch) \in Entries /\ 1 \in DOMAIN batch
      /\ batch' = Tail(batch) /\ Tail(batch) \in Seq(Entries)
      /\ pc' = "take"
      /\ DOMAIN Tail(batch) \subseteq Nat \ {0}
      /\ \A n \in DOMAIN Tail(batch) : /\ n + 1 \in DOMAIN batch
                                       /\ Tail(batch)[n] = batch[n + 1]
      /\ pending \cup acked \subseteq pending' \cup acked'
      /\ pending' \subseteq Entries /\ acked' \subseteq Entries
      /\ acked' \subseteq acked \cup {Head(batch)}
      /\ faults' \in Nat
  BY <1>a, AcknowledgeDoes
<1> DEFINE rest == Tail(batch)
<1>2. \A n \in DOMAIN rest : n + 1 \in DOMAIN batch /\ rest[n] = batch[n + 1] /\ n + 1 # 1
  BY <1>1
<1>3. batch' = rest /\ rest \in Seq(Entries) /\ DOMAIN rest \subseteq Nat
  BY <1>1
<1> HIDE DEF rest
<1>4. TypeOK'
  BY <1>1, <1>3, <1>a DEF TypeOK, Entries
<1>5. BatchSound'
  <2>1. \A n \in DOMAIN rest : rest[n] <= cursor
    BY <1>2, <1>a DEF Sound, BatchSound
  <2>2. \A m, n \in DOMAIN rest : m < n => rest[m] < rest[n]
    <3>1. ASSUME NEW m \in DOMAIN rest, NEW n \in DOMAIN rest, m < n
          PROVE  rest[m] < rest[n]
      <4>1. m + 1 < n + 1
        BY <1>3, <3>1
      <4> QED BY <1>2, <4>1, <1>a DEF Sound, BatchSound
    <3> QED BY <3>1
  <2> QED BY <1>1, <1>3, <2>1, <2>2 DEF BatchSound
<1>6. GroupSound'
  BY <1>1, <1>a DEF Sound, GroupSound
<1>7. BilledBehind'
  <2>1. \A k \in DOMAIN billed : billed[k] <= cursor
    BY <1>a DEF Sound, BilledBehind
  <2>2. \A k \in DOMAIN billed, n \in DOMAIN rest : billed[k] < rest[n]
    BY <1>2
  <2> QED BY <1>3, <2>1, <2>2 DEF BilledBehind
<1>8. BodySound'
  BY <1>1 DEF BodySound
<1>9. BilledInOrder'
  BY DEF IInv, BilledInOrder
<1>10. AckedIsSettled'
  BY <1>1 DEF IInv, AckedIsSettled, Settled
<1>11. CursorAccounts'
  BY <1>1 DEF IInv, CursorAccounts
<1> QED BY <1>4, <1>5, <1>6, <1>7, <1>8, <1>9, <1>10, <1>11 DEF IInv, Sound

LEMMA TakeKeeps ==
    ASSUME IInv, Take
    PROVE  IInv'
<1>a. TypeOK /\ Sound
  BY DEF IInv
<1>b. UNCHANGED <<stream, first, group, cursor, billed, failed>> /\ pc = "take" /\ group
  BY <1>a DEF Take, Sound, GroupSound
<1>1. CASE /\ batch # <<>> /\ stream[Head(batch)] = "other" /\ Acknowledge
  <2>1. \A k \in DOMAIN billed, n \in DOMAIN batch : billed[k] < batch[n]
    BY <1>a, <1>b DEF Sound, BilledBehind
  <2> QED BY <1>1, <1>b, <2>1, AcknowledgeKeeps
<1>2. CASE /\ UNCHANGED <<pending, acked, batch, faults>>
           /\ \/ batch = <<>> /\ pc' = "read"
              \/ batch # <<>> /\ pc' = "body"
  <2>1. TypeOK'
    BY <1>b, <1>2, <1>a DEF TypeOK, Entries
  <2>2. Sound'
    BY <1>b, <1>2, <1>a
       DEF Sound, BatchSound, GroupSound, BilledBehind, BodySound
  <2> QED BY <1>b, <1>2, <2>1, <2>2 DEF IInv, BilledInOrder, AckedIsSettled, CursorAccounts
<1> QED BY <1>1, <1>2 DEF Take

LEMMA AckKeeps ==
    ASSUME IInv, Ack
    PROVE  IInv'
<1>1. /\ pc = "ack" /\ Acknowledge /\ group /\ batch # <<>>
      /\ UNCHANGED <<stream, first, group, cursor, billed, failed>>
  BY DEF Ack, IInv, Sound, GroupSound, BatchSound
<1>2. stream[Head(batch)] = "bill" => Settled(Head(batch))
  BY <1>1 DEF IInv, Sound, BodySound
<1>3. \A k \in DOMAIN billed, n \in DOMAIN batch : n # 1 => billed[k] < batch[n]
  BY <1>1 DEF IInv, Sound, BilledBehind
<1> QED BY <1>1, <1>2, <1>3, AcknowledgeKeeps

\* Lago gets the entry at hand once at most, and it is the newest it got.
LEMMA SendDoes ==
    ASSUME TypeOK, NEW i \in Entries, Send(i)
    PROVE  /\ billed' = billed \/ billed' = Append(billed, i)
           /\ failed' = failed \/ failed' = failed \cup {i}
           /\ i \in failed' \/ billed' = Append(billed, i)
           /\ faults' \in Nat
<1>1. faults' = faults \/ faults' = faults + 1
  BY DEF Send, Fault
<1> QED BY <1>1 DEF Send, TypeOK

LEMMA BodyKeeps ==
    ASSUME IInv, Body
    PROVE  IInv'
<1>a. TypeOK /\ Sound
  BY DEF IInv
<1>1. /\ pc = "body" /\ pc' = "ack" /\ batch # <<>> /\ group
      /\ UNCHANGED <<stream, first, group, cursor, pending, acked, batch>>
  BY <1>a DEF Body, Sound, BatchSound, GroupSound
<1> DEFINE i == Head(batch)
<1>2. /\ i \in Entries /\ i = batch[1] /\ 1 \in DOMAIN batch
      /\ DOMAIN batch = 1 .. Len(batch) /\ Len(batch) \in Nat
      /\ \A n \in DOMAIN batch : batch[n] \in Nat
  BY <1>1, <1>a, TailOf DEF TypeOK, Entries
<1>3. /\ billed' = billed \/ billed' = Append(billed, i)
      /\ failed' = failed \/ failed' = failed \cup {i}
      /\ faults' \in Nat
      /\ stream[i] = "bill" => i \in failed' \/ billed' = Append(billed, i)
      /\ i' = i
  BY <1>1, <1>2, <1>a, SendDoes DEF Body, TypeOK
<1> HIDE DEF i
<1> DEFINE b == Len(billed)
<1>b. billed \in Seq(Entries) /\ b \in Nat /\ DOMAIN billed = 1 .. b
  BY <1>a DEF TypeOK
<1>c. \A k \in 1 .. b : billed[k] \in Nat
  BY <1>b DEF Entries
<1>d. \A k \in 1 .. b, n \in DOMAIN batch : billed[k] < batch[n] /\ billed[k] <= cursor
  BY <1>1, <1>b, <1>a DEF Sound, BilledBehind
<1>4. \A k \in 1 .. b : billed[k] < i /\ billed[k] <= cursor
  BY <1>2, <1>d
<1>5. /\ billed' \in Seq(Entries)
      /\ DOMAIN billed' = 1 .. b \/ (DOMAIN billed' = 1 .. b + 1 /\ billed'[b + 1] = i)
      /\ \A k \in 1 .. b : k \in DOMAIN billed' /\ billed'[k] = billed[k]
      /\ billed' = Append(billed, i) => \E k \in DOMAIN billed' : billed'[k] = i
  <2>a. i \in Entries
    BY <1>2
  <2>1. CASE billed' = Append(billed, i)
    <3>1. /\ Append(billed, i) \in Seq(Entries)
          /\ DOMAIN Append(billed, i) = 1 .. b + 1
          /\ Append(billed, i)[b + 1] = i
          /\ \A k \in 1 .. b : Append(billed, i)[k] = billed[k]
      BY <2>a, <1>b
    <3>2. b + 1 \in 1 .. b + 1 /\ \A k \in 1 .. b : k \in 1 .. b + 1
      BY <1>b
    <3> HIDE DEF b
    <3>3. b + 1 \in DOMAIN billed' /\ billed'[b + 1] = i
      BY <2>1, <3>1, <3>2
    <3> QED BY <2>1, <3>1, <3>2, <3>3
  <2>2. CASE billed' # Append(billed, i)
    <3>1. billed' = billed
      BY <2>2, <1>3
    <3> QED BY <2>2, <3>1, <1>b
  <2> QED BY <2>1, <2>2
<1>6. \A n \in DOMAIN batch : /\ batch[n] <= cursor
                              /\ n # 1 => i < batch[n]
  BY <1>2, <1>a DEF Sound, BatchSound
<1>7. TypeOK'
  BY <1>1, <1>2, <1>3, <1>5, <1>a DEF TypeOK, Entries
<1>8. BatchSound' /\ GroupSound'
  BY <1>1, <1>a DEF Sound, BatchSound, GroupSound
<1>9. BilledBehind'
  BY <1>1, <1>2, <1>b, <1>d, <1>5, <1>6 DEF BilledBehind
<1>11. ASSUME NEW e \in Entries, Settled(e) PROVE Settled(e)'
  BY <1>3, <1>b, <1>5, <1>11 DEF Settled
<1>12. BodySound'
  <2>1. stream[i] = "bill" => Settled(i)'
    BY <1>3, <1>5 DEF Settled
  <2> QED BY <1>1, <2>1 DEF BodySound, i
<1>13. BilledInOrder'
  <2>1. \A k, m \in 1 .. b : k < m => billed[k] < billed[m]
    BY <1>b DEF IInv, BilledInOrder
  <2>2. ASSUME NEW k \in DOMAIN billed', NEW m \in DOMAIN billed', k < m
        PROVE  billed'[k] < billed'[m]
    <3>1. k \in 1 .. b /\ (m \in 1 .. b \/ (m = b + 1 /\ billed'[m] = i))
      BY <1>b, <1>5, <2>2
    <3> QED BY <1>4, <1>5, <2>1, <2>2, <3>1
  <2> QED BY <2>2 DEF BilledInOrder
<1>14. AckedIsSettled'
  BY <1>1, <1>11, <1>a DEF IInv, AckedIsSettled, Settled, TypeOK
<1>15. CursorAccounts'
  BY <1>1 DEF IInv, CursorAccounts
<1> QED BY <1>7, <1>8, <1>9, <1>12, <1>13, <1>14, <1>15 DEF IInv, Sound

\* The task is gone with its batch; Redis and Lago keep what they have.
LEMMA EndKeeps ==
    ASSUME IInv, Raise \/ Crash
    PROVE  IInv'
<1>1. /\ pc' \in {"down", "ended"} /\ batch' = <<>>
      /\ UNCHANGED <<stream, first, group, cursor, pending, acked, billed, failed>>
  BY DEF Raise, Crash
<1>2. faults' = faults + 1
  BY DEF Raise, Crash, Fault
<1>3. TypeOK'
  <2>1. batch' \in Seq(Entries')
    BY <1>1
  <2> QED BY <1>1, <1>2, <2>1 DEF IInv, TypeOK, Entries
<1>4. Sound'
  BY <1>1 DEF IInv, Sound, BatchSound, GroupSound, BilledBehind, BodySound
<1> QED BY <1>1, <1>3, <1>4 DEF IInv, BilledInOrder, AckedIsSettled, CursorAccounts

-----------------------------------------------------------------------------
(* The theorems.                                                           *)

LEMMA Invariance == Spec => []IInv
<1>1. IInv /\ [Next]_vars => IInv'
  <2> SUFFICES ASSUME IInv, [Next]_vars PROVE IInv'
    OBVIOUS
  <2>1. CASE UNCHANGED vars
    BY <2>1 DEF vars, IInv, TypeOK, Entries, Sound, BatchSound, GroupSound,
                BilledBehind, BodySound, Settled, BilledInOrder, AckedIsSettled,
                CursorAccounts
  <2> QED BY <2>1, PublishKeeps, StartKeeps, EnsureGroupKeeps, ReadKeeps, TakeKeeps,
             BodyKeeps, AckKeeps, EndKeeps DEF Next, Consume
<1> QED BY InitIInv, <1>1, PTL DEF Spec

\* The consumer never holds, acknowledges or bills an entry that was not published.
THEOREM TypeCorrect == Spec => []TypeOK
BY Invariance, PTL DEF IInv

\* Across crashes, restarts and lost answers, no entry is billed twice and bills
\* follow the order of the stream (bus.py:74-147).
THEOREM BillingInOrder == Spec => []BilledInOrder
BY Invariance, PTL DEF IInv

\* No billable entry is acknowledged before Lago has it or its failure was logged,
\* and none before the cursor is passed over but for what Redis trimmed.
THEOREM EntriesAreAccounted == Spec => []EntriesAccounted
<1>1. IInv => EntriesAccounted
  BY DEF IInv, EntriesAccounted
<1> QED BY <1>1, Invariance, PTL
=============================================================================
