------------------------------- MODULE Backups -------------------------------
(***************************************************************************)
(* Backups, restores and updates from the administration API               *)
(* (api/admin_backup.py, api/admin_update.py, scripts/db-backup.sh).  The  *)
(* scripts are run synchronously on the event loop: while one runs no      *)
(* other request takes a step.  Requests interleave around the statements  *)
(* of the database.  The database is its backup records, the sequence that *)
(* numbers them and the update history; a dump holds all three, as they    *)
(* were before its own record was inserted.                                *)
(***************************************************************************)
EXTENDS Naturals, Functions

CONSTANTS
    Job,         \* requests of administrators
    MaxSeconds,  \* bound: seconds, which name the dumps
    MaxRecords,  \* bound: numbers the sequence hands out
    MaxJobs      \* bound: requests

ASSUME BackupAssumption == MaxSeconds \in Nat /\ MaxRecords \in Nat /\ MaxJobs \in Nat

VARIABLES
    base,      \* ocpp.backup_records, its sequence, and ocpp.update_history
    dumps,     \* the files in BACKUP_DIR, by the second in their name
    second,    \* the clock that names them
    job,       \* what a request is suspended before, and its local variables
    restored,  \* history: dumps restored from, completely
    blurred,   \* history: a restore was cut or overlapped another request, or
               \* two dumps were taken in one second
    jobs       \* number of requests so far

backupVars == <<base, dumps, second, job, restored, blurred, jobs>>

-----------------------------------------------------------------------------
Second == 0..MaxSeconds
Number == 1..MaxRecords

Row == [file : Second, status : {"active", "restored", "deleted"}]

\* An entry of the history: an update names the backup taken before it, 0 if
\* there is none; a restore names the backup it restored.
Entry == [event : {"update", "restore"}, ok : BOOLEAN, backup : Number \cup {0},
          file : Second]

Base(r) ==
    /\ DOMAIN r.rows \subseteq Number
    /\ Range(r.rows) \subseteq Row
    /\ r.next \in 1..(MaxRecords + 1)
    /\ r.log \subseteq Entry

BackupStep == [pc : {"idle", "record", "note", "restore", "log", "mark"},
               upgrade : BOOLEAN, ok : BOOLEAN, backup : Number \cup {0}, file : Second]

NoJob == [pc |-> "idle", upgrade |-> FALSE, ok |-> FALSE, backup |-> 0, file |-> 0]

Empty == [rows |-> <<>>, next |-> 1, log |-> {}]

\* A dump is whole, or pg_dump failed over it.
BackupTypeOK ==
    /\ Base(base)
    /\ DOMAIN dumps \subseteq Second
    /\ \A f \in DOMAIN dumps : dumps[f].whole \in BOOLEAN /\ Base(dumps[f].base)
    /\ second \in Second
    /\ job \in [Job -> BackupStep]
    /\ restored \subseteq Second
    /\ blurred \in BOOLEAN
    /\ jobs \in Nat

BackupInit ==
    /\ base = Empty
    /\ dumps = <<>>
    /\ second = 0
    /\ job = [j \in Job |-> NoJob]
    /\ restored = {}
    /\ blurred = FALSE
    /\ jobs = 0

-----------------------------------------------------------------------------
Put(f, k, v) == [x \in DOMAIN f \cup {k} |-> IF x = k THEN v ELSE f[x]]

OthersBusy(j) == \E k \in Job \ {j} : job[k].pc # "idle"

\* A restore whose data has replaced the database is not yet recorded.
Replacing(j) == \E k \in Job \ {j} : job[k].pc \in {"log", "mark"}

Finish(j) == job' = [job EXCEPT ![j] = NoJob]

Counted == jobs < MaxJobs /\ jobs' = jobs + 1

\* The name of a dump has the second in it.
Tick ==
    /\ second < MaxSeconds
    /\ second' = second + 1
    /\ UNCHANGED <<base, dumps, job, restored, blurred, jobs>>

-----------------------------------------------------------------------------
(* create_backup, and the backup that update_run takes first.              *)

\* The script dumps the database and prints the name of the file.
Dump(j, upgrade) ==
    /\ job[j].pc = "idle" /\ Counted
    /\ dumps' = Put(dumps, second, [whole |-> TRUE, base |-> base])
    /\ job' = [job EXCEPT ![j] = [NoJob EXCEPT !.pc = "record", !.upgrade = upgrade,
                                               !.file = second]]
    /\ blurred' = (blurred \/ second \in DOMAIN dumps \/ Replacing(j))
    /\ UNCHANGED <<base, second, restored>>

\* The script fails, or runs out of time, with the file already opened: a
\* backup answers an error; an update goes on without a backup.
RunUpdate(j, ok) ==
    job' = [job EXCEPT ![j].pc = "note", ![j].ok = ok, ![j].upgrade = TRUE]

DumpFails(j, upgrade) ==
    /\ job[j].pc = "idle" /\ Counted
    /\ dumps' = Put(dumps, second, [whole |-> FALSE, base |-> Empty])
    /\ blurred' = (blurred \/ second \in DOMAIN dumps)
    /\ \/ ~upgrade /\ UNCHANGED job
       \/ upgrade /\ \E ok \in BOOLEAN : RunUpdate(j, ok)
    /\ UNCHANGED <<base, second, restored>>

\* The record takes the next number of the sequence.  An update runs its script
\* then, whose outcome is all it has to note.
RecordBackup(j) ==
    LET n == base.next
        run == [job[j] EXCEPT !.pc = "note", !.backup = n]
    IN  /\ job[j].pc = "record"
        /\ n \in Number \ DOMAIN base.rows
        /\ base' = [base EXCEPT !.next = n + 1,
              !.rows = Put(@, n, [file |-> job[j].file, status |-> "active"])]
        /\ \/ ~job[j].upgrade /\ Finish(j)
           \/ job[j].upgrade /\ \E ok \in BOOLEAN : job' = [job EXCEPT ![j] = [run EXCEPT !.ok = ok]]
        /\ blurred' = (blurred \/ Replacing(j))
        /\ UNCHANGED <<dumps, second, restored, jobs>>

\* The statement fails, on a number in use after the sequence has drawn it.
RecordFails(j) ==
    /\ job[j].pc = "record"
    /\ base' = IF base.next \in DOMAIN base.rows THEN [base EXCEPT !.next = @ + 1] ELSE base
    /\ \/ ~job[j].upgrade /\ Finish(j)
       \/ job[j].upgrade /\ \E ok \in BOOLEAN : RunUpdate(j, ok)
    /\ UNCHANGED <<dumps, second, restored, blurred, jobs>>

\* The update is noted with what the script answered; a failure to note it is
\* only logged.
NoteUpdate(j) ==
    /\ job[j].pc = "note"
    /\ base' = [base EXCEPT !.log = @ \cup {[event |-> "update", ok |-> job[j].ok,
           backup |-> job[j].backup, file |-> IF job[j].backup = 0 THEN 0 ELSE job[j].file]}]
    /\ Finish(j)
    /\ UNCHANGED <<dumps, second, restored, blurred, jobs>>

-----------------------------------------------------------------------------
(* restore_backup, delete_backup.                                          *)

\* Any record will do, a deleted one too.
FindBackup(j, n) ==
    /\ job[j].pc = "idle" /\ Counted
    /\ n \in DOMAIN base.rows
    /\ job' = [job EXCEPT ![j] = [NoJob EXCEPT !.pc = "restore", !.backup = n,
                                               !.file = base.rows[n].file]]
    /\ UNCHANGED <<base, dumps, second, restored, blurred>>

\* Tables and sequences are dropped and restored from the dump.
Restore(j) ==
    LET f == job[j].file
    IN  /\ job[j].pc = "restore"
        /\ dumps[f].whole
        /\ base' = dumps[f].base
        /\ job' = [job EXCEPT ![j].pc = "log"]
        /\ restored' = restored \cup {f}
        /\ blurred' = (blurred \/ OthersBusy(j))
        /\ UNCHANGED <<dumps, second, jobs>>

\* Faulty: the exit code of the script is not looked at.
RestoreFailsUnseen(j) ==
    /\ job[j].pc = "restore"
    /\ job' = [job EXCEPT ![j].pc = "log"]
    /\ UNCHANGED <<base, dumps, second, restored, blurred, jobs>>

\* The script fails: on a file that is no dump it has touched nothing, on one
\* that is it may have restored some of the tables.
RestoreFails(j) ==
    LET d == dumps[job[j].file]
    IN  /\ job[j].pc = "restore"
        /\ \/ UNCHANGED <<base, blurred>>
           \/ /\ d.whole
              /\ \E rows \in {base.rows, d.base.rows}, next \in {base.next, d.base.next},
                    log \in {base.log, d.base.log} :
                   base' = [rows |-> rows, next |-> next, log |-> log]
              /\ blurred' = TRUE
        /\ Finish(j)
        /\ UNCHANGED <<dumps, second, restored, jobs>>

LogRestore(j) ==
    /\ job[j].pc = "log"
    /\ base' = [base EXCEPT !.log = @ \cup {[event |-> "restore", ok |-> TRUE,
                                   backup |-> job[j].backup, file |-> job[j].file]}]
    /\ job' = [job EXCEPT ![j].pc = "mark"]
    /\ UNCHANGED <<dumps, second, restored, blurred, jobs>>

\* The record of the backup, if the restored database has one of that number.
MarkRestored(j) ==
    LET n == job[j].backup
    IN  /\ job[j].pc = "mark"
        /\ base' = IF n \in DOMAIN base.rows
                   THEN [base EXCEPT !.rows[n].status = "restored"] ELSE base
        /\ Finish(j)
        /\ UNCHANGED <<dumps, second, restored, blurred, jobs>>

DeleteBackup(n) ==
    /\ Counted
    /\ n \in DOMAIN base.rows
    /\ base.rows[n].status # "deleted"
    /\ base' = [base EXCEPT !.rows[n].status = "deleted"]
    /\ UNCHANGED <<dumps, second, job, restored, blurred>>

\* The process stops; a statement that fails, or an update script that runs out
\* of time, ends a request the same way.
BackupCrash(j) ==
    /\ job[j].pc # "idle"
    /\ Finish(j)
    /\ UNCHANGED <<base, dumps, second, restored, blurred, jobs>>

BackupNext ==
    \/ Tick
    \/ \E j \in Job :
         \/ \E upgrade \in BOOLEAN : Dump(j, upgrade) \/ DumpFails(j, upgrade)
         \/ RecordBackup(j) \/ RecordFails(j) \/ NoteUpdate(j)
         \/ \E n \in Number : FindBackup(j, n)
         \/ Restore(j) \/ RestoreFails(j) \/ LogRestore(j) \/ MarkRestored(j)
         \/ BackupCrash(j)
    \/ \E n \in Number : DeleteBackup(n)

BackupSpec == BackupInit /\ [][BackupNext]_backupVars

-----------------------------------------------------------------------------
(* Properties.                                                             *)

\* The name of every listed backup is the name of a file, and what is marked
\* restored was restored.
ListedIsKept ==
    \A n \in DOMAIN base.rows :
      LET r == base.rows[n]
      IN  /\ r.file \in DOMAIN dumps
          /\ ~blurred => /\ dumps[r.file].whole
                         /\ r.status = "restored" => r.file \in restored

\* The number and the file of an update's backup in the history are those of
\* one record, and it precedes none of those its dump holds.
HistoryNamesBackup ==
    ~blurred => \A e \in base.log :
      e.event = "update" /\ e.backup # 0 =>
        e.backup \in DOMAIN base.rows /\ base.rows[e.backup].file = e.file

\* Backups can be relied on, across restores of older ones, as long as no
\* request overlaps a restore, no restore is cut half-way and no two dumps
\* share a second: a listed backup has its dump, a restored one was restored, an
\* update in the history names its backup, and the sequence is past the records.
BackupsSound ==
    /\ ListedIsKept
    /\ HistoryNamesBackup
    /\ ~blurred => \A n \in DOMAIN base.rows : n < base.next
=============================================================================
