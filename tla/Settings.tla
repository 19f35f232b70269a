------------------------------ MODULE Settings ------------------------------
(***************************************************************************)
(* Runtime settings (state/settings.py, api/settings.py): rows of          *)
(* ocpp.settings, read through a cache of 60 seconds.  An update reads the *)
(* setting, by way of the cache, merges what it was sent, and writes the   *)
(* whole value back.  Settings are independent of each other: this is one. *)
(***************************************************************************)
EXTENDS Naturals

CONSTANTS
    Reader,         \* requests that read or update the setting
    Secret,         \* values of its secret field
    Plain,          \* values of its other fields
    Mask,           \* "****": the secret is to stay as it is
    Default,        \* the default of a field
    MaxUpdates,     \* bound: updates
    ReadFaults      \* TRUE: a read of the database may fail

ASSUME SettingsAssumption ==
    /\ Mask \notin Secret \cup Plain
    /\ Default \notin Secret \cup Plain \cup {Mask}
    /\ MaxUpdates \in Nat
    /\ ReadFaults \in BOOLEAN

VARIABLES
    row,      \* the row: Defaults when it is missing, and only then
    entry,    \* the cache entry
    reader,   \* what a request is suspended before, and its local variables
    raced,    \* history: a write came between a read or write and its caching
    updates   \* number of updates so far

settingsVars == <<row, entry, reader, raced, updates>>

-----------------------------------------------------------------------------
Value == [secret : Secret \cup {Default}, plain : Plain \cup {Default}]

Defaults == [secret |-> Default, plain |-> Default]

\* sent is what an update was given; a plain read sends nothing.
ReaderStep == [pc : {"idle", "load", "fill", "put", "refresh"}, update : BOOLEAN,
               sent : [secret : Secret \cup {Mask}, plain : Plain] \cup {Defaults},
               val : Value]

NoReader == [pc |-> "idle", update |-> FALSE, sent |-> Defaults, val |-> Defaults]

SettingsTypeOK ==
    /\ row \in Value
    /\ entry \in [val : Value, fresh : BOOLEAN]
    /\ reader \in [Reader -> ReaderStep]
    /\ raced \in BOOLEAN
    /\ updates \in Nat

SettingsInit ==
    /\ row = Defaults
    /\ entry = [val |-> Defaults, fresh |-> FALSE]
    /\ reader = [r \in Reader |-> NoReader]
    /\ raced = FALSE
    /\ updates = 0

-----------------------------------------------------------------------------
\* The mask leaves the secret that was read; other fields are replaced.
Merge(old, sent) ==
    [secret |-> IF sent.secret = Mask THEN old.secret ELSE sent.secret,
     plain  |-> sent.plain]

\* What a request does with the setting it asked for.
Got(k, v) ==
    IF k.update THEN [k EXCEPT !.pc = "put", !.val = Merge(v, k.sent)] ELSE NoReader

\* get_setting: a fresh entry answers at once.
AskFor(r, k) ==
    reader' = [reader EXCEPT ![r] =
                 IF entry.fresh THEN Got(k, entry.val) ELSE [k EXCEPT !.pc = "load"]]

GetSetting(r) ==
    /\ reader[r].pc = "idle"
    /\ ~entry.fresh
    /\ AskFor(r, NoReader)
    /\ UNCHANGED <<row, entry, raced, updates>>

UpdateSetting(r, secret, plain) ==
    /\ reader[r].pc = "idle"
    /\ updates < MaxUpdates /\ updates' = updates + 1
    /\ AskFor(r, [NoReader EXCEPT !.update = TRUE,
                                !.sent = [secret |-> secret, plain |-> plain]])
    /\ UNCHANGED <<row, entry, raced>>

\* A missing row is answered with {} and not cached.
Load(r) ==
    /\ reader[r].pc = "load"
    /\ reader' = [reader EXCEPT ![r] =
                     IF row = Defaults THEN Got(@, Defaults)
                     ELSE [@ EXCEPT !.pc = "fill", !.val = row]]
    /\ UNCHANGED <<row, entry, raced, updates>>

\* A read that fails answers {}, which the caller completes with defaults.
LoadFails(r) ==
    /\ ReadFaults
    /\ reader[r].pc = "load"
    /\ reader' = [reader EXCEPT ![r] = Got(@, Defaults)]
    /\ UNCHANGED <<row, entry, raced, updates>>

Fill(r) ==
    /\ reader[r].pc = "fill"
    /\ entry' = [val |-> reader[r].val, fresh |-> TRUE]
    /\ reader' = [reader EXCEPT ![r] = Got(@, @.val)]
    /\ UNCHANGED <<row, raced, updates>>

\* get_all_settings reads past the cache, and caches the rows there are.
GetAll(r) ==
    /\ reader[r].pc = "idle"
    /\ row # Defaults
    /\ reader' = [reader EXCEPT ![r] = [NoReader EXCEPT !.pc = "fill", !.val = row]]
    /\ UNCHANGED <<row, entry, raced, updates>>

Caching(R) == \E q \in R : reader[q].pc \in {"fill", "refresh"}

PutSetting(r) ==
    /\ reader[r].pc = "put"
    /\ row' = reader[r].val
    /\ reader' = [reader EXCEPT ![r].pc = "refresh"]
    /\ raced' = (raced \/ Caching(Reader \ {r}))
    /\ UNCHANGED <<entry, updates>>

\* Faulty: the entry is left to run out.
RefreshLeft(r) ==
    /\ reader[r].pc = "refresh"
    /\ reader' = [reader EXCEPT ![r] = NoReader]
    /\ UNCHANGED <<row, entry, raced, updates>>

Refresh(r) ==
    /\ reader[r].pc = "refresh"
    /\ entry' = [val |-> reader[r].val, fresh |-> TRUE]
    /\ reader' = [reader EXCEPT ![r] = NoReader]
    /\ UNCHANGED <<row, raced, updates>>

\* Sixty seconds pass.
Expire ==
    /\ entry.fresh
    /\ entry' = [entry EXCEPT !.fresh = FALSE]
    /\ raced' = (raced /\ Caching(Reader))
    /\ UNCHANGED <<row, reader, updates>>

SettingsNext ==
    \/ \E r \in Reader :
         \/ GetSetting(r) \/ GetAll(r) \/ Load(r) \/ LoadFails(r) \/ Fill(r)
         \/ PutSetting(r) \/ Refresh(r)
         \/ \E secret \in Secret \cup {Mask}, plain \in Plain :
              UpdateSetting(r, secret, plain)
    \/ Expire

SettingsSpec == SettingsInit /\ [][SettingsNext]_settingsVars

-----------------------------------------------------------------------------
(* Properties.                                                             *)

\* Every reader sees the last update: a fresh entry is the row, unless an
\* update has yet to refresh it, or an update was written while another
\* request was about to fill the cache; and such a stale entry is gone with
\* its sixty seconds.
SettingCacheFresh ==
    entry.fresh =>
        entry.val = row \/ raced \/ \E r \in Reader : reader[r].pc = "refresh"
=============================================================================
