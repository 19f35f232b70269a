# Verification of the OpenCPO core

OpenCPO is a charging station management system: chargers connect over OCPP
(1.6 or 2.0.1) websockets, sessions are recorded in PostgreSQL, live state in
Redis, and every session ends in a charge detail record (CDR) that is billed.
This directory holds TLA+ models of its core logic, the TLC configurations that
check them, and TLAPS proofs of what matters most. Paths below are relative to
the repository.

    tlc -workers 2 -config Sessions16_faults.cfg MCSessions16
    tlapm Sessions16Proofs.tla

`PROJECT.json` names the lines each definition models (`map`), the hazards the
properties are aimed at, the runs, and for every property a plausible bug
(`mutants`) that the property catches. The definitions commented `Faulty:` are
those bugs; no specification uses them.

## 1. The system

One Python process runs everything on one asyncio event loop (`main.py`): two
websocket servers, the REST API, the billing consumer and short-lived
background tasks. A coroutine runs undisturbed between two awaits; at an await
any other may run. Shared state is of three kinds: tables in process memory
(connections, handlers, outstanding calls), Redis (live hashes, queue, stream)
and PostgreSQL. Nearly every statement is autocommitted; only the start and
the completion of a session are transactions.

| Component | State it keeps | Operations | Interacts with |
|---|---|---|---|
| Sessions 1.6 (`ocpp16/session.py`, `meter.py`) | `ocpp.sessions`, `meter_values`, `cdrs`, Redis `session:<id>` | StartTransaction, MeterValues, StopTransaction, CDR | stream, public sessions |
| Event bus (`events/bus.py`) | Redis stream, consumer group | publish, ensure_group, consume, ack | every handler publishes |
| Billing consumer (`events/consumers/lago_billing.py`) | none of its own | handle a CDR, POST to Lago | bus, Lago (external) |
| Connections (`ocpp16/server.py`, `ocpp201/server.py`, `main.py`) | tables of sockets, handlers and outstanding calls | connect, disconnect, message, send | chargers, charger rows |
| Pending starts (`ocpp16/handler_helpers.py`, `api/public.py`) | Redis `pending_start:*` with a TTL | payment webhook, queue, deliver, retry, fail | payment provider, chargers |
| Public sessions (`api/public_sessions.py`) | `ocpp.public_sessions` | create, pay, cancel, stop | pricing, pending starts |
| Sessions 2.0.1 (`ocpp201/`) | the same tables, and a cache of open transactions | TransactionEvent started/updated/ended | as 1.6 |
| Tokens, authorization (`api/tokens.py`, `ocpi/tokens.py`, both handlers) | `tokens`, `authorization_cache`, the last billing context of a handler | authorize, token life cycle, OCPI push | roaming partners |
| Stale session closer (`tasks/stale_sessions.py`) | none; it writes sessions and Redis | close what is no longer metered | sessions, connector status |
| PKI, certificate wizard (`pki/`, `api/pki.py`, `api/cert_setup.py`) | key and certificate files, certificate rows, setup tokens | start-up hierarchy, issue, revoke, validate | 2.0.1 security |
| Caches (`state/settings.py`, `api/pricing.py`) | in-memory values with a time stamp | read-through load, put, invalidate | every request |
| Administration (`api/users.py`, `admin_setup.py`, `admin_backup.py`, `admin_update.py`, `ratelimit.py`) | users, setup flags, backup records, update history | create, disable, log in, back up, restore | REST clients, scripts |
| Drivers (`api/accounts.py`, `public_auth.py`) | accounts, tiers, login codes in Redis | register, link sessions, verify a code | public sessions |
| Fleet (`api/charger_commands.py`) | charger rows and hashes | create, update, delete | the chargers' messages |
| Charger profiles (`charger_profiles/`) | ordered list in memory | register, resolve | boots and heartbeats |
| Live feeds and telemetry (`api/events.py`, `api/ems.py`) | a consumer group per client, telemetry rows | follow, ingest | bus |
| OCPI credentials (`ocpi/credentials.py`, `api/ocpi_management.py`) | partner rows, tokens A/B/C | handshake, update, delete | partners |
| CRUD and reports (vehicles, tariffs, push, ...) | one table each | single statements | – |

What is hard, and what correctness means for each part:

* **Sessions.** The server disables pings (`ocpp16/server.py:34`), so a socket
  that went silent lives beside its successor and their handlers interleave at
  every await; chargers repeat a message that was not answered; an exception or a
  crash cuts a handler anywhere. Correct: no session is billed twice or for
  another energy than its row keeps; a completed session never changes; Redis and
  the receipt agree with the row.
* **Bus and billing.** At-least-once delivery is claimed over a stream that is
  trimmed, a group that survives restarts and a Lago that fails. Correct: no entry
  is billed twice or passed over; what is published is delivered.
* **Connections.** A socket's `finally` runs long after a successor registered.
  Correct: the tables name an open socket, and a charger is online only while
  it has one.
* **Pending starts and payments.** Webhooks repeat and reorder; boot and every
  heartbeat start a task over the same queue; keys expire. Correct: only a paid
  session is started, and every paid one is started or given up, the latter not
  before its retries are used.
* **Sessions 2.0.1.** A handler caches transaction ids across reconnects.
  Correct: the same ledger as 1.6.
* **Authorization.** Two sources (own cards, partners' cache), written by several
  statements. Correct: the log and the replacement of a card explain its status, and a
  purge leaves no log of the cards it takes; a
  session is billed only to a group some card vouched for; a charger is answered as
  the partner last said.
* **PKI.** Start-up writes many files; tokens are checked long before they are
  consumed. Correct: every certificate can be verified after any crash; of a user's
  certificates only the current one lives; one certificate for a setup token.
* **Caches.** Loads overtake each other. Correct: a fresh entry is the row.
* **Fleet.** Deletion goes table by table beside a charger that talks. Correct:
  what was answered as deleted is gone.
* **Administration and drivers.** Check-then-act across awaits. Correct: one first
  administrator, a used code gives one token, a session keeps its owner, a listed
  backup exists.
* **Live feeds.** The answer is sent before the stream's group exists, and the group
  is destroyed in a scope that is being cancelled. Correct: from the moment its group
  exists a client sees every entry it can count on once and in order, up to what Redis
  trimmed or lost.

## 2. Plan

| Order | Module | Contents | State |
|---|---|---|---|
| 1 | `SessionLedger` | abstract: what sessions promise the billing | done |
| 2 | `Sessions16` + `MCSessions16` | the 1.6 handlers, await by await | done |
| 3 | `Sessions16Proofs` | inductive invariant, refinement of the ledger | done |
| 4 | `EventBus` + `MCEventBus` | bus and billing consumer, liveness | done |
| 5 | `ChargerReach` | abstract: when a charger can be reached, and what becomes of a command | done |
| 6 | `ChargerLink` + `MCChargerLink` | sockets, tables of connections and handlers, online flag | done |
| 7 | `ChargerLinkProofs` | inductive invariant, refinement of `ChargerReach` | done |
| 8 | `PaidStart` + `MCPaidStart` | payments, RemoteStart, queue of pending starts, cancellation | done |
| 9 | `Sessions201` + `MCSessions201` | the 2.0.1 handlers and their cache, a second implementation of `SessionLedger` | done |
| 10 | `Cards`, `Roaming` + `MCAccess` | cards, groups, Authorize; partners, token pushes | done |
| 11 | `Pki`, `Settings`, `Pricing`, `SetupWizard`, `Backups`, `LoginCodes`, `Profiles` + `MCPlatform` | the services around charging | done |
| 12 | `Fleet`, `Drivers`, `StaleCloser`, `LiveFeed` + `MCServices` | what operators, drivers, the closer and clients do beside the sessions | done |
| 13 | `Sessions201Proofs`, `EventBusProofs`, `PaidStartProofs` | inductive invariants, the ledger refinement of 2.0.1 | done |
| 14 | `AccessProofs`, `ServicesProofs`, `PlatformProofs` | inductive invariants of the modules of 10 to 12 | done |
| 15 | `Sessions16Proofs` | `StreamOrder`, `EnergyAudited`, `ShownIsTrue`, each with an invariant beside `IInv` | done |

Composition: `Sessions16` and `Sessions201` both implement `SessionLedger` and
publish the events whose order `StreamOrder` and `StopFollowsCdr` fix;
`EventBus` consumes such a stream (its `Publish` is unconstrained, which covers any
order of producers). `PaidStart` is built on `ChargerReach`, whose variables and
steps it shares, and `ChargerLink` implements `ChargerReach`: what is shown of a
paid start holds over any connections that do. `PaidStart` has a public session up
to its link to a transaction, where `Sessions16` takes over. The modules of 10 to
12 write tables of their own; where one of them needs what another component does
(`StaleCloser` the handlers of a session, `Fleet` the messages that create rows,
`Drivers` the creation of a public session) it has that component's effect on its
own table. `MCAccess`, `MCPlatform` and `MCServices` instantiate several of them at
once: a variable `part` names the module whose steps a behaviour takes, so the states
of the parts add up instead of multiplying, and nothing is lost since they share
no variable.

No theorem is left in the plan: what section 6 lists as only model-checked is refuted
or a liveness property.

## 3. Modules

### SessionLedger

Three variables by session: `phase`, running `energy`, `bills`. `Open`, `Grow`,
`Close` and `Bill` are the only changes. `Close` takes a set because the code
completes every active row that matches in one UPDATE. It may lower the
energy: the register of the StopTransaction decides, not the last reading.

### Sessions16

| Variable | Code |
|---|---|
| `rows` | `ocpp.sessions`: status, charger, transaction id, `meter_start`, `meter_stop`, `energy_kwh` |
| `audit` | `ocpp.meter_values`: the registers stored for a session, or for none |
| `pub` | `ocpp.public_sessions`: linked transaction id, running energy, stopped |
| `cdrs` | `ocpp.cdrs`: the energies of the records of a session, in order of insertion |
| `live` | Redis `session:<id>`: absent, written by a start, or re-created by a reading |
| `stream` | what the handlers passed to `publish`, in order |
| `task` | for a connection: the await its handler is suspended at, and its local variables |
| `msgs` | number of messages received; bound only |

A handler is a chain of actions, one from each await to the next:
`StartTransaction` (the open transaction) → `StartCommit` → `StartLive` →
`StartEvent` → `StartLink`; `StopTransaction` (one committed transaction) →
`StopPub` → `StopLive` → `CdrRead` → `CdrInsert` → `CdrEvent` → `StopEvent`;
`MeterValues` (the lookup) → `MeterAudit` → `MeterLive` → `MeterRow` →
`MeterPub` → `MeterEvent`. `Abort` ends a handler at any await: the exception
answered with InternalError (`_handle_call`), a lost connection, or the death of
the process (several aborts). Nothing the handler wrote is undone, except the
uncommitted row.

Choices a reader of the code may ask about:

* A database transaction is one step at its commit. The start is two steps:
  its `MAX(transaction_id) + 1` is read from what others have committed so far
  (READ COMMITTED), and another transaction may commit before this one does. The stop
  is one: its UPDATE locks the row and re-evaluates the status.
* `StopTransaction` picks any matching row both for `meter_start` and for the
  returned row, as the SELECT and UPDATE … RETURNING have no order.
* A reading is one register value; which sampled value becomes the register, its
  unit and its phase are parsing and not modelled, nor are power, current and state of
  charge. A MeterValues with several entries repeats the steps of `MeterValues`.
* `SessionEnergy` keeps the code's truth tests: a register or start of zero is
  missing.
* A charger may send any register of `Register`, and any transaction id that
  was ever given out (0: none), whatever it sent before: this includes repeated, late
  and reordered messages.
* An APP_ tag names its public session exactly; the code matches the prefix.
* Left out: the notification and receipt mails and the price calculation (best
  effort, guarded by their own `try`, read-only for this state); the connector
  columns; billing groups; reads from a replica that lags.

### Sessions16Proofs

What a step does to a row (`Lasting`), to a handler and to an appended stream
(`MarkedMore`, `StreamGrows`); preservation of each part of the invariants `IInv`,
`StreamInv`, `AuditInv` and `CalmInv`; the theorems of section 6.

### EventBus

| Variable | Code |
|---|---|
| `stream`, `first` | the Redis stream `ocpp:events`; entries below `first` were trimmed |
| `group`, `cursor`, `pending`, `acked` | the consumer group of Lago, its last delivered id and pending list |
| `pc`, `batch` | the consumer task: position in `consume` and the body, entries read and unfinished |
| `billed`, `failed` | what Lago accepted (external); what `_send_to_lago` logged as failed |
| `faults` | number of faults so far; bound only |

`Publish` is XADD with an approximate MAXLEN, so how much is trimmed is a
choice above the bound. `Read` is XREADGROUP `>`: the entries
are pending as soon as Redis has sent them, whether the answer arrives or not. `Take`
acknowledges entries of other types at once, `Body` is the consumer's loop body
and `Ack` the acknowledgement after `yield`. `Crash` is the death of the process,
after which docker restarts it; `Raise` is an exception of `ensure_group` or of the
subscription lookup, which ends the task while the process goes on without it
(`main.py:230`, `gather` only collects the exception). Lago drops a repeated event by its transaction id (external);
`billed` does not rely on that. The groups of the live feeds are in `LiveFeed`;
history reads change nothing. `EventBusProofs` has its inductive invariant.

### ChargerReach

Two variables by charger: `up`, whether it has an open socket, and `reg`, the
socket registered for it. `Arrive`, `Lose`, `Forget` and `Reset` are the only
changes, and `SendTo` is what a command can come to. It promises that a socket
is registered when it is opened and that a registered open socket is the charger's;
it does not promise that an open socket stays registered, since it does not.

### ChargerLink

| Variable | Code |
|---|---|
| `net` | the socket as the charger sees it |
| `coro` | the coroutine of the socket (`_handler` and `on_connect_16`): its message loop, the await its handler is at, or its end |
| `conns` | `OCPP16Server._connections` |
| `handlers` | `main._handlers_16`; a handler is named by the socket it was made for |
| `shown`, `row` | status in Redis `charger:<id>`, and in `ocpp.charge_points` |
| `crossed`, `faults` | history: chargers whose sockets overlapped; number of faults |

`Connect` registers socket and handler, with no await in between. `Drop` is the
charger's side only: without pings the server finds out at `Detect`, any time
later. `Detect` is the `finally`: it pops both entries by charger
id, then `OffLive` and `OffRow` are the awaits of `on_disconnect`, which
runs on the handler that was popped. `Heartbeat` → `HeartbeatRow` → `Spawn`
and `BootNotification` → `BootLive` → `Spawn` are the handlers that write the
status. `Abort` is a raising await, `Restart` the death and restart of the
process: tables gone, sockets closed, Redis and the database as they were.

Choices: a socket is opened once, and a charger opens one only when it has lost
the last. A message may be handled after the socket dropped (it was buffered).
The receipt of a heartbeat is merged with its first write, and the event, the
resolved profile and the scheduling of tasks with the answer (`Spawn`): none of
them changes a variable of the model. Connector states and the table of
outstanding calls are left out. The 2.0.1 server is the same but for its heartbeat, which does
not set the status.

### PaidStart

| Variable | Code |
|---|---|
| `up`, `reg` | from `ChargerReach` |
| `pay`, `started` | `public_sessions.payment_status` and `started_at` |
| `queue` | Redis `pending_start:<charger>:<session>`: the `retries` of the value |
| `hook` | a webhook request: step, session, the status it brings |
| `task` | a run of `_process_pending_starts`: step, charger, keys left, local variables |
| `told`, `charged`, `fails`, `dropped` | history: a RemoteStart left (or was lost on a dead socket); a webhook set the session to paid; failed sends; how a queued start ended without one |

The webhook is `HookRead` → `HookUpdate` → `HookTrigger` → `HookQueue`, a
task `TaskKeys`, then for each key `TaskGet` and either `TaskDrop` →
`TaskFail` or `TaskSend` → `TaskDelete` or `TaskRequeue`. `Heartbeat`
schedules a task, as a boot does. `Create`, `Cancel` and `StartLinked` are the rest of the
life of the session, `Expire` the TTL, `AbortHook`, `AbortTask` and
`Restart` the faults.

Choices: `paid` and `authorized` are one state, since every test treats them
alike; every other status a provider may send is `refused`, and `cancelled` is the driver's. `Cancel` is one step,
because `started_at` is never cleared and the UPDATE tests it again. `Create` has no guard:
the duplicate check looks back two minutes only. A task has a slot of
`Task`, and a heartbeat that finds none free starts none. The 2 s delay before a send is
the await before `TaskSend`. A `RemoteStart` that was sent is
what makes a later link possible (`StartLinked`); a charger that rejects it is
a charger that never links. `PaidStartProofs` has the inductive invariant.

### Sessions201

| Variable | Code |
|---|---|
| `rows`, `cdrs`, `live`, `stream` | as in `Sessions16`; of the stream only STOP and CDR |
| `cache` | `_active_transactions` of a connection's handler |
| `task` | the await a handler is suspended at, and its local variables |
| `due`, `ender` | history: the energy a record was made from; the connection that completed a session |

`Started` → `StartLive` → `StartEvent`; `Updated`, `Ended` and `MeterValues` process
their reading by `MeterLive` → `MeterRow` → `MeterEvent`, then `Updated` may write
the charging state (`StateLive`) and `Ended` goes on with `Complete` → `StopLive` →
`CdrRead` → `CdrInsert` → `CdrEvent` → `StopEvent`. `Abort` as in `Sessions16`.
A session is looked up in the cache first, then among the active rows of the
charger. `MeterRow` takes the maximum whatever the status: that a session closed by
another connection can still grow is what `LateEnergyIsForeign` says, and why the
refinement maps the ledger's close to the making of the record (`due`).

`Sessions201Proofs` has the inductive invariant, and the refinement of the ledger.

Choices: asyncpg would refuse the string timestamps and dictionaries that some
statements of the 2.0.1 handlers pass; they are modelled with the effect intended,
and `Abort` covers the refusal. The insert of a reading is merged with the event of
the same reading; inserting a session and caching it is one step. The early return
of `_generate_cdr` for a missing row is never taken, as no session is deleted here.

### Cards, Roaming

`Cards`: `card`, `audit` and `group` are `ocpp.tokens`, the last entry of a card in
`ocpp.token_events` and `ocpp.token_groups`; `req` a request of the API between its
statements; `line` a connection with what its Authorize found and
`_last_auth_billing`. `CreateCard`, `UpdateCard`, `ChangeStatus` → `WriteStatus` →
`LogStatus`, `Replace` → `ReplaceInsert` → `ReplaceSwap` → `ReplaceLogOld` →
`ReplaceLogNew`, `Purge` → `PurgeTrail` → `PurgeRows`, `DeleteGroup` → `DropGroup`; `CompatCreate`, `CompatUpdate`
and `CompatDelete` are the older endpoints of `api/auth.py` that write the same
table without logging; `CutRequest` a failing statement or a crash. `Authorize` →
`Authorized`, `AuthorizeApp` and `StartTransaction` are the 1.6 handler's. History:
`vouched` (contexts of active cards looked up on a line) and `torn` (cards whose
update and log were cut or overtaken).

A purge is three autocommitted statements: it reads the ids of the test cards, deletes
the log of *those*, and then deletes the rows *by the patterns again*. Other requests
come in between, and either delete may fail. `found` are the ids it read; `Emptied` the
cards that have lost their log and not yet their row. `AuditExplains` excepts those, and
`PurgeClean` says what the three statements leave behind: no log of a purged card, unless
the card was made after the ids were read, or another request still had it to write or to log.

`Roaming`: `partner`, `token`, `rcache` are `ocpp.ocpi_partners`, `valid` of
`ocpp.ocpi_tokens`, and `ocpp.authorization_cache`. `PostCredentials`,
`DeleteCredentials`; the operator's `CreatePartner`, `UpdateStatus`, `UpdateFees` →
`WriteFees` (metadata is read, merged, written back) and `DeletePartner`; a push is
`Receive` → `WriteToken` → `WriteCache` and may be cut. Tokens A, B and C are
counted, not compared. `AccessProofs` has the inductive invariants of both, and what
follows for `AccessSpec`, in which either may move.

### Pki, Settings, Pricing, SetupWizard, Backups, LoginCodes, Profiles

* `Pki`. `files`: for each CA the generation of its key, of its certificate and of
  the signer; `boot` walks through the hierarchy file by file (`Initialize`,
  `SaveKey`, `SaveCert`) and `Crash` may come between any two. `Issue` → `Record`
  is the API; `CreateSetup`, `WizardIssue` → `Record` → `WizardMark` the wizard;
  `CreateUser`, `ReadForIssue` → `CommitIssue`, `ReadForRevoke` → `CommitRevoke`,
  `RevokeSerial`, `RevokeAccount` → `RevokeNext` the users and revocations. Keys and
  signatures are numbers: a certificate verifies if the CA that signed it is on disk.
* `Settings`. One row, one cache entry. `GetSetting` → `Load` → `Fill` is the
  read-through load; `UpdateSetting` merges what it was sent into what it read,
  then `PutSetting` → `Refresh`; `Expire` ends the sixty seconds. The mask
  keeps the secret that was *read*.
* `Pricing`. `GetSpotPrice` → `ReadSource` → `ReadManual` → `Fetch` or
  `FetchFails` → `Keep` against `Change` → `WriteKey` … → `DropSpot`.
* `SetupWizard`. `SetupAdmin` → `InsertAdmin`, `SetupStep` → `SaveData`,
  `SetStepFlag`, `CommitData`: the flag is set on a second connection, inside the
  transaction of three of the steps. `SkipStep`, `VisitFails`.
* `Backups`. `base` is the database as far as backups concern it, `dumps` the files;
  a dump holds a `base`, and `Restore` puts it back. The scripts run synchronously,
  so no other request takes a step meanwhile.
* `LoginCodes`. `otp` is the Redis key; `VerifyOtp` reads it, and `Grant`,
  `Refuse` or `Miss` writes or deletes it in another call.
* `Profiles`. `profiles` is `_PROFILES`; `RegisterProfile` inserts around the
  fallback, `BootHash` → `BootResolve` and `BeatResolve` → `NoteProfile` are the
  handler's. A pattern is the set of the models or firmware versions it matches; the
  three shipped profiles are in the module with theirs. `Kept`, the members of a list that
  are in a set, in their order, is every list comprehension and search of the
  registry; it and the loop over the file (`WithFile`) are recursive functions.
  `ProfilesOrdered` compares the registry with `Promised(registered)`, the order the
  docstrings promise for the history of registrations: the same length, the same
  sequence of profiles that are not the fallback, and `Generic` at the end, always;
  the very same list, and the first match for every handler, if no
  registration and no profile of the file takes the fallback's id.

`PlatformProofs` has the inductive invariants of the seven, each of the
component's own specification (`Spec` of `Pki`, `SettingsSpec`, `PricingSpec`,
`SetupSpec`, `BackupSpec`, `CodeSpec`, `ProfilesSpec`); each of these follows from
`PlatformSpec` (`PlatformParts`).

### Fleet, Drivers, StaleCloser, LiveFeed

* `Fleet`. `points`, `plugs`, `stay`, `shown`: the rows of chargers, connectors and
  sessions with their records, and the hashes. A deletion is `DeleteCharger` or
  `BulkDelete`, then `DeleteCdrs` → `DeleteSessions` → `DeleteRows` → `DropHash`,
  each a statement of its own; `SessionsRefused` and `RowsRefused` are its foreign
  keys. Beside it the charger boots, beats, reports status, opens and ends
  sessions.
* `Drivers`. `Register` → `InsertAccount` → `LinkSessions`, `SetPhone` →
  `LinkSessions`, `OpenRide`. A phone number is a text, bare or padded.
* `StaleCloser`. A scan is one transaction: what it updates shows at `ScanCommits`,
  what it deletes in Redis at once. `LookAtPlug` → `MarkClosed` → `DropLive` for each
  listed row; `ScanFails` rolls back. The steps of the 1.6 handlers are those of
  `Sessions16` reduced to status, hash and record. The age of the last reading is one
  of four values (`Metered`), which are what the two queries tell apart.
* `LiveFeed`. `follow` is a client's stream with its filter and batch, `group` its
  consumer group. `Follow` (or `ChargerLive`, `SessionLive`) → `Respond` → `Join` →
  `ReadFeed` → `SendEntry` … → `StreamEnds`. `Respond` is a step of its own because
  `StreamingResponse` sends the start of the response before the generator creates the
  group: `Join` counts what was published in between as `missed`. `Unknown` is a name in
  a filter that stands for nothing; as a type it is dropped (`Want`), and a filter that
  is empty then is no filter (`Wanted`), as a charger it is kept. In `StreamEnds` the
  group may stay without any fault: a client that leaves has the server cancel the scope
  of the stream, `consume` swallows the first `CancelledError`, and the `await` in the
  `finally` raises the next one. `JoinFails` is an error of Redis before that. A site's
  telemetry is `PostRow` → `PostEntry` → `PostAnswer`. `FeedSound` says that what a
  client got is, as a set, what it can count on (`Promised`, stated without the code's
  notion of a filter) and did not miss, and that it got it in increasing order: that is
  the sequence owed.

`ServicesProofs` has the inductive invariants of the four, each of the component's
own specification, and what follows for the four together.

## 4. Runs

| Run | Instance | Shows |
|---|---|---|
| `faults16` | one charger, two connections, two sessions, registers 1 and 3, four messages, aborts | `BilledOnce`, `StreamOrder`, `EnergyAudited` and the ledger (`LedgerSpec`) hold under every interleaving and failure |
| `serial16` | two chargers with a connection each, one public session, registers 0, 1, 3, three messages, no failure | what holds when nothing fails: `ShownIsTrue` (Redis holds exactly the active sessions, the receipt is the bill), and under fairness `CompletedIsBilled` |
| `lost_cdr` | as `serial16`, with aborts | violation: a completed session that is never billed |
| `sessions201` | one charger, two connections, two sessions and transactions, energies 0 to 2, four messages, aborts | `SessionsSound`, `LateEnergyIsForeign`, and the same ledger (`LedgerSpec`) |
| `bus_faults` | stream of at most 3 (4 published), batches of 2, two faults of any kind | `BilledInOrder`, `EntriesAccounted`, and under fairness `SettledInTheEnd` |
| `bus_redelivery` | one crash | violation: an entry read before the crash is pending for ever |
| `link` | two sockets of one charger and one of another, an abort or a restart | `RegisteredIsServed`, `StatusSettled`, and `ChargerReach` is implemented (`ReachSpec`) |
| `overlap` | two sockets of a charger, no fault | violation: the end of the old socket takes the new one out of the tables |
| `paid_start` | one session, two webhooks, two tasks, 2 retries, an abort or a restart | `StartsJustified`, `PaidIsAccounted`, and under fairness `PaidIsResolved` |
| `access` | two cards, one group, two requests, one line, four requests in all; the same with a third card and no group or line, three requests in all; one partner with two pushes and two edits over two tokens, five requests; cuts | `CardsSound`, `ContextTrusted`, `RoamingSound` |
| `platform` | two actors of each kind (three readers of a setting), two crashes, and the bounds of `Platform.cfg` | `PkiSound`, `SettingCacheFresh`, `SpotFresh`, `SetupSound`, `BackupsSound`, `CodesSpent`, `ProfilesOrdered` |
| `services` | two chargers (one simulated), one session, two deletions; two accounts, two sessions, three forms; two sessions and a scan; a site, another topic, an unknown name, a client, three entries, one fault | `FleetSound`, `RidesOwned`, `CloserSound`, `FeedSound` |

The three violations are the `findings` of `PROJECT.json`, with the lines they
contradict. `TypeOK` and its kin (`AccessTypeOK`, `PlatformTypeOK`, `ServicesTypeOK`)
are checked with them.

**Properties that name their exceptions.** Much of this code checks, awaits, and
acts. A property of it is stated as strongly as the code keeps it, and the history
variable it excepts (`torn`, `raced`, `late`, `rushed`, `blurred`, `mixed`, `crossed`,
`missed`, `touched`) is set only by the step that opens the window: another request
that overlaps, a cut between two statements, an entry Redis trimmed. So the property
also says that nothing else can break the promise.

**Bounds.** `MaxMsgs` and the size of `Sid` bound how much happens, not what may:
the hazards of `Sessions16` are between two handlers working on one session, or two
starts. One start, one reading, one stop and a repetition of any of them
(four messages) exhibit each of them; two sessions and two registers
above zero let an energy or a session be confused with another. Two
registers suffice because only their order and difference matter; 0 is
added where the truth tests do. No run has more than two connections; the proof of
section 6 covers any number. With `Sid` used up a start is not enabled, and no run
has more messages than can use it interestingly. In `EventBus`, a stream that
may keep 3 of 4 entries is the smallest in which an unread entry is trimmed while
another of its batch survives; batches of 2 leave an entry in a batch behind the one that fails; two faults
let a crash follow a lost answer. `CHECK_DEADLOCK FALSE` everywhere: a system
whose bounded input is used up stops.

In `ChargerLink` the hazard is the end of one socket beside its successor: two
sockets show it, a second charger shows that keys are not confused (longer chains are
covered by the proof). In `PaidStart` sessions share nothing but the list of
keys a task works through, so one session suffices; two tasks and two
webhooks are the fewest that race; `MaxRetries` is 2 in the run and 3 in
the code, and 2 already lets a counter be read, overwritten and read again.

In `sessions201` the four messages are a start, its end on one connection, and a
reading or a repetition on the other. In the last three runs every race is between
two requests over one row, key or file, so two actors and one thing they share
suffice, with a second thing where one can be taken for another (cards, tokens,
serials, accounts, sessions); what is bounded is how often anything starts, and
each bound lets a request follow on two that overlapped. A third reader of a setting
is what lets a stale entry be merged into an update. Seven entries of a code
are two more than the five attempts it allows. One scan of the closer meets both of its
queries; a second scan finds what the first left, which is what an active session
is. Cards are checked in two parts
(`part` of `MCAccess`): it takes two test cards to have one that a purge found and one made
since, so the part "purge" has a third card, and leaves out the groups and chargers that a
purge does not read; three requests (`MaxAlone`) are one that makes or changes a card, the
purge, and one that overlaps it. A stream that keeps one of three entries is the smallest in which a client's
read skips a trimmed entry and finds another.

Symmetric sets: `Sid` and `Conn` in `faults16`, also `Txn` in `sessions201`, the
requests and pushes in `access`, serials and requests in `platform`, the operators in
`services`; no run with symmetry checks liveness, and no definition chooses from
one of these sets.

## 5. Fairness

`FairSpec` of `Sessions16` assumes weak fairness of the next step of each
running handler: the event loop resumes a coroutine whose await completed, and the run
that uses it has no failures, so every await completes. No fairness is assumed
of messages or of aborts. `FairSpec` of `EventBus` assumes weak
fairness of the consumer, its restart included (docker-compose has
`restart: unless-stopped`); the faults are bounded, so a process that crashes for
ever is not covered. A task that ended while the process lives is *not* restarted,
so `DeliveredInTheEnd`, a part of `SettledInTheEnd`, excludes the behaviours in which it stays ended.
Publishing is not fair. `FairSpec` of `PaidStart` assumes weak fairness of the
next step of each webhook and task, and that a charger with an open socket goes on
sending heartbeats (it is told the interval in the answer to its boot); this needs
no registered socket, because the coroutine of a socket that lost its entry still
handles messages. Expiry, drops, cancellations and webhooks are not fair.

## 6. Proofs

`Sessions16Proofs` proves, from `SessionAssumption` only (types of the
constants; any number of connections, chargers, sessions, messages; with and
without faults):

| Theorem | Statement |
|---|---|
| `TypeCorrect` | `Spec => []TypeOK`; in particular no energy is ever negative |
| `HandlersApart` | `Spec => []HandlerInv` |
| `BillingOnce` | `Spec => []BilledOnce` |
| `LiveSessionsExist` | `Spec => []LiveHasRow` |
| `StreamInOrder` | `Spec => []StreamOrder` |
| `EnergyIsAudited` | `Spec => []EnergyAudited` |
| `CalmShownIsTrue` | `Spec => []ShownIsTrue`, if every charger has one connection and there are no faults (`Calm`) |
| `ImplementsLedger` | `Spec => LedgerSpec` |

`BilledOnce` is not inductive: `CdrInsert` appends without looking, so the
invariant has to know that a handler suspended before it works on a completed
session without a record, holds the energy of the row, and is the only one to do
so. `HandlerInv` says this: `Relies` is what a suspended handler may assume
at each of its awaits, `Apart` that two handlers are never both about
to open, or both about to bill, one session. `Apart` holds because
a session enters `UnbilledSteps` only through `StopTransaction`, which takes an
*active* row and leaves it completed in the same step, and because an id being
opened is `Fresh`. `LiveHasRow` and the fact that an unopened session has
no energy and no record (`Unopened`) complete the inductive invariant `IInv`.
The refinement maps `phase`, `energy` and `bills` to the columns of
`rows` and to `cdrs`; each action is a ledger step or a stutter: `StartCommit`
is `Open`, `MeterRow` is `Grow` or a stutter, `StopTransaction` is `Close`
of every matching row, `CdrInsert` is `Bill`, and `Abort` stutters.

The other three have an invariant each, inductive together with `IInv`:

* `StreamInv`: the handler that is about to publish the CDR finds neither CDR nor
  STOP of its session on the stream, the one about to publish the STOP finds the
  CDR and no STOP (`Announces`), and no two handlers stop one session
  (`StoppersApart`). That nothing is on the stream of a session being billed need not be
  kept: whatever is there carries a bill, and such a session has none
  (`UnbilledUnmarked`).
* `AuditInv`: a MeterValues handler holds the energy of its register over the start of
  its session, which never changes (`StartLasts`), and its register is in the audit
  trail before it gets to the row (`Reads`).
* `CalmInv`: a session has one handler at most (`OneHandler`), and its row, hash and
  bill are known at each step of it (`AtStage`) and between messages (`AtRest`); a
  charger's transaction ids increase (`TxnInv`); the receipt follows the session as long
  as no other has its transaction id (`PubOk`). `Calm` is what `serial16` supposes:
  without it `ShownIsTrue` does not hold, since an aborted handler leaves a hash or a
  receipt behind.

`ChargerLinkProofs` proves, from `LinkAssumption` only (any number of
chargers, sockets and restarts):

| Theorem | Statement |
|---|---|
| `LinkTypeCorrect` | `Spec => []TypeOK` |
| `TablesServed` | `Spec => []RegisteredIsServed` |
| `StatusSettles` | `Spec => []StatusSettled` |
| `ImplementsReach` | `Spec => ReachSpec` |

The inductive invariant adds `SocketInv` to the first two: a charger has at most one
open socket, and a coroutine exists exactly for a socket that was
opened. The refinement needs both: `Drop` is `Lose` only if no other socket of the
charger keeps it up, and a charger whose entry is gone is told apart from one
that never came by its sockets. `Connect` is `Arrive`, `Detect` is `Forget` or a
stutter, `Restart` is `Reset`, and everything else stutters.

`StatusSettles` needs `SettledInv`: of a charger whose sockets never crossed, and
without a fault, one coroutine at most is alive, its handler is registered while it
handles messages, and the await it is at tells how far the two copies of the status
have got (`Settling`).

`Sessions201Proofs` proves, from `Session201Assumption` and for any number of
connections, transactions and messages:

| Theorem | Statement |
|---|---|
| `TypeCorrect` | `Spec => []TypeOK` |
| `SessionsAreSound` | `Spec => []SessionsSound` |
| `LateEnergy` | `Spec => LateEnergyIsForeign`, an action property |
| `ImplementsLedger` | `Spec => LedgerSpec` |

The invariant is `TypeOK` and `Sound`: `HandlerInv`, what a handler may assume at
each await (in particular that the session it completes has no record yet and is
held by nobody else to be billed); `RowsSound`, a completed session has an
`ender` and its record the energy that was `due`; `CacheSound`, a cache names rows of
its own charger and transaction; and `StopFollowsCdr`. `LateEnergy` follows from
`HandlerInv`: a handler that completed a session works no more on its energy, so whoever
raises it is another one. The refinement maps `Close` to `CdrRead`, where the energy
is taken: not to `Complete`, after which it may still grow.

`EventBusProofs` proves, from `BusAssumption` and for any stream, batch and number
of faults:

| Theorem | Statement |
|---|---|
| `TypeCorrect` | `Spec => []TypeOK` |
| `BillingInOrder` | `Spec => []BilledInOrder` |
| `EntriesAreAccounted` | `Spec => []EntriesAccounted` |

The bills are in order because the entries a consumer holds are increasing, later than
all that was billed, and at or before the cursor; the entries at or before the cursor
are split between what is pending, acknowledged, trimmed and held.

`PaidStartProofs` proves, from `PaidAssumption` (types; and `None` is no session,
charger or number) and for any number of sessions, chargers, webhooks, tasks and
retries:

| Theorem | Statement |
|---|---|
| `TypeCorrect` | `Spec => []TypeOK` |
| `OnlyWithReason` | `Spec => []StartsJustified` |
| `PaidIsNotForgotten` | `Spec => []PaidIsAccounted` |

`HookSound` and `TaskSound` say what a webhook and a task may assume of the
session they carry (a webhook that triggers has set it to paid; the counter a task
read is one that was stored, and as many sends failed before), `PaidSound` and
`QueueSound` that what is queued, told or given up was paid, and `Accounted` that a paid
session is told, queued, carried by a coroutine, or on record as expired, failed or cut.

`AccessProofs` proves, from `CardAssumption` and `RoamingAssumption` (types; `Unset`
is no truth value):

| Theorem | Statement |
|---|---|
| `CardHistory` | `CardsSpec => []CardsSound` |
| `ContextIsVouched` | `CardsSpec => []ContextTrusted` |
| `RoamingIsSound` | `RoamingSpec => []RoamingSound` |
| `AccessTypeCorrect` | `AccessSpec => []AccessTypeOK` |
| `AccessIsSound` | `AccessSpec => [](CardsSound /\ ContextTrusted /\ RoamingSound)` |

For cards: a blank row was never logged (`BlankSound`); a request between its
statements still finds the row it read, or the card is `torn` (`ReqSound`); and what a
line carries was vouched for when it was looked up (`LineSound`), which the later
block of the card does not undo. Before the last statement of
a purge the cards it found have no log and none is on the way, and nobody is about to
write or log a purged card, but for the `torn` (`PurgeSound`). For partners: a push between its two writes has
written the token and owes the cache (`PushSound`, `CacheAgrees`), and an edit of fees
writes back what it read unless edits overlapped (`EditSound`, `FeesKept`).

`ServicesProofs` proves, from `FleetAssumption` (there is a station),
`DriverAssumption` (there is an email address), `CloserAssumption` and `FeedAssumption`:

| Theorem | Statement | Invariant, beside the types |
|---|---|---|
| `FleetIsSound` | `FleetSpec => []FleetSound` | `RefsSound` (records refer to sessions, sessions and connectors to chargers), `DeletionsSound` (what a deletion has passed is gone unless the charger spoke), `GoneSound`, `ShownSound` |
| `RidesKeepOwners` | `DriverSpec => []RidesOwned` | `FormsSound` (a form about to link has inserted its account, under its number), `ClosedSound` |
| `CloserIsSound` | `CloserSpec => []CloserSound` | session by session: `ScanSound`, `OpeningSound`, `ListSound`, `StopSound`, `LateSound` |
| `FeedIsSound` | `FeedSpec => []FeedSound` | client by client: what it got, its batch, and what lies between its cursor and the end of the stream are one increasing sequence (`StreamOk`, `SentOk`, by `Behind`); what it was sent by its filter is what it can count on (`PromisedIsWanted`); site by site: `SiteOk` |
| `ServicesTypeCorrect` | `ServicesSpec => []ServicesTypeOK` | |
| `ServicesAreSound` | `ServicesSpec` implies the four properties above | |

`PlatformProofs` proves, from the assumptions of the seven modules (for `Profiles`,
`ProfilesAssumption`: what a deployment registers and what a charger says are profiles
and identities):

| Theorem | Statement | Invariant, beside the types |
|---|---|---|
| `SettingsAreFresh` | `SettingsSpec => []SettingCacheFresh` | what a request is about to cache is the row, or a write came in between (`CachingSound`); `UpdatesSound` |
| `SpotObeysOperator` | `PricingSpec => []SpotFresh` | what a request has read of the operator's choices is so unless it is `late` (`QuotesSound`) |
| `CodesAreSpent` | `CodeSpec => []CodesSpent` | the stored code is the last one sent and its counter that of its misses (`KeysSound`, `InForce`, `CodesCounted`); what an entry has read is still so unless requests were `mixed` (`EntryOk`) |
| `SetupIsSound` | `SetupSpec => []SetupSound` | a visitor between two statements has saved what its flag will show (`VisitOk`); one visitor at most is about to insert the first administrator unless they `rushed` (`FirstAlone`, `AdminSaved`) |
| `CertificatesAreSound` | `Spec => []PkiSound` (of `Pki`) | `FilesSound` and `BootSound` (which files exist at each step of the start-up, and what each was signed with), `SignedSound`, `RowsListed`, what a request read of rows, users and tokens (`ReqsSound`), and of which certificate a token is worth (`TokensSound`) |
| `BackupsAreSound` | `BackupSpec => []BackupsSound` | the promise holds not of the database alone but of every dump too, since any of them may become the database (`RowsKept`); a dump was taken before its own record was numbered, so a database put back has no record of it (`JobOk`) |
| `ProfilesInOrder` | `ProfilesSpec => []ProfilesOrdered` | the registry is as long as promised, ends in `Generic`, has the promised specific profiles in their order, and is the promised list when none has the fallback's id (`InOrder`, `RegistryInOrder`); a handler holds the first match of the registrations counted when it resolved, which no later one changes (`HeldAsResolved`) |
| `PortableNeverHeld` | `ProfilesSpec => [](\A h \in Handler : held[h] # Hongjiali30)`, if `Hongjiali30 \notin Custom \cup Range(File)` | of the two rivals `Hongjiali120` is the first in every list the registry has (`Shadowing`) |
| `PlatformTypesCorrect` | `PlatformSpec => []PlatformTypeOK` | the seven invariants |
| `PlatformIsSound` | `PlatformSpec` implies the seven properties above | |

Lists of any length enter the profiles' proof, and no theorem of the library with an
operator parameter can be used for them. `SetInduction` and `SequenceSetInduction`
are induction for the members of a *set* of numbers or sequences: with the
set of those for which a lemma holds they show that `Kept` distributes over
concatenation, keeps what is wholly in its set, and keeps nothing of what is wholly outside
it. From these, a registration inserts one profile where `Promised` has it, and so
does each profile of the file.

In all of these the history variable a property excepts is in the invariant as it is in
the property, so what is proved is also that no other step opens the window.

Only model-checked, and why:

* `ConnectedIsRegistered`, `RedeliveredOnRestart` and `CdrPerCompleted` are refuted
  (section 4).
* `CompletedIsBilled`, `SettledInTheEnd`, `PaidIsResolved`: liveness under fairness.

`HandlersApart` and `LiveSessionsExist` are proved and checked by no run of their own:
`HandlerInv` and `LiveHasRow` are parts of the inductive invariant. Every inductive
invariant was model-checked on the instance of its component's run before it was proved.

## 7. Disagreements

Besides the three findings, reading the code against its documents for the models
showed the following; no run is spent on them.

* `ocpp16/session.py:46` computes `MAX(transaction_id) + 1` in an open transaction: two
  chargers that start at a time draw the same id, and a public session, which
  stores only that id (`db/schema.sql:139`), then names two sessions. `ShownIsTrue`
  therefore speaks of ids that name one session.
* `ocpp16/meter.py:29` returns 0 for a start of 0, so the first session of a charger
  whose register starts at zero is free; `docs/ocpp16.md:106` gives the difference.
* `events/consumers/lago_billing.py:173` says a failed CDR is not acknowledged; the
  loop body just ends and the bus acknowledges it. `EntriesAccounted` says what remains.
* `api/settings.py:146` says a secret sent as `****` is preserved unchanged. It is the
  secret `_get_with_defaults` read, from the cache for up to 60 s or before a
  concurrent update committed, that is written back (`api/settings.py:150`).
* `api/admin_setup.py:4` says the wizard's endpoints "are only accessible when no admin
  user exists yet" and "return 403" once setup is complete. The code is the other way
  round: seven of the eight steps answer 403 as long as there is *no* administrator, and
  none looks at whether setup is complete (`SetupStep`, `SkipStep`); the first step
  answers 400 when there is one.
* `api/admin_backup.py:120`, "List all backup records (excluding soft-deleted)": the
  query has no `WHERE`, so the records `delete_backup` marked are listed.
* `api/users.py:217` says a certificate is verified "if cert is valid": the answer
  is that of the user's own row, and neither table of revocations is read.
  `RevocationHolds` is about the rows and not about this answer.
* `api/admin_backup.py:247`, "Mark the backup as restored", finds no row: the dump was
  taken before its own record was inserted.
* `charger_profiles/examples.py:207` lists its profiles "specific → generic", but the
  pattern of the 120 kW Hongjiali matches the 30 kW portable as well and comes first,
  so the latter is never resolved: `PortableNeverHeld` proves it for every deployment
  that does not register the portable's profile itself.
* `docs/charger-profiles.md:214` says the generic profile may not send a status on boot;
  the code sets `sends_status_on_boot=True`.
* `api/events.py:195` says of the `finally` of a stream "Clean up ephemeral group on
  disconnect". A disconnect is what cancels the scope that `finally` runs in:
  `bus.consume` swallows the `CancelledError` (`events/bus.py:156`), the `await` of
  `xgroup_destroy` raises the next one, and `except Exception` does not catch it. The
  group can stay, and no later stream has its name. `StreamEnds` has both ends (`left`).
* `api/events.py:57` says "Consumers subscribe to exactly what they need", with the full
  stream for "no filters", and `events/bus.py:103` "types: only these event types". If
  `types` names nothing that exists, the set is empty, `if types and …`
  (`events/bus.py:134`) takes it for no filter, and the client is sent every event;
  `Promised` therefore counts every event for such a client.
* `api/events.py:52` describes `since` as "Replay from timestamp"; it is not read.
* `tasks/stale_sessions.py` closes a session as `'Completed'`, while other queries look
  for `'completed'`, and reads the connector status under a key that the 2.0.1
  handler does not write.
* `api/ems.py` and `state/settings.py` use tables (`ocpp.ems_*`, `ocpp.settings`) that
  neither `db/schema.sql` nor the migration creates.

## 8. Not modelled

Reasons are given component by component in `PROJECT.json`. In short: the rate
limiter (no await between its steps, a unit test reaches all of it) and 2.0.1
security beyond the PKI's functions; cryptography, certificate encoding and the
parsing of messages (data, not control); the web pages; connection tables of the
2.0.1 server (they are those of 1.6); outstanding calls (only the log reads them);
replica lag of `db.read()`; float32 rounding of REAL registers above 2^24 Wh; tariff
arithmetic; single-statement CRUD and reports; configuration and migrations. `Fleet`
leaves out three writers of the hashes that come after their row was read
(`ocpp16/handler.py:149`, `ocpp16/meter.py:139`, `main.py:155`): what they can do to a
deleted charger is what its boot and its status reports do there. `EventBus` and
`LiveFeed` have no malformed entries, since `publish` is all that writes the stream.
`Pki` has the rows and files, and not how far each check of a certificate reaches
(`generate_crl` lists one issuer's, `validate_cert_chain` knows three CAs). Nothing
starts `tasks/stale_sessions.py`: `StaleCloser` shows what it does when run.
