# tg-bot-aggregator: specification and proofs

TLA+ modules, TLC configurations and TLAPS proofs for the bot aggregator in
`src/tg_bot_aggregator/`. Source paths below are relative to that directory
unless they start with `docs/` or `tests/`.

The program is a FastAPI service, a taskiq worker, a scheduler and two polling
bots around one SQL database. Its core is a durable queue of Telegram messages:
a row of `send_history` is created by an HTTP request, leased and sent by worker
runs, retried, and steered by operators who cancel, retry and release rows.
Around it stand services of their own: polling bots, recommendations, analytics,
backups, egress, settings and a database switch, sign-in and tokens, MCP tools.

## 1. Inventory

| Component | State it keeps | Operations | What is hard | Modules |
|---|---|---|---|---|
| Send queue (`domain/sending`, `tasks.py`) | `send_history`, `send_attempts`, leases, attempt counts, `next_retry_at` | lease, send, record, defer, block, dead-letter, complete; release stale locks; due run | two workers on a row, crashes between commits, stale row objects written later, lease expiry | `SendQueue`, `SendQueueProps`, `SendContract` |
| Send endpoints (`api/v1/sending.py`, `api/v1/reliability.py`) | the row object of one session | create, replay by idempotency key, enqueue, cancel, retry, release, bulk forms | check then write; two commits in one request; message sent before its task id is stored | `SendQueue`, `Admission` |
| Retry policy (`domain/reliability/service.py`) | none | classify an error, choose status and delay | boundaries of the budget and of the delay | `RetryPolicy` |
| Rate limiter (same file) | a counter and an expiry per bucket | check all, then increment all | several buckets at once; window edges; a lost expiry | `RateLimiter` |
| Telegram client (`infra/telegram_client.py`) | base URL, fallback URL | one call, repeated once at the fallback | a lost answer is not a lost message | `SendQueue` (what a call may do) |
| Send batches (`domain/batches`) | batch and item status, item's history id | create, enqueue, cancel | partial failure; item status against row status | `SendBatch` |
| Unit of work (`infra/uow.py`) | a transaction and a Redis lock with a timeout | enter, commit, leave | lock expiry during the body; process-local fallback; a close that fails | `UnitOfWork` |
| Diagnostic and discovery bots | last update id, updates, events, destinations | poll, reply, store progress | redelivery, reply before progress, one bot failing the round | `Polling` |
| Ops recommendations and rules (`domain/ops`) | recommendations, rules, facts | scan, preview, apply (compare-and-set), dismiss, run rule | stale status checks, overlapping scans, ids given out again | `OpsRecommendations` |
| Analytics (`domain/analytics`) | targets, runs, snapshots, login | refresh one, refresh all, sign in | events published between commits, lost tasks | `AnalyticsRuns` |
| Catalogue: bots, destinations, profiles, templates | rows that name one another | create, update, delete, roll back | no foreign keys; ids given out again | `Catalog` |
| Backups and restore (`domain/backups`) | runs, every table on restore, one git clone per container | export, preview, restore, scheduled run, push | restore section by section, overlapping checks, commits left in a clone | `Restore`, `Backups` |
| Admin sign-in (`domain/auth`) | record file, signed sessions, challenges in memory | sign in, rotate, passkeys | no list of sessions; answers posted again | `AdminAuth` |
| API tokens, protected hosts (`domain/auth`, two middlewares) | token rows | create, revoke, check, mark as used | the token is read, then written later | `ApiAccess` |
| Egress (`domain/operations/telegram_egress_*`) | mode, last observation, `connected_at`, profile files | configure, command, observe | an observation racing a command | `Egress` |
| Runtime settings and database switch | settings row, override, session factory | patch, switch, restore | writers with the old session factory; layers of settings | `DatabaseSwitch` |
| MCP server (`domain/mcp`) | settings row | gate; tools that read, await and write | awaits between load and write; half-done bulk calls | `McpTools` |
| Events (`infra/events.py`) | a list in the API, a Redis stream | publish, stream from a cursor | a cursor that outlives the list | `EventStream` |
| Media browser, audit log, migrations, start and health, dashboard | files or rows of their own | read; append; once at start | no protocol between steps | not modelled |

**How they interact.** Requests write rows and put `send_history(row id)` messages
into a Redis stream (at-least-once; acknowledged after the task ran). Worker
runs take messages from the stream; the scheduler puts a `due_send_history`
message there every interval, whose run releases stale locks and then processes
the rows it listed. Operators and MCP tools act on the same rows through their own sessions,
without the lock that worker runs take. Events and callbacks go out after a
commit and never change a row (`_publish_event` swallows every failure).
Batches create and cancel rows of the queue; requests for a row pass the bot's policy, the
limiter and the retry policy; nearly all endpoints and tasks work in a unit of
work. The models meet there: `SendBatch` is composed with `SendContract`, which
`SendQueue` implements; `Restore` works on the tables of `Catalog`; and
`Catalog`, `AnalyticsRuns`, `Backups` and `DatabaseSwitch` take from `UnitOfWork`
that units of work exclude each other.

**What makes each component correct** is stated by the properties of its module
(section 6). `PROJECT.json` lists every hazard at its line with the properties
that would catch it.

## 2. Plan and its state

| Step | Modules | Composes | State |
|---|---|---|---|
| 1 | `SendQueue`, `SendQueueProps`, `MCSendQueue` | rows, runs, requests, stream, time | checked |
| 1 | `SendQueueProofs`, `SendQueueExclusion`, `SendQueueDelivery`, `SendQueueContract` | theorems about `SendQueue`, each module on the one before | every safety property of the queue proved, and the refinement |
| 1 | `SendContract` | a row without leases and clocks; `SendQueue` implements it | checked and proved |
| 1 | `SendBatch`, `MCSendBatch`, `SendBatchProofs` | items and requests over rows that follow `SendContract` | checked; every property proved |
| 2 | `RetryPolicy`, `RateLimiter` | a row's life; windows and a clock | checked and proved (`MessagingProofs`) |
| 3 | `Admission` | idempotency keys, the per-bot count, created rows | checked and proved (`MessagingProofs`) |
| 4 | `UnitOfWork` | Redis lock with a timeout, fallback | checked and proved (`MessagingProofs`) |
| 5 | `Polling`, `EventStream` | both bots over Telegram's update queue; pages over a list | checked and proved (`MessagingProofs`) |
| 6 | `OpsRecommendations` | recommendations, rules, destinations | checked and proved (`OperationsProofs`) |
| 7 | `AnalyticsRuns`, `Catalog`, `Restore`, `Backups`, `Egress`, `DatabaseSwitch` | one module per service | checked and proved (`OperationsProofs`) |
| 7 | `AdminAuth`, `ApiAccess`, `McpTools` | sign-in; tokens and requests; tools | checked and proved (`AccessProofs`) |
| 7 | `MCMessaging`, `MCAdministration`, `MCProgress` | the services side by side: those around the queue with it, those of operators and agents, and those that owe progress | checked; the first two proved (`MessagingProofs`, `OperationsProofs`) |

Left for later: a second process that reads what workers publish, once the code has one.

## 3. The model of the send queue

`SendQueue.tla` holds the state and the actions, `SendQueueProps.tla` the
properties, `MCSendQueue.tla` the symmetry of the instances. Mutated forms of a
definition, used to show that a property can fail, stand beside it and are marked
"Mutant".

### State

| Variable | Code |
|---|---|
| `rows` | the `send_history` table: status, `attempt_count`, `next_retry_at`, `lock_expires_at`, `queued_task_id` |
| `tasks` | the rows that have an unacknowledged `send_history` message |
| `wk` | worker runs (`run_send_history`, `run_due_send_history`) with the row object they hold |
| `sess` | HTTP requests between two awaits, with the row object they hold |
| `log` | `send_attempts`: number and outcome |
| `delivered` | how often Telegram took the row's message (an observer) |
| `cooling` | rows whose `retry_after` has not elapsed (an observer) |
| `inactive` | rows whose bot is missing or inactive |
| `faults`, `ops` | consumption of the bounds |

### Three abstractions

*Transactions and stale objects.* A commit is one step. What it writes was
computed from a row object loaded earlier: the unit of work emits UPDATE for the
columns that changed in the object, without a version check. `OrmWrite(db, read,
new)` is exactly that, column by column. Sessions keep their objects after a
commit (`expire_on_commit=False`). The lease alone is a conditional UPDATE on the database's
value (`CanLease`, `AcquireLease`).

*Time.* `next_retry_at` is `none`, `past` or `future`; a lease is `live`,
`expired`, or `stale` (expired by more than the scheduler's grace).
`Ripen`, `RipenHeld` and `LeaseAges` move time. `LatestEnd` says how old a lease may grow
while its run still works: with the default settings (lease 60 s, Telegram
timeout 30 s, at most two calls) a run normally ends while its lease lives. The model
keeps which of two delays a write came from only through `cooling`.

*Faults.* A crash, a cancellation, a lost answer, a failed commit or a local error
may happen at any step; `MaxFaults` bounds how many per behaviour. A limiter's
refusal counts as a local error.

### Actions

| Action | Code |
|---|---|
| `CreateHistory` | `_queue_or_send`, `_create_or_reuse_history` |
| `ReplayHistory` | `_idempotent_existing`, then `_enqueue_if_needed` |
| `EnqueueTask`, `CommitTaskId` | `_enqueue_if_needed`, `_enqueue_if_ready`: message first, task id in a later commit |
| `SyncAccepted`, `SyncRefused`, `SyncSucceeded` | `_send_existing_row`: no lease |
| `ReadForCancel`, `CommitCancel` | `cancel_history` |
| `ReadForRetry`, `CommitRetry`, `CommitRestore` | `retry_history` and `_retry_send_history` with its second commit |
| `ReadForRelease`, `CommitRelease` | `POST /reliability/stale-locks/release` |
| `StartDueRun`, `CommitStaleRelease`, `EndDueRun` | `run_due_send_history` |
| `AcquireLease`, `SkipRow`, `BotMissing` | `process_queued_send` up to its first commit |
| `TelegramTransient`, `TelegramPermanent`, `DeferLocally` | its error branches, each with its attempt record and its commit |
| `TelegramAccepts`, `CompleteSuccess`, `Notified` | its success path |
| `CancelledWhileSending`, `CancelledWhileNotifying` | the two `CancelledError` handlers |
| `FinishFails`, `WorkerDies`, `SessionDies` | a failed commit; the death of a process; a request that ends early |
| `DeactivateBot` | a bot is deactivated or deleted |

A due run processes the rows it listed in any order; the code's order
(priority, time, id) matters only to starvation, which is not modelled.
`BotMissing` ends the whole run as the exception does.

## 4. The contract and the batches

`SendContract.tla` is the life of a row as others may rely on it. A row is
`free`, being called for (`calling`), or `taken` by Telegram and not yet written
(`hand`); leases, the stream, clocks and row objects are gone. A *lapse* is anything that hides from the
database what Telegram did. `closers` counts the cancel requests that found the
row cancellable and have not written yet: a cancel that races with a worker is part of the contract.
`Contract` in `SendQueueProps.tla` is the refinement mapping: status and attempts
from the row, `hand` from who holds it, `accepted` from `delivered`, `lapses` from
`faults`. TLC checks the refinement in run `messaging`, and `SendQueueContract` proves it.

`SendBatch.tla` composes it with `domain/batches` and `api/v1/send_batches.py`.

| Variable | Code |
|---|---|
| `batch`, `items` | `send_batches.status`; status and `send_history_id` of `send_batch_items` |
| `req` | requests: the batch status and items as loaded (`seen`), the objects as changed (`objects`), the items still to come |
| `madeFor` | the item each row was created for (an observer) |
| `enqueues`, `cancels`, `failures` | consumption of the bounds |

| Action | Code |
|---|---|
| `CreateBatch` | `create_send_batch`, one transaction |
| `LoadForEnqueue`, `EnqueueItem`, `FinishEnqueue` | `enqueue_batch`: the send commits the row, with it the mark of the item before; then this item is marked |
| `LoadForCancel`, `ReadRow`, `CancelRow`, `MarkOnly`, `FinishCancel` | `cancel_batch` around `cancel_history`, whose refusal is swallowed |
| `RequestFails` | any exception or crash; what was only flushed is rolled back |
| `QueueStep` | workers, releases and retries, by the contract |

A mark is flushed, not committed; the rows it touches stay locked until the commit,
so a flush has no effect that others see and is left out. All requests touch items in
id order and the batch last, so they cannot block one another in a cycle. An item
with status `queued` keeps it for ever: no code writes `sending`, `succeeded` or `failed` back.

## 5. The other services

Each module has the state of one service and its faults. A *history* variable
("observer" in the modules) remembers what an exception of a property needs to know and
is never read by an action that models code. Steps end where the code awaits
something others can act in between; a handler that never awaits, or that works in one
unit of work which nobody else can enter, is one action.

**`RetryPolicy`** (`compute_retry_decision`): the settings are chosen at the start among
all the configuration accepts, then a row lives through `CallFails` and `NextAttempt`.
The unit of time is half a second, so that rounding up shows.

**`RateLimiter`** (`check_and_increment_window`, both stores): `CheckAndIncrement` is the script,
which checks all buckets of a send and then counts in each; `Second` is the clock;
`LoseExpiry` is a key without a TTL, which only a refusal of its own bucket repairs. Time is
kept as what is left of each window, so the clock needs no bound; the observer `admitted` counts, for each bucket
and age, the sends of the last seconds up to that age.

**`Admission`** (`_queue_or_send`): `BeginSend` checks the policy, `FindExisting` looks the key
up, `InsertRow` inserts under the unique constraint, `CallTelegram` and `SaveAnswer` are the
synchronous path; `RequestDies` anywhere, `RowMoves` is what workers do later. The policy is
checked before the key is looked up, and rows that are `deferred` or `failed` are
not in its count until they come back. The fingerprint covers the message and its chat only.

**`UnitOfWork`** (`infra/uow.py`): `Enter`, `AcquireRedis` or `FallBack` and `AcquireLocal` or
`GiveUp`, the body's writes and commits, `LeaveWell`, `LeaveRaising`, the two releases, and
`CloseFails`, which leaves the lock. The Redis lock expires by `UnitClock`, under a body too
(`lapsed`). Processes lose and regain Redis (`ReachChanges`) and die.

**`Polling`** (`DiagnosticBot`, `MembershipDiscoveryBot`): Telegram keeps updates until a
`getUpdates` asks for later ones (`forgotten`). The diagnostic round reads its settings,
fetches, records, replies and stores its progress; the discovery round goes through the enabled bots
in order and saves destination, event and progress together. Either may die between two steps. Settings change
under the rounds: another bot is selected, discovery is switched on or off. Filtering by
`allowed_updates` is in the kinds of update a bot gets.

**`OpsRecommendations`** (`TelegramOpsService`): a request reads and later writes; from its first write to its
commit it holds the database's write lock. Scans, previews, dismissals, updates
of the rule and runs of the rule overlap; `Apply` alone is a compare-and-set. Operators edit and delete destinations; ids are given out
again as SQLite does: `reused` remembers those given out again while a recommendation, stored or just read, named them (`Named`). One active bot. The feed names one chat under two titles, so that a create and a correction are recommended.

**`AnalyticsRuns`** (`AnalyticsService`, `MtprotoService`, the refresh tasks): runs asked for by the API get a task,
those asked for by MCP get none. The worker's job starts, announces, collects, saves and tells; any of these may fail, the bus may refuse an event, the
job and its task may be lost. The hourly round ends at the first target that fails. `OutcomesExplained` and `OpenRunsExplained` say what the list of
runs then means.

**`Catalog`** (bots, destinations, send profiles, templates): every endpoint that writes is
an action. SQLite is opened without foreign keys, so only what the mapper cascades goes with a row, and the id of the
last row is given out again: a new template takes over the versions of a deleted one.

**`Restore`** extends `Catalog` with `Export`, and with a restore in steps: preview and safety copy
(`RestoreReads`), then delete, insert and commit (`RestoreApplies`), refused or dead in between. Five of the eleven sections are kept, those whose rows
name one another; the others are copied the same way. `Edit`s wait for the lock of the restore's unit of work.

**`Backups`** (`run_backup_snapshot`, `push_snapshot`, `run_scheduled_backup`): a scheduled check and its run are two units of work. A run writes its file
into the clone of its container, commits and pushes; each git command may fail, the host may die, a container may be replaced with its clone,
others may push to the remote. A clone is rebased by nobody: a commit that failed to go out stays there (`stranded`).

**`AdminAuth`** (`AdminAuthService`, `api/v1/auth.py`): the record file, cookies as signed claims, challenges in the process. Handlers
do not await between check and write, so each is a step. Browsers post old answers again, the API restarts, the file is lost, names come round
again. Hashes and signatures are perfect; WebAuthn's own checks are its counter.

**`ApiAccess`** (`ProtectedHostAuthMiddleware`, `AdminSessionAuthMiddleware`): a request arrives, its token is read, then marked as used in a second
transaction, then the session is checked, then the handler runs. Tokens are created, put into a cookie and revoked by other requests between these steps.

**`Egress`** (`TelegramEgressService`, its providers): a call commands the tunnel, reads its status, loads the row and stores what differs from the row as loaded;
two calls overlap freely. The tunnel turns by itself, the API stops half way, patches and uploads come in any order.

**`DatabaseSwitch`** (`database_service.py`, `runtime_settings.py`): a settings patch, the switch as import, override and swap, snapshots and
restores, and writers that took their session factory before. One optional setting stands for all; rows are of a section of the snapshot (`config`) or of none (`queue`).
The API lays settings over those it runs with, a worker's task resolves them anew.

**`McpTools`** (`domain/mcp/server.py`): the gate, the settings row, and the tools that await between load and write: the check of a destination, a
destination from an update, bulk retry and bulk cancel, which commit row by row and call the broker for each. Endpoints, workers and other calls come in between.

**`EventStream`** (`infra/events.py`, `GET /events`): the list of the API's process, a page that remembers the id it was shown last, its connection. The list ends with
the process. What workers publish goes to a Redis stream that nothing reads: the API always makes a `MemoryEventBus` (`main.py:108`) and
`RedisEventBus.stream` has no caller, though `docs/superpowers/specs/2026-05-02-telegram-bot-aggregator-design.md:544` plans events across processes.

## 6. What is checked

### Runs of the queue and of batches

The runs of `SendQueue` have one row: the code couples rows only through the due run's list, and
`todo` is a set. They have two workers, the smallest number with a
conflict; a third adds no new pair. One session is enough where requests
do not overlap; `overlap` has two. `MaxAttempts` is 2 (3 in `restore_race`), so that both branches of the
budget are reached. `AgingBound` bounds only the last lease of a row that may
grow old, for `hostile`, whose rows would otherwise be leased for ever; elsewhere it
is never reached.

| Run | Environment | Shows |
|---|---|---|
| `messaging`, part `queue` | runs end within their lease, maintenance does not overlap itself, one fault, two operator requests of any kind | `TypeOK` (in `MessagingTypeOK`), `WorkerExclusion`, `StatusTellsDelivery`, `DuplicatesExplained`, `EndsAreFinal`, `ImplementsContract`, `RetryAfterHonoured` |
| `hostile` | runs outlive their lease by any time, maintenance overlaps: rows do have two workers | `NoOrphanedSending`, `JournalTells` = `AttemptsDistinct`, `DeliveriesAccounted` |
| `liveness`, part `queue` | fairness, a fault and an operator request | `QueuedRowsSettle` |
| `batch` | two enqueues and a cancel in any order, one at a time, one failing request, one lapse | `TypeOK`, `CancelStopsUnstarted`, `BatchSpeaksForItems`, `TargetSentOncePerEnqueue`, `AcceptedOncePerLapse`, `ForgottenRowsExplained` |

`batch` has two items, the smallest number with an item before and an item after a
failure, and four rows, enough for both enqueues. With two requests at once
`CancelStopsUnstarted` fails: an enqueue that loaded a queued item gives a
cancelled one a fresh row, since it writes only the columns it changed; no document says
what overlapping requests owe. Deadlock is not checked there: the requests are bounded and an idle batch stops.

The properties are commented in `SendQueueProps.tla`. `StatusTellsDelivery` and
`DuplicatesExplained` speak about the pair (database, Telegram): the first says
that without a fault the row's final status and what Telegram took agree, the
second that each extra delivery has its own fault. Both rest on exclusion.
`JournalTells` needs no exclusion: two workers may send one row, but each of them has a number of its own and records it,
so `send_attempts` and the runs in hand tell what Telegram took, up to one delivery a fault and the send a synchronous request makes itself.
`EndsAreFinal` says that what is over (`Over`: succeeded or cancelled, in nobody's hand) stays so, though stream messages, due lists, repeated requests and
row objects read long ago are still around.

`SerialMaintenance` states what run `messaging` assumes: the read and the write
of a release, a cancel or a retry are not interleaved with another of them.
`overlap` shows what happens without it.

### The services, side by side

`MCMessaging` extends the queue and the modules of section 5 that stand around it (`limiter` to `events` in the
table), `MCAdministration` those that operators and agents use (`ops` to `mcp`). Each service keeps its state
apart from the others', so exploring their product would multiply states and add no behaviour: `part`, chosen in
the initial state, says whose steps a behaviour takes, and the initial condition fixes what the other
modules would choose at the start. Runs `messaging` and `administration` are therefore seven and nine small
instances, each run one state graph of one to two million states. Deadlock is not checked: calls and faults
are bounded, and a service with nothing to do stops. `liveness` takes the four parts that owe progress
(`MCProgress`), on smaller bounds.

A property of the run may be the conjunction of what one component promises; its named parts are defined before it in its module.

| Part | Property | Says (with the exceptions the code makes) | Bounds and why they suffice |
|---|---|---|---|
| `limiter` | `LimitsHold` = `TwoWindowsAMinute`, `CountsOnlyAdmitted` | at most twice the limit in any minute; a refusal counts nowhere | 3 buckets, two lists that share one: one refuses for the other; window of 2, limits to 2, one lost expiry |
| `policy` | `RetriesStayInBounds` = `BudgetSpentExactly`, `DelayDoublesToItsBound` | the budget is spent exactly; waits follow Telegram or double to a bound | base to 1.5 s, bound to 4.5 s, budget to 4: bound below the base, base zero, doubling past the bound, odd halves |
| `admission` | `RequestsExplained` = `AnswersAgree`, `CalledOncePerRow`, `LimitExceededOnlyByRacers`, `AbandonedRowsExplained` | one row per key, one call per row; over the limit only racers; rows left in `created` only by deaths | 2 callers, one key, two prints, limit 1, 3 rows, one death |
| `unit` | `UnitsOfWorkHold` = `OneWriterWhileLocksLast`, `NoWritesDropped` | two units are inside at once only after an expiry or by different locks; no session is closed over open writes | 3 units, two in one process, lock time 2, one outage, one mishap |
| `polling` | `UpdatesExplained` = `LetGoWhenHandled`, `ReportsExplained` | Telegram lets an update go only once it is handled; a report goes out once, and at most once more for each death | 2 bots, three updates, one death, one change of settings |
| `polling` | `DestinationFollowsMembership` | a destination is active as the latest recorded membership says, recorded in order | the same: joined and left at two bots |
| `events` | `NoEventPassedOver` | an event source is shown every event once and in order, unless it outlived the process | 2 pages, 4 events, one restart |
| `ops` | `RecommendationsExplained` = `OneOpenPerChat`, `AppliedOnceUnlessOverwritten`, `AutomationUnderLowRisk` | one open recommendation per chat, applied once, by a rule only under low risk, but for statuses an overlapping request wrote over | 2 requests, 2 recommendations, 2 edits: scan against scan, preview against apply |
| `ops` | `DestinationsKeepTheirChat` (action property) | no recommendation moves a destination to another chat unless its id was given out again | 2 destination ids |
| `restore` | `CatalogExplained` = `TemplateIsItsLatestVersion`, `ProfileRefsExplained`, `OrphansExplained` | a template is its newest version; rows without a parent have their reason | 2 rows a table, 2 calls, 3 snapshots, sections one by one and all; tables begin filled |
| `restore` | `RestoresCanBeUndone` (action property) | a restore that commits has kept what it replaced and changed what its answer says | the same |
| `backups` | `BackupRunsExplained` = `ReportedCommitsArrive`, `SilentSuccessExplained`, `SoonOnlyAfterOverlap` | reported commits are in the remote; a success without one had nothing new, or a stranded commit had it; too soon only after overlapping checks | 2 containers, 2 configurations, 2 runs, one trouble |
| `admin` | `SessionsEndWithTheirCredentials` | no cookie of earlier credentials is accepted | 2 browsers, 2 rotations, one lost file: the version restarts at one under the old name |
| `admin` | `PasskeyAnswersServeOnce` = `ChallengesServeOnce`, `RemovedPasskeysStayAway` | a signed answer succeeds once and brings no deleted passkey back | one passkey that counts, 3 ceremonies, one hour |
| `access` | `GatesHold` = `RevokedTokensOpenNothing`, `ReadersDoNotWrite` | a revoked token opens no scoped area to a later request; a reading token writes nowhere | 2 requests, 3 arrivals, one token, four areas, each kind of route |
| `analytics` | `RefreshRunsExplained` = `OutcomesExplained`, `OpenRunsExplained` | ends say what happened to the snapshot, open runs are carried on, but for lost tasks and unheard events | 2 targets, 2 runs, one bus failure, one lost job |
| `egress` | `EgressRowExplained` = `RecordSpeaksOfTunnel`, `SinceGoesWithStatus`, `ProviderFitsMode` | status, time and tunnel agree, but for observations stored across each other | 2 calls, 2 turns of the tunnel, 2 patches, one provider |
| `database` | `NothingLostUnexplained` | a committed row is in the database of the next start, but for rows of no section, late rows and replaced rows | one writer, 2 rows, 3 patches, one import |
| `database` | `ProcessesAgree` = `OneDatabase`, `SettingsAgree` | API and worker use one database and the same settings, but for a cleared setting | the same |
| `mcp` | `ToolsExplained` = `OnlyReadsBeforeSettings`, `SwitchedOffStaysOff`, `TopicsStayTopics`, `RequeuedOncePerFailure` | what writing tools may do under other calls, operators and the worker | 2 calls, one destination, two history rows in lists of one and two, one failure |
| all | `MessagingTypeOK`, `AdministrationTypeOK` | the state is of its types | |

Every property has a mutant in `PROJECT.json`: a plausible bug of the code, under which TLC finds it violated.

| Liveness | Part | Says |
|---|---|---|
| `QueuedRowsSettle` | `queue` | every queued, deferred or leased row ends in a final status |
| `FullBucketsReopen` | `limiter` | a full bucket opens again, though its key lost its expiry |
| `WaitingEnds` | `unit` | whoever waits for a lock gets it or an error |
| `MembershipsAreFound` | `polling` | a membership is recorded in the end, unless a bot ahead in the round is refused |

### Where the code and its documents disagree

Each is a run that TLC finds violated, listed under "findings" with the quoted line.

- `overlap`: two overlapping releases clear a live lease, and two workers send one row.
- `cancel_race`: a cancel commits over a leased row and the worker's result then replaces `cancelled`.
- `inactive_bot`: a row whose bot is inactive stays queued for ever instead of moving to `blocked`.
- `restore_race`: the reliability retry restores an old `next_retry_at` in a second commit, over a newer `retry_after`.
- `retry_budget`: worker errors and rate limits defer a row without looking at the budget.
- `batch_twice`: a second enqueue, or repeating one that failed, sends every queued item again.
- `batch_cancel`: an item is marked cancelled although its row is being sent.

What the models of the services show beside their properties is in the properties' exceptions and has
no run of its own: a full bucket behind another that refuses first keeps a key without expiry; a page is told
nothing of what workers publish; the API keeps a cleared setting until it starts; a tool's check retypes a topic; a
rule under update by two requests joins settings neither could ask for.

### Fairness

`QueueFairness` gives weak fairness to a request's next step and to a worker run's next step (an
event loop resumes what is ready, and the scheduler and stream start a run every interval), and to
the passage of time. No fairness is given to requests, faults, cancellations or
deactivations, nor to a particular outcome of a Telegram call: a row settles
because the budget of attempts runs out, not because Telegram answers well.
That is why the number of faults must be bounded: the code defers a row
after a local error however often it happens.

`ClockFairness` gives weak fairness to the limiter's clock, to the timers of units of work (waits that time out, and the
Redis expiry), and to the rounds of discovery, which run in a loop with a pause. It gives strong
fairness to sends that reach a bucket, for `FullBucketsReopen` alone, as its hypothesis: the
code repairs a key without expiry only when a send is refused by that very bucket, and nothing in the
code makes one come.

## 7. What is proved

`tlapm` checks the proofs for every value of the constants that satisfies the named
assumptions of each module. The assumptions say that ids and markers are distinct, that bounds are
natural numbers, and that environment constants are drawn from their sets; beyond that:

- `SessionsAssumption`, `AdmissionAssumption`, `PollingAssumption`: the requests, the callers (at least one) and the polled bots are finitely many, so that they can be counted and a round ends.
- `StartsAssumption`: the tables a catalogue begins with are as its endpoints leave them (rows numbered and with their columns, destinations and versions told apart, the current text of a template that of its newest version).
- `BackupsAssumption`: `api` and `worker` are among the hosts, each with a clone of its own.
- `EventAssumption`, `AdminAssumption`, `DatabaseAssumption`: what bounds events, rotations and rows is a number; the type invariants need it.
- `LimiterAssumption`, `OpsAssumption`, `RestoreAssumption`, `AskedAreasAssumption`, `CountingAssumption`: lists, feed, sections, areas and passkeys that count are what their names say.

Theorems about exclusion, delivery, delays and the contract of the queue, and two about batches, have a hypothesis on the
environment, `LeasesOutliveRuns` and `OneRequest`: the instances of the runs satisfy them, and the runs `overlap` and
`cancel_race` and the remark on two requests in section 6 show that the properties need them.

| Theorem | Module | Says |
|---|---|---|
| `TypeCorrect` | `SendQueueProofs` | `Spec => []TypeOK` |
| `NoRowStranded`, `JournalIsTrue`, `AttemptsAreDistinct` | `SendQueueProofs` | `NoOrphanedSending` and `JournalTells`, in every environment; the numbers of `AttemptsDistinct` alone |
| `OneWorkerPerRow` | `SendQueueExclusion` | `LeasesOutliveRuns` implies `Spec => []WorkerExclusion` |
| `DuplicatesHaveFaults`, `StatusIsTrue` | `SendQueueDelivery` | `LeasesOutliveRuns` implies `DuplicatesExplained`, `StatusTellsDelivery` |
| `OnlyRestoresCutDelays`, `DelaysAreWaited` | `SendQueueDelivery` | `LeasesOutliveRuns` implies `RetryAfterHonoured` where no retry request restores an old delay over a new one (`RestoresOver`); so wherever operators do not retry |
| `QueueImplementsContract` | `SendQueueContract` | `LeasesOutliveRuns` implies `ImplementsContract`: `Spec` implements `ContractSpec` under the mapping of `SendQueueProps` |
| `EndedRowsStay` | `SendQueueContract` | `LeasesOutliveRuns` implies `EndsAreFinal` |
| `ContractTypeCorrect`, `AcceptedAtMostOncePerLapse` | `SendBatchProofs` | `ContractTypeOK` and `AcceptedOncePerLapse` of `ContractSpec` |
| `BatchTypeCorrect` | `SendBatchProofs` | `Spec => []TypeOK` |
| `BatchUsesContract`, `BatchAcceptedOncePerLapse` | `SendBatchProofs` | `Spec => ContractSpec`: a batch, with any requests overlapping, keeps to the contract; so `AcceptedOncePerLapse` holds of its rows |
| `TargetsSentOnce` | `SendBatchProofs` | `TargetSentOncePerEnqueue`, with any requests overlapping |
| `FailuresForgetOneRow` | `SendBatchProofs` | `ForgottenRowsExplained`, with any requests overlapping |
| `OneAtATimeSpeaks`, `OneAtATimeStops` | `SendBatchProofs` | `OneRequest` implies `BatchSpeaksForItems` and `CancelStopsUnstarted` |
| `LimiterHoldsItsLimits` | `MessagingProofs` | `LimitsHold`, for any buckets, lists, limits and window |
| `RetriesKeepTheirBounds` | `MessagingProofs` | `RetriesStayInBounds`, for any base, bound and budget |
| `UnitsHold`, `WritersExclude` | `MessagingProofs` | `UnitsOfWorkHold`; its exclusion alone |
| `EventsAreNotPassedOver` | `MessagingProofs` | `NoEventPassedOver` |
| `RequestsAreExplained` | `MessagingProofs` | `RequestsExplained`, for any callers and keys |
| `UpdatesAreExplained`, `DestinationsFollowMemberships` | `MessagingProofs` | `UpdatesExplained`, `DestinationFollowsMembership`, for any bots and updates |
| `ServicesKeepTheirSpecs`, `MessagingTypeCorrect` | `MessagingProofs` | `MessagingSpec` implies the specification of each of its seven parts; so `MessagingTypeOK` (the types of the parts: `AdmissionTypeCorrect`, `PollingTypeCorrect`, `EventTypeCorrect`, and the invariants of the others) |
| `SessionsEnd`, `AnswersServeOnce` | `AccessProofs` | `SessionsEndWithTheirCredentials`, `PasskeyAnswersServeOnce` |
| `GatesAreHeld`, `RevocationIsFinal` | `AccessProofs` | `GatesHold`; no step makes a revoked token active again (`RevokedForGood`) |
| `ToolsAreHeld`, `RetriesAreSpent` | `AccessProofs` | `ToolsExplained`; its bound on retries alone |
| `RecommendationsAreExplained`, `DestinationsStayWithTheirChat` | `OperationsProofs` | `RecommendationsExplained`, `DestinationsKeepTheirChat` |
| `CatalogRowsAreExplained`, `RestoresKeepWhatTheyReplace` | `OperationsProofs` | `CatalogExplained`, `RestoresCanBeUndone` |
| `BackupRunsAreExplained` | `OperationsProofs` | `BackupRunsExplained` |
| `RefreshRunsAreExplained` | `OperationsProofs` | `RefreshRunsExplained` |
| `EgressRowIsExplained` | `OperationsProofs` | `EgressRowExplained` |
| `NothingIsLost`, `ProcessesDoAgree` | `OperationsProofs` | `NothingLostUnexplained`, `ProcessesAgree` |
| `BackupsTypeCorrect` | `OperationsProofs` | `BackupsTypeOK`: with its types, that no commit is in the remote's branch twice |
| `AdministrationKeepsTheirSpecs`, `AdministrationTypeCorrect` | `OperationsProofs` | `AdministrationSpec` implies the specification of each of its nine parts; so `AdministrationTypeOK` (the types of the other parts: `OpsTypeCorrect`, `CatalogTypeCorrect`, `AdminTypeCorrect`, `AccessTypeCorrect`, `AnalyticsTypeCorrect`, `EgressTypeCorrect`, `DatabaseTypeCorrect`, `McpTypeCorrect`) |

### The queue

*No stranded row.* The property is not inductive: a request or run may write a
row object that it read earlier. `SnapsSound` says which objects they can hold
(a row read for cancel or retry was not in `sending`, a leased row object has a lease, ...);
with it each write either sets a settled or ready status, or leaves the lock
of a `sending` row alone. `WriteRecoverable` is that fact about `OrmWrite`,
used once per commit.

*Attempt numbers.* `NumberingInv`: a number that is recorded was given out by a lease of the row, a run in flight has
a number that no record bears and no other run of its row has, and a run about to notify has recorded its success. A write of a row object never
touches the count, for nobody but the lease changes it. So each step gives out no number, gives one, or records one (`Numberless`, `Leases`, `Records`).

*The journal.* `AccountInv` balances each row: what was delivered is what its attempts and the runs in hand tell (`AttemptsTaken`, one number each by `NumberingInv`), the
request's own send, and no more than the faults. The request's own send is the hard part. `OwnInv` follows it: who sends by himself has a row that no name of it has
left his hands (`OwnUnnamed`), so it is in no stream message or list, and it was never leased; it ends succeeded or cancelled,
which no worker takes and no retry puts back, or a fault accounts for its delivery (`OwnEnds`). Each step is one of a few as far as the journal goes: it leaves it, leases, delivers, or records.

*Exclusion.* `LeasesOutliveRuns` is the environment in which exclusion can
hold: maintenance is serial, and a run ends while its lease lives, or within the grace when
nobody releases by hand. `ExclusionInv` strengthens `WorkerExclusion` with: at most one maintenance operation
is between its read and its write (`OneOpen`); only a row in `sending`, or cancelled while it was, has a lock (`LocksOfSendingRows`);
the row of a run in flight is such a row, with a lease no older than `LatestEnd` (`LeaseHeld`); what each request (`HandlersSound`) and each run (`RunsSound`) holds
cannot clear such a lease. The lease itself needs a row
that is not in `sending`, which gives exclusion at `AcquireLease`; the other
steps must not make a row with a run in flight leasable. `ExclusionInv`
was checked by TLC on the instance of `messaging` before it was proved;
no run has the environment with the grace, which the proof covers.

*Delivery.* `DeliveryInv` adds to `ExclusionInv` where a delivery beyond the faults may
sit: with a sender that has been answered, or in a row that succeeded or was cancelled (`Spare`, in `DeliveriesBounded`), and that a
row which is taken or succeeded was delivered (`SuccessesReal`). Every step leaves a row as it is in this respect (`Kept`), ends it unsent
(`Unsent`) or sent (`Sent`); `AccountedStep` shows that this is enough, and each action is shown to be one of the three.

*Telegram's delay.* `DelayInv` adds to `ExclusionInv` that a row which cools off is deferred with a delay to come, or
cancelled; that nobody is sending it; and that whoever sends a row read no delay to come, so that the delay he writes is a change and reaches
the database. Every step but one keeps this: the second commit of a retry request, which puts the old `next_retry_at` back (run `restore_race`).
The theorem excludes exactly that step, `RestoresOver`. The instance of `messaging` has retry requests and a budget of two attempts, too few for the step to come about.

*The contract.* A step of the queue touches at most the rows of one commit. For each action the proof
shows what `Seen`, the mapped state, becomes row by row, and which action of the contract that is: `HandsTold` needs exclusion, for a row with two
workers would have two hands, and `AcceptedOncePerLapse` would not follow. Cancel requests are counted through `Closing`, hence the finite `Sessions`.

### The contract and batches

*The contract's bound.* `accepted[r] <= 1 + lapses` alone is not inductive: a row
that already has its extra acceptance must not be called for again. `AcceptancesShown`
says where that acceptance may sit: with a sender that has been answered, or in a row that is
`succeeded` or `cancelled`, which no worker and no retry takes. `HeldRowsSheltered`
keeps a row in hand in a status that nobody else takes.

*Use of the contract.* That a batch keeps to the contract needs only that a request about to write its cancel has an item's row in
hand (`CancelsRow`), and that the current item is one of those still to come, which is the well-foundedness of the numbers (`MinOfNats`).

*A target and its rows.* `Owed` is the potential of a row: its acceptances, and one more while it may still be accepted for free, which it may not once
an acceptance shows in its hand or status (`Shown`). Creating a row adds one to its item's sum and one to the number of its rows; every other step costs no more than its
lapses (`RowStepOwes`). The rows of an item and the enqueues that have not come to it yet are together at most the enqueues there were (`RowsCounted`). The sum is a fold of
the community modules, a recursive function chosen for each set; that the function exists, that two such agree where both are defined, and that any element may be taken out of a sum
(`SumsExist`, `SumsAgree`, `TotalPart`) are shown once, by a least counterexample among the cardinalities.

*Forgotten rows.* `RowsHeld`: the rows a request read are in the table for good, and it holds at most one row that is not committed to its item, since the
commit that creates a row saves the mark of the item before. A failure therefore forgets one.

*One request at a time.* `Session` says what a request at work knows: it read what the tables hold, its marks
only move items on, and what it has passed bears its mark; so what it writes is what it holds (`WrittenIsHeld`), and the status it ends
with is true, though it may fail anywhere. For the cancel, `Unstarted` says that an unleased row is absent, queued or cancelled, and `Fits` that a table
of items, the stored one and the one held, names existing rows and no waiting unleased row for a cancelled item; `RowStepStops` shows that nobody's step on a row
breaks this.

### The services around the queue

*Limiter.* `BucketSound`: what a bucket admitted since its window began is at most its count, what it admitted before that at most one window's worth, and the observer counts
more the further back it looks.

*Retry policy.* The delay found by doubling step by step under the bound is the one by a power of two under the bound (`BoundedDoubling`); that a power of
two doubles is taken from the number of subsets of a finite set (`PowersDouble`).

*Units of work.* `LockHeld`: whoever is inside by the Redis lock owns it until it lapses, and whoever is inside by a lock of its process holds that;
`PendingInBody`: writes are open in a body only.

*Events.* `PageSound`: a page whose id has not outlived the list has been shown the list's beginning up to that id.

*Admission.* Over the limit go only racers, which is not inductive: `RacersPrepaid` counts those past the check and before the insert together with the
rows. `AskingSound`: a request holds the row it inserted, and it alone.

*Polling.* A round continues from the stored offset (`DiagSound`, `DiscSound`), whose growth makes what is behind it done (`DiagDone`, `DiscDone`). A report without stored progress is the
one an update may have beyond the deaths (`RepliesCounted`).

*Types and the side-by-side runs.* The inductive invariants hold the types that the proofs above need; what the type invariants bound beyond them is kept by a second, smaller invariant on top: what was
published bounds a bus, a page and its ids (`EventBounds`), the queue of updates every offset and batch (`PollingBounded`). A step of a side-by-side run is one of its part and leaves the
variables of the other parts alone, so a behaviour of the run is one of each specification (`ServicesKeepTheirSpecs`), and all that is proved of a service holds in the run too, beyond its bounds.

### Access

*Sign-in.* `SessionsSound`: no cookie is ahead of the file, and one with the file's version is of its rotation. `ChallengesSound`: a challenge that served is gone, and no later one
has its id. `AnswersSound`, `PasskeysSound`: an authenticator signs one registration for a passkey, so one that was deleted cannot come again.

*Tokens.* `CarriesTokens`: what a request carries is in the table, and what was revoked when it came still is. `PassedGate`: whoever is past the
first middleware holds a token that was active when it came and has the scope. `TableKept` is what each
change of the table leaves alone: grants and revocations.

*Tools.* `McpTyped` says what a call carries at each of its steps, `LoadedFits` that a loaded row had a status the tool may change,
`FailuresSpent` that each failure is spent by the retry that follows it.

*Types.* Versions in the file and in cookies are at most the rotations there were (`VersionsCount`); a challenge's id is its own, being one more than the ceremonies before it (`ChallengesDiffer`); no tool writes
a kind that Telegram does not have (`KindsAreReal`).

### Operations

*Recommendations.* `RecommendationsFit`: a recommendation, stored or just read, names a destination of its chat, unless the destination is gone or its id was given out again
(`reused`). `AppliesCounted` pays each second application with a status written over. A scan is a recursive function over the recorded updates, unfolded by a least counterexample (`ScanUnfolds`);
what one update keeps (`RecommendExtends`) then holds of a scan.

*Catalogue and restores.* `NumberedRows` and `Newest` are what the endpoints keep of the tables, and every snapshot saved has them (`SavedSound`) unless a restore
has brought templates and versions apart. `RestoreHoldsTables`: a restore under way holds the lock, so that the tables are as it copied and compared them.

*Backups.* `JobTracked`: a commit of the run is in its clone until it is in the remote. `ClonesAccounted`: a clone holds only what was pushed, is stranded, or is being pushed. `ChecksSound`: a check
that waits is as old as a run that is not the latest, or the interval has passed. The numbers of commits (`CommitsNumbered`): what git knows of (`Known`) is the branch, what is stranded and what is being
pushed, which by `ClonesAccounted` is all there is (`KnownIsAll`). It never shrinks, though clones are dropped and logs replaced, so the next number is free and a commit that is appended is new to its log (`OnceAppended`).

*Analytics.* `JobSound`: the run of the job is as far as the job. `TasksSound`: a run has one task, which waits for its job.

*Egress.* `ObservationsFresh`: an observation speaks true of the tunnel until the tunnel turns.

*Database.* `UrlsFit`, `OptsFit`: which database and settings the API and a task take at each step of a switch. `SnapshotFits`: the import holds what the sections hold, but for what was written since.

*Types.* `SoundRows`: rows have their columns, no two destinations of a bot name one chat and no two versions of a template bear one number, whatever is deleted, numbered anew and restored; it holds of every
snapshot saved and of the one being restored too (`SoundSaved`).
Likewise the rows of analytics and their tasks (`AnalyticsParts`), profiles and the tunnel (`EgressParts`), and every copy of the rows that a switch carries (`ItemsFiled`).
`AdministrationKeepsTheirSpecs` is to this run what `ServicesKeepTheirSpecs` is to the other.

### Out of the prover's reach

Liveness under fairness and `ENABLED`. Induction over data by the library's theorems is out of reach as well; where a property needs what a recursive function computes (a sum, a scan, a power), the induction is spelt
out as an argument from a least counterexample.

## 8. Only model-checked

The four liveness properties. Every other property of the passing runs is stated by a theorem, under the hypotheses that section 7 names.

## 9. Not modelled

*Whole components.* The media browser reads the file system and keeps nothing. The audit log, like the ops action-run log, is only appended to. Migrations and the metadata
repair run once before the program starts. Start-up, health, configuration and the dashboard are wiring and user interface.

*Everywhere.* Payloads, wording and layout of messages and reports; rendering of templates; HTTP,
git and WireGuard as programs; password hashing and signatures (perfect); reading endpoints, previews and dry runs.

*`SendQueue`.* The length of a delay (only past and future), the order of the
due list and with it starvation, the limit of 100 rows per due run and of 1000 per release, more than one message per row in the stream
(a set: a second message meets a settled or leased row and is skipped, or is the redelivery of the first), and the
destinations that a success updates. A due run stops at the first row that raises, and the rows behind it wait for the next; with one row this does
not show. A call loses at most one answer: that both the first
call and the one repeated at the fallback URL arrive and both answers are lost is left out.

*`Admission`.* One bot and one minute. *`Polling`.* The text of reports; the reaction of Telegram to two pollers of one bot at the same moment.
*`OpsRecommendations`.* More than one active bot; facts are the updates they are made of, and a scan replays old titles.
*`AnalyticsRuns`.* The metrics. *`Catalog`.* Names and health rows that checks refresh, and bot activity. *`Restore`.* Six of eleven sections, which name no other
rows. *`Backups`.* A missing repository; the address and headers of the privacy check. *`AdminAuth`.* Passkeys that do not count are a constant (`Counting`) that the instance leaves out.
*`Egress`.* Egress address, reachability of Telegram, handshake time, the first insertion of the settings row; a second provider.
*`DatabaseSwitch`.* The preflight report; overlapping settings patches on PostgreSQL; the reset of sequences after an import. *`McpTools`.* Tools that send, refresh, or work on batches,
rules and tokens run the code of those services, modelled there (`McpRefresh`, `McpCreateToken`); what the server captures of the environment and the Bot API client when the app is made.
*`EventStream`.* `RedisEventBus.stream`, which nothing calls; `latest` and `once`, which only read.
