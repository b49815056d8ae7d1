# Morai Journal: TLA+ models

Morai Journal is a multi-user trading journal. A web process (FastAPI) serves
accounts and brokerage connections, a worker process (Procrastinate) copies each
user's transactions from Schwab into Postgres, and a ledger derives opening and
closing events from the executions. This directory models the parts of it whose
correctness depends on the order of steps: what is committed when, by whom, under
which lock, and what is left behind when a step fails.

Paths below are relative to `src/src/morai/` unless they start with `tools/` or
`alembic/`, which are under `src/`.
Names such as CONN-06 or WR-01 are the repository's own (`.planning/REQUIREMENTS.md`
and the comments in the code).

## 1. Inventory

### Components, their state and operations

| Component | State | Operations | Module |
|---|---|---|---|
| Ingest (`ingest/schwab_sync.py`, `ingest/sync_runs.py`, `ingest/broker_transactions.py`, `worker/app.py`) | `broker_transactions`, `fills`, `sync_runs`, `schwab_connections.last_synced_at`, the job table, per-user advisory lock | periodic fan-out, manual trigger, `sync_user_task` / `sync_user`, failure record | `SyncWindows`, `WindowLoop`, `Ingest`, `SyncedLedger` |
| Token custody (`vendor/connections.py`, `vendor/protocol.py`, `vendor/schwab_adapter.py`, `api/routes_connections.py`) | the encrypted token and `token_created_at`; OAuth state rows | connect, callback, `schwab_client_for_user`, health | `TokenCustody` |
| Ledger (`ledger/pairing.py`, `ledger/events.py`, `ledger/fills.py`) | `legs`, `fills`, `events` | resolve fills to positions, derive events, `sync_events` | `Pairing`, `EventSync`, `EventBook` |
| Accounts (`api/routes_identity.py`, `identity/*.py`, `tools/create_admin.py`) | `users`, `user_data_keys`, `setup_tokens`, `sessions`, `audit_log` | bootstrap, create user, setup, login, reset, logout, delete | `Accounts` |
| Job queue (`alembic/versions/0002_procrastinate_schema.py`, `api/job_queue.py`, `worker/app.py`) | `procrastinate_jobs`, `_events`, `_periodic_defers`, `_workers` | defer, periodic defer, fetch, finish, heartbeat, prune, cancel, retry | `JobQueue`, `JobBoard` |
| Row-level security (`identity/rls.py`, `identity/sessions.py`, `db/session.py`, migrations 0003 to 0012) | transaction-local user id and admin flag of each pooled connection, policies, the role's attributes | set, switch and require the context, commit, boot | `Tenancy` |
| Key rotation (`crypto/rotation.py`, `tools/rotate_kek.py`, `provision_data_key`), envelope encryption (`crypto/envelope.py`) | wrapped data keys, the master key each process has cached | provision, delete, rewrap every key under a new master key | `Tenancy` |
| Settings, telemetry, money types, API shell, migrations, CI | none, or fixed at start | - | - (see section 8) |

### How they interact

* The web process and the workers share nothing but Postgres. `POST /schwab/sync`
  and the fan-out defer jobs; a worker takes the oldest one. During a redeploy two
  workers run at once, each with a periodic deferrer of its own. The callback and
  `DELETE /me` write rows that a running sync has read.
* `pg_advisory_xact_lock(hashtext(user_id))` is the one mutual exclusion: `sync_user`,
  `schwab_client_for_user` and `sync_events` take it, the callback, `DELETE /me` and
  the writer of legs do not. It ends with the transaction, whatever ends that.
* Isolation is read committed: every statement sees what is committed at that moment.
* Every request and job takes a connection from its process's pool and gives it back at
  each commit. What a policy consults is set on the connection for one transaction.
* Both processes read the master key when they start; `rotate_kek` runs beside them.
* The vendor is seen through `get_transactions` (published transactions of a range)
  and the OAuth token endpoint (which rotates refresh tokens).

### What is hard here

* A run reads `started_at` before it waits for the lock, so watermarks may move
  backwards; the windows computed from them must still leave no gap.
* The vendor publishes late; the overlap must reach back far enough for whichever
  run committed last.
* Runs fail in a later window, workers die, jobs are not retried.
* Re-authorisation and account deletion commit between any two statements of a run.
* A refresh rotates the token outside the database; it must be stored before anyone
  else reads the old one.
* Events are deduplicated by read-compare-insert, which is right only under the lock.
* `/setup` and `/login` are several transactions, or hold a value over a slow hash.
* `/setup` and the callback commit before they set their context, so their later
  statements may run on a connection another user's request has just left.
* Workers stall, are pruned and come back, or die and leave their job in `doing`.

### What makes each component correct

* Ingest: no transaction below the watermark is missing; fills are those of the stored
  transactions; a run is all or nothing; two runs of one user never overlap; counts
  add up; deleted data stays deleted; every run ends.
* Token custody: a state is good for one exchange; no client presents a rotated-away
  token; the reported expiry is the vendor's; the stored row never goes back.
* Ledger: an event is stored once and only of the position's own legs; what a call
  skips is stored; a scoped call gives the rows of a sweep; money is conserved; calls
  behave as if each happened at one instant.
* Accounts: one admin; links work once and for their purpose; the password in force is
  the last one set; deletion works and leaves nothing behind.
* Job queue: a job is in one hand at a time; the event log agrees with the table; a tick
  fires once; no waiting job is forgotten.
* Tenants: a statement sees exactly its own user's rows; the admin's view ends with the
  admin's request; keys live and die with their accounts; a rotation leaves no mixture.

`PROJECT.json` lists the hazards with their lines and the properties aimed at each.

## 2. Modules

`SyncWindows` holds the window arithmetic of `sync_windows` (`WindowsStart`,
`WindowEnd`) over integers in the unit of the settings. `WindowLoop` is its while loop
one iteration per step; `Ingest` uses the same two operators, so what is proved of
them holds for the windows a run walks through.

`Ingest` has one action per statement of `sync_user_task` that other processes can see:
`StartJob` (reads `started_at`), `AcquireLock`, `ReadConnection`, `OpenClient`,
`FetchWindow` (one vendor call and its two inserts), then `CommitRun`, or `Raise`
followed by `RecordFailure` on a session of its own. `Abort` stands for a killed
process, a cancelled task (`CancelledError` is not an `Exception`) and a database
failure outside the try block; it leaves no record. Uncommitted rows are kept in
`run[w]`. `Callback`, `ManualSync` and `DeleteAccount` are the web process,
`FanOutRead`/`FanOutDefer`/`FanOutAbort` the periodic task, `Tick` and `Post` the
clock and the vendor.

* The landed columns hold sets of rows where the table holds their number, so that a
  row counted twice can be seen.
* `floor` is auxiliary: from when the current account's history is covered. It is reset
  when a callback changes the account.
* `DeleteAccount` is one transaction. It waits only for rows of the user another
  transaction has inserted and not committed, which hold the `users` row through their
  foreign keys. A run of a deleted user ends in `FetchForDeletedUser` (no data key) or
  in the foreign key of `sync_runs`.
* The vendor may answer with or without a transaction executed at the very end of a
  range; the repository does not say which.

`SyncedLedger` is the abstract specification: a sync is one step that lands everything
owed for the range since the watermark and moves the watermark. `Ingest` instantiates
it under the identity on the tables and claims `ImplementsLedger`.

`TokenCustody` follows one user's grant: `Connect`, `Consume`, `Exchange`, `Store` for
the handshake, `Open`, `AcquireLock`, `ReadToken`, `Refresh`, `Finish`/`Fail` for
`schwab_client_for_user`. `lost` and `raced` are auxiliary and name the two situations
in which the code accepts or causes a dead token. Rows of two users are disjoint, so
one user is enough; the deletion of the row is in `Ingest` and `Accounts`.

`Pairing` states `RESOLVE_FILL_POSITIONS_SQL` and `derive_events` as set expressions
over legs and fills: `Candidates`, `Anchors`, `Survivors`, `Resolve`, `Group`, `EventOf`.
A `fill_ids_hash` is the set it hashes. `event_time` takes no part in any decision and
is left out. `EventSync` runs `sync_events` as concurrent calls, split at its
statements, beside `LandFills` (a whole `sync_user` transaction, from lock to commit)
and `AddLeg` (no code under `src` writes legs yet; it is external). `sync_events`
itself has no production caller yet, so any caller and any scope is allowed.

`EventBook` is what `sync_events` promises: a sync is one step that enters what the fills
of its scope derive and the book does not have, and nothing is changed or taken out. The
one thing it leaves open is which of the legs entered so far a sync goes by, because the
lock does not cover them. `EventSync` instantiates it with `events` as the book and claims
`ImplementsBook`.

`JobQueue` has one action per function of migration 0002, each with the triggers and
unique indexes it meets (`UpdateRow`, `TodoUnique`, `DoingUnique`). A fetch is two steps,
because `FOR UPDATE SKIP LOCKED` makes its row lock visible to other fetches before its
update: `FetchLock`, then `FetchCommit` or `FetchRefused`. Around the functions stand the
worker processes, which are the library's: `RegisterWorker`, `Kill`, `Lapse` (a heartbeat
grows too old), `Wake` (the periodic deferrer), and an operator who cancels, deletes and
retries. The program defers its jobs without a lock and without a retry strategy; locks,
queueing locks and priorities are modelled because the schema promises them to whoever
defers next. A periodic job keeps its task and tick in the row (`args["timestamp"]`).

* `RetryJob` takes a job in `doing` only when no process runs it any more. The schema
  does not check this: an operator who puts back the job of a slow worker gets two runs.
* The foreign key `worker_id` refuses the fetch of a worker whose row was pruned, which
  ends that process; the platform starts another.
* `Disturb` counts stalls of live workers, kills, stops and acts of the operator
  against one bound, `MaxFaults`.

`JobBoard` is what the table promises: a job is posted, taken by one worker and ended by
that worker; one whose worker died stays running until put back or given up. `JobQueue`
instantiates it with a mapping from statuses to phases and claims `ImplementsBoard`.

`Tenancy` joins row-level security and the data keys. A slot is a request or a job; `pc`
says which statement it is at, and the ones in `Protected` touch a table with a policy.
A connection keeps `uid` (`"null"`, `"empty"` or a user) and `admin` from one request to
the next; `EndTransaction` is what Postgres does to local settings, and `Free` allows any
free connection of the pool after a commit. `bypass` is chosen once: migration 0003 leaves
the attributes of a role that exists already. `GetCurrentUser`, `CreateUser`,
`SwitchContext`, `ProvisionDataKey`, `CommitUser` and `DeleteMe` are the authenticated
routes, `ConsumeToken` and `SetContext` are `/setup` and the callback, `Login` the rehash,
`SyncUser`, `SyncFails` and `RecordFailure` the worker's job. `RotateRead` unwraps every
row with one old key or fails, `RotateCommit` writes the rows it read; `Configure` and
`Boot` bring the new key to a process. `late` is history: the key was committed after a
rotation had read its rows, or by a process with an older master key.

`Accounts` has one action per route that changes rows. `/setup` is split at the commit
of `consume_token`, `/login` at the hashing, `create_admin` at its lock and check. User
ids and raw tokens are never reused; expiry is a set rows enter at any time.
`BumpParameters` is a deployment with other Argon2 parameters and needs an idle
process. Foreign keys without a cascade are the guard `Referenced`. The auxiliary
variables `uses`, `latest`, `raced` and `asked` remember what happened. Data keys of the
accounts are followed in `Tenancy`.

Definitions called "Mutant of ..." are deliberately wrong variants, used only to show
that a property notices them; no action uses them.

## 3. Runs

Bounds are named constants: `MaxClock`, `MaxQueue`, `MaxRuns`, `MaxVersion`, `MaxCalls`,
`MaxParams`, `MaxJobs`, `MaxTick`, `MaxFaults`, `MaxKek`, `MaxBoots` and the finite sets of
tokens, cookies and requests. When they are used up nothing can happen any more, so the
runs switch deadlock checking off; in `Tenancy` a deployment whose role bypasses the
policies is in fact meant to serve nothing. `WindowLoop` ends when the function returns.

| Run | Instance | Question |
|---|---|---|
| `window_loop` | all arguments of a range several windows wide | do the windows tile the range, as few as possible, and does the loop end? |
| `ingest` | 1 user, 2 workers, 2 accounts, 1 two-leg trade, lookback 2, range 1, overlap 1, clock to 2 | gaps, locks, counts, deletion, refinement of `SyncedLedger` |
| `ingest_fair` | one account, a shorter clock, authorisation failures, fair | does every taken job end? |
| `token_custody` | 2 workers, 2 states, 2 grants, 3 deliveries | custody of the token, honesty of the health, what may happen to the stored row |
| `token_reauth` (violation) | the same | does `token_created_at` belong to the stored token? |
| `event_sync` | 2 callers, 3 calls, 4 fills landing one by one, a leg added late | duplicates, skipped events, siblings, scopes, how far a fill is counted twice, refinement of `EventBook` |
| `event_whole` | 9 fills in 5 orders landing by order, all legs known | amounts, and each fill counted once |
| `event_split` (violation) | as `event_sync` | each fill counted once when orders land in parts |
| `accounts` | 2 users, 2 requests, 2 scripts, 3 tokens, 2 cookies | the account properties of section 1 |
| `job_queue` | 2 workers, 4 worker ids, 2 jobs with and without lock, queueing lock and priority, 2 disturbances | one runner, event log, refinement of `JobBoard` |
| `job_fair` | 2 workers, 1 periodic task, 2 ticks, 3 jobs, 1 disturbance, fair | when can a tick fire twice, does every waiting job start? |
| `tenancy` | 2 web requests over 2 connections, 1 job over 1, an admin and 2 users, 3 master keys, 3 boots | isolation over the pool, keys beside rotations |

Why the bounds are enough for the cases to occur. In `ingest`, a lookback of two ranges
gives several windows to every first sync, an overlap of one unit is exactly the
vendor's delay, so losing it loses a transaction, and a clock of 2 allows a run, a late
publication and a run after it. Two workers suffice for a conflict on one user's lock,
and another user's rows never meet these. One transaction of the first of two accounts
is seen both by runs that switch to its account and by runs that switch away from it.
In `event_sync` two calendars share a leg, so there are fills with one candidate, with
two candidates and an anchor, and with two anchors; the third calendar's leg, entered
late, takes an anchor away again. In `accounts` two users are an
admin and another user; three tokens allow the setup links of both and one reset. In
`job_queue` two jobs of one lock conflict, and a worker can stall, be pruned and come
back, which needs a third and a fourth id; in `job_fair` the second tick deletes the first
one's row and leaves room for a third job, the double firing. In `tenancy` two requests
exchange their two connections in every order, and three master keys give a rotation, a
key left behind, and a second rotation that fails on it.

Symmetry is used over workers, callers, the sets of `Accounts` and the requests, users and
connections of `Tenancy`, only in runs without liveness properties.

## 4. Fairness

`Terminates` assumes weak fairness of the loop's next step: straight-line Python.
`RunsEnd` assumes weak fairness of each worker (every vendor call returns or times out,
the worker process goes on) and strong fairness of `AcquireLock` (Postgres grants an
advisory lock to its waiters in turn, so a waiter is not overtaken for ever). Nothing is
assumed there of users, the clock, the vendor's publishing, or the fan-out, and `Abort` may
happen at any point.

`WaitingJobStarts` assumes that the platform starts a worker that ended again
(`RegisterWorker`), that a living worker polls and its fetch completes (`FetchLock`,
`FetchCommit` or `FetchRefused`), that a task returns or raises (`Run`), and that time
passes; stalls and kills are bounded, and no fairness is assumed of pruning, heartbeats or
the deferrers.

## 5. What the runs disagree with

Two are runs with a counterexample and a finding in `PROJECT.json`.

* `token_reauth`: the callback takes no lock. A client of the old grant that refreshed
  writes its token over the newly authorised one and leaves the new `token_created_at`.
* `event_split`: a group grows when an order's executions land in two syncs, or changes
  when a leg is added; a second event row then counts the first one's fill again. How far
  this goes is a property that holds: until a leg is added the two rows are of the same
  position and type (`OverlapsOnOnePosition`), so no other position gets the fill.

Others are exceptions that a passing property states exactly, or plain consequences of an
action.

* `PasswordIsLatest` excepts `raced`: login's rehash is an unconditional UPDATE and puts
  the old password back over a reset that committed while the hash was verified.
* `DeletionGoesThrough` excepts `Audited`: `audit_log`'s foreign keys have no cascade, so
  after one password reset neither its admin nor its subject can delete their account.
* `DoubleFireOnlyLate`: deferring a tick deletes the rows of earlier ticks, so a worker of
  a redeploy that defers an earlier tick late fires it again.
  `.planning/phases/06-raw-ingest-and-backfill/06-02-PLAN.md:27` takes the unique
  constraint to exclude that. Syncing twice is harmless.
* `OnlyLateKeysLeftBehind` excepts `late`: a user created between the rotation's SELECT and
  the web process's restart has a key under the old master key, which the processes then
  cannot unwrap and at which the next rotation fails. `crypto/rotation.py:16-18` says there
  is "no concurrent multi-key window to track".
* `KeyWithAccount` excepts the admin: `create_admin` provisions no data key.
* A job whose worker died stays in `doing`: nothing in the program puts it back
  (`WaitingJobStarts` is about the other jobs).
* The adapter never checks a response's status, so a 401 and a 429 are recorded as
  `vendor_payload_unparseable`; two of the five error classes of `sync_runs.py` cannot
  occur (`FetchWindow`, `ClassifySyncError`).
* The cooldown of `POST /schwab/sync` looks at recorded runs, and a run is recorded when it
  ends, so until then `ManualSync` queues job after job.
* A re-authorisation with another brokerage account keeps `last_synced_at`, so the new
  account gets no backfill; the theorem about `BackfillOnConnect` is about a first sync.
* After a commit `current_setting` reads as an empty string rather than NULL, so
  `require_rls_context` would fail in `UUID` instead of by its own message; it fails
  either way (`RequireRlsContext`).

## 6. Proofs

Proved by TLAPS for every value of the constants that meets the named assumptions:
`SettingsAssumption` (the range limit is not 0), `TimesAssumption`, `IngestAssumption`,
`EventSyncAssumption`/`PairingAssumption`, `CustodyAssumption`, `AccountsAssumption`,
`JobQueueAssumption` and `TenancyAssumption` (types of the constants), `RowAssumption` and
`TokenRowAssumption` (the value that stands for NULL is no row), and `PostDelayAssumption`
(the vendor publishes within the overlap), the one assumption about the world. One theorem,
`SpecEachFillCountedOnce`, has a hypothesis of its own, `OrdersLandWhole`, which run
`event_whole` satisfies. The bounds of the models are numbers of any size.

**WindowLoop_proofs**: `Tiled`, `WidthBounded`, `FullWindows`, `CoversToNow`,
`RequestsBounded`. The inductive invariant is the conjunction of the type invariant, the
first three, the last, the fact that a loop that has returned has reached `now`, from which
`CoversToNow` follows, and `Counted`: while there is something left to sync the cursor is as
many full ranges from the start as there are windows. `RequestsBounded` is also the safety
half of termination: every iteration adds a window, and there is a bound on them.

**Ingest_proofs**: `TypeOK`, `LockProtects`, `NothingMissed`, `WatermarkNotStale`,
`FillsMatchBroker`, `DeletedStaysDeleted`, `RunsAccountForRows`, `WatermarkHasRun`, the
action properties `LedgerGrows` and `BackfillOnConnect`, and `Spec => ImplementsLedger`.
`NothingMissed` is far from inductive: it speaks of committed rows, while the reason it
holds lies in the runs that have not committed. `IInv` adds

* `Settled`: what is older than the vendor's delay is published;
* `StartedPast`: a run's `started_at` is not in the future;
* `FloorSynced`: coverage begins with a watermark;
* for every run between reading the connection and its end, `AccountHeld` (it fetches
  the row's account, or one the row has left and whose coverage is reset), `StartHeld`
  (its windows start from the watermark still in the row, which needs `LockProtects`),
  `Covered` (below its cursor it holds everything that was certain to be published),
  `InRange` and `FillsFollow`;
* `Unfetched`: before it fetches, a run holds nothing.

When a run commits, `Covered` up to its `started_at` and the old `NothingMissed` below
the old watermark meet because the windows start an overlap before it and the overlap
is not shorter than the vendor's delay. The refinement uses the same facts: a commit is
`SyncedLedger!Sync`, a callback `Connect`, a deletion `Delete`, a tick `Pass`, and all
else stutters.

That each row is counted by one run needs one more fact, `NewRows`: what a run has landed
and not committed is in none of the user's committed rows. The insert only returns what the
table has not, and afterwards no other run of the user can commit, since it would need
the lock. So the row a commit adds to `sync_runs` is disjoint from all earlier ones.

**EventSync_proofs**: `ScopeIsSweep` (a lemma on `DeriveEvents` for any fills, legs and
resolution) and with it `ScopeEqualsSweep`; `NoDuplicateEvents`, `EventsOnOwnLegs` and
`NothingSkipped`. The invariant adds that a caller past the lock is its holder
(`LockHeld`), that what a call has resolved and derived still comes from the fills of
the table, since those only land under the same lock, and that its drafts have no
stored key.

`EachFillCountedOnce` is false in general (run `event_split`). It is proved under
`OrdersLandWhole`: every delivery holds all or none of the fills of an order, and no leg is
added later. Resolution looks only at the legs and at the fills of the same order
(`ResolveWhole`), so a fill that has landed already resolves to its final position, and its
group in any scope is the final group (`WholeGroups`). `Stable` says so of every call under
way and every stored row; final groups are disjoint, and `NoDuplicateEvents` does the rest.

Where orders land in parts, `OverlapsOnOnePosition` is proved until a leg is added. A fill
goes to a position only where that position is its one survivor (`DerivedSurvives`), and
landing a fill adds anchors and takes none away (`SurvivorsGrow`), so the position of a
stored row stays a survivor of each of its fills (`Held`). A row of another position with
one of those fills could not be derived: the fill would have two survivors, and is then
resolved to none.

`MoneyConserved` compares a sum over the fills of a row with the sum `derive_events`
forms. Both are folds, so the proof needs induction over a finite set (see below):
`NetIsCash` shows that for any finite set of fills without a gap the signed amounts add up to
the cash, or to its opposite. `Stored` says that every stored row was derived from its own
fills, with the amount of their group.

`Spec => ImplementsBook` shows that a call is one instant although its reads of legs,
fills and events and its insert are apart. The commit maps to `EventBook!Sync`; everything
before it, and a rollback, stutters. Two facts make that work: `Known` says that a call has
resolved from the fills that are still those of the table, since they land under the lock it
holds, and from legs that are still there, since legs only grow; `Numbered` says that no
other call and no stored row has the id of a call under way.

**Sums_proofs**: induction without the library's induction theorems, whose operator
parameter the provers cannot instantiate. A statement is given as a set of naturals, or as a
set of parts of a finite set; the least element that is not in it exists because `<` on the
naturals is well founded, and contradicts the induction step (`InductionOverNat`,
`InductionOverParts`). From this `SumsExist` and `SumsOfParts` show what `MapThenSumSet`
adds up to, whatever order its `CHOOSE` takes the elements in: two such sums whose terms are
equal, or opposite, are themselves equal, or opposite.

**TokenCustody_proofs**: `TypeOK`, `StateUsedOnce`, `NeverPresentsStale`, `StoredTokenLive`,
`HealthHonest` and the action property `RowMovesForward`. `StateUsedOnce` needs only that a
state that can still be consumed is in no delivery's hands (`StateFresh`). The others speak
of a row that is written from two sides, by the holder of the lock and by callbacks that
take no lock; the invariant follows every grant: a worker inside the body is the holder of
the lock and alone has a token (`Locked`, `Bodies`), a grant that anyone has was handed out
(`HandedOut`), a grant on its way from the exchange to the row is with one delivery and
nowhere else, in its first version (`OnItsWay`), the row is behind the vendor only while the
holder has rotated the same grant and not committed (`StoredLive`), and, without a callback
inside a body, the row is dated as its grant is (`Dated`). `OnItsWay` is what lets a
callback overwrite the row under a running body: it stores a current token that no worker
can have rotated. For `RowMovesForward` the invariant also compares a body with the row it
will overwrite (`Ahead`): if both have the same grant the body's token is not older, and it
is newer once the body has refreshed.

**Accounts_proofs**: `TypeOK`, `AtMostOneAdmin`, `TokenWorksOnce`, `SetupNeedsItsToken`,
`PasswordIsLatest`, `DeletionGoesThrough` and `ErasureComplete`. The proof first shows what
a step can do to each table (`RequestEffect`, `LinkEffect`, `SessionEffect`,
`IdentityEffect`, ...) and then preserves the parts one by one: every session, link and
request under way has its user (`Owned`); an invocation of `create_admin` past the lock is
its holder, and none that has checked coexists with an admin (`OneScript`); a link that is
stored, or was never issued, is unused, and its row is not rewritten after its deletion
(`Links`); only accounts have passwords, and a login about to rehash holds the latest one or
was overtaken (`Rehashing`). Without `Rehashing`, `PasswordIsLatest` is not inductive: the
login writes what it verified several steps before. `ErasureComplete` is inductive given
`Owned`: every step that writes a row about a user finds the user's row when it writes,
however long ago it began.

**JobQueue_proofs**: `TypeOK`, `OneRunner`, `EventsTellStatus`, `DoubleFireOnlyLate` and
`Spec => ImplementsBoard`. `OneRunner` needs the two halves of a fetch: `Fetches` says that
a row a fetch has locked still waits, that no two fetches have locked one row, and that a
process fetches only with an empty hand, so the commit finds a job nobody runs.
`DoubleFireOnlyLate` needs `InOrder` (ids come from a sequence, and a row that is not there
has no tick) and `FiredKept` (a tick that has fired has its row in
`procrastinate_periodic_defers`, or a later tick of its task has fired since): when a tick
with no row fires, its earlier job, if any, has that later tick's job between the two.
`EventsTellStatus` is inductive by itself, given that the trigger knows every change of
status the functions make (`Logged`). In the refinement a defer is `Post`, the commit of a
fetch `Take`, `procrastinate_finish_job_v1` `End`, a kill `Die`, a cancellation or deletion
of a waiting job `Withdraw`, a retry `PutBack` or `GiveUp`; all else stutters.

**Tenancy_proofs**: `TypeOK`, `OwnRowsOnly`, `AccountsOfOthersForAdmin`, `KeyWithAccount`
and `OnlyLateKeysLeftBehind`. The invariant has a part on requests and connections: what a
request holds at each point (`Holding`), one request per connection (`Exclusive`), the user
id a connection in use has (`ContextSet`), the admin flag only where an admin's request has
the connection (`FlagHeld`), and no web process under a role that bypasses the policies
(`BootRefused`). Its part on accounts and keys adds that a user being created is nobody's
yet (`Pending`) and that while a rotation has read its rows every key it did not read is a
late one (`OthersLate`).

`WidthBounded`, `CoversToNow`, `RequestsBounded`, `FillsMatchBroker`, `LedgerGrows`,
`BackfillOnConnect` and the type invariants of all modules but `Ingest` are proved and no
run lists them. The type invariant of `Ingest` is also checked, because it says which error
classes `sync_runs` may hold.

Only model-checked: the liveness properties (`RunsEnd`, `Terminates`,
`WaitingJobStarts`), since liveness under fairness is out of the prover's reach. Every
safety property a passing run checks has a theorem. No module here declares a RECURSIVE
operator.

## 7. Plan

1. Done: windows, ingest, token custody, events, accounts, then the job queue with its
   abstract board, and tenancy with key rotation, both with their proofs.
2. Done: a theorem for every safety invariant, action property and refinement the passing
   runs check.
3. `detect_roll` and the OCC symbol as operators of `Pairing`, once a caller exists.

## 8. Not modelled

* `crypto/envelope.py`: pure cryptography over bytes; a stored value is modelled by what
  decrypts from it, and associated data by the row it is in.
* Row-level security inside the other modules: they read and write only rows the policies
  let the code see, which is what `Tenancy` shows.
* Of migration 0002: `procrastinate_retry_job_v1` (kept for older library versions, a
  special case of v2), the NOTIFY functions (a wake-up only shortens the polling interval),
  and fetching by queue name (the program uses one queue).
* `.railway/railway.ts` gives the worker neither the role's password nor the master key
  yet; the models assume a worker configured like the web process.
* `detect_roll`: a stateless comparison of two fills that nothing calls.
* Parsing of vendor payloads beyond "valid or not" and `extract_fills` beyond "the fills
  of a transaction" (`FillsOf`), decimal scaling, and the uniqueness of a fill's key.
* Validation of settings, telemetry, error envelopes, request models, money types, the
  execution of migrations and the lint and type-check gates: no state that changes while the system runs.
* `tools/isolation_smoke.py` and `tools/measure_argon2.py` measure a deployment.
