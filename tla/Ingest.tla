--------------------------------- MODULE Ingest ---------------------------------
(***************************************************************************)
(* The raw-ingest path: the periodic fan-out and the manual trigger defer  *)
(* sync_user jobs, worker processes run them (worker/app.py::sync_user_task*)
(* around ingest/schwab_sync.py::sync_user), and each run lands the        *)
(* vendor's transactions and the fills extracted from them, moves the      *)
(* connection's last_synced_at watermark, and leaves a sync_runs row.      *)
(*                                                                         *)
(* Postgres is read-committed: a statement reads what is committed, a      *)
(* transaction's own writes are held in run[w] until its commit, and the   *)
(* per-user advisory lock is freed by whatever ends the transaction.       *)
(* The OAuth token a run uses is the subject of module TokenCustody.       *)
(***************************************************************************)
EXTENDS SyncWindows, Sequences

CONSTANTS
    Users, Workers, Accounts,
    Activities,     \* the vendor's transactions, by activityId
    AccountOf,      \* [Activities -> Accounts]
    Fills,          \* primary keys of the fills table
    FillsOf,        \* [Activities -> SUBSET Fills], what extract_fills returns
    VendorFaults,   \* the ways one vendor call may fail, see RaisedBy
    ExecTimes,      \* the execution times the vendor's transactions may have
    PostDelay,      \* how late the vendor may publish a transaction
    Cooldown,       \* settings.schwab_sync_cooldown_seconds
    MaxClock, MaxQueue, MaxRuns   \* bounds of the model

ASSUME IngestAssumption ==
    /\ None \notin Users \cup Workers \cup Accounts
    /\ AccountOf \in [Activities -> Accounts]
    /\ FillsOf \in [Activities -> SUBSET Fills]
    /\ VendorFaults \subseteq {"http_401", "http_429", "bad_payload", "network"}
    /\ ExecTimes \subseteq Int
    /\ PostDelay \in Nat
    /\ Cooldown \in Nat

\* The one assumption about the vendor that the overlap is there for: a
\* transaction is published no later than the overlap after its execution.
ASSUME PostDelayAssumption == PostDelay <= Overlap

VARIABLES
    clock,
    execAt,      \* vendor: execution time of each transaction
    posted,      \* vendor: the transactions get_transactions can already return
    users,       \* users table
    account,     \* schwab_connections.account_hash, None where there is no row
    lastSynced,  \* schwab_connections.last_synced_at
    broker,      \* broker_transactions, per user
    fills,       \* fills, per user
    syncRuns,    \* sync_runs, per user in insertion order
    queue,       \* procrastinate_jobs with status todo, oldest first
    fanout,      \* user ids the running fan-out has read and not yet deferred
    lock,        \* holder of pg_advisory_xact_lock(hashtext(user_id))
    run,         \* the local state of each worker process
    floor        \* auxiliary: where the current account's coverage begins

vendor == <<execAt, posted>>
tables == <<users, account, lastSynced, broker, fills, syncRuns, floor>>
jobs == <<queue, fanout>>
vars == <<clock, vendor, tables, jobs, lock, run>>

--------------------------------------------------------------------------------
SyncErrors == {"connection_not_found", "vendor_auth_failed",
               "vendor_rate_limited", "vendor_payload_unparseable", "unknown"}
\* The landed columns hold the number of rows the inserts returned; the model
\* keeps the rows themselves, so that two runs counting one row can be told.
\* A trigger (scheduled or manual) only labels a job and its record and is left out.
Job == [user : Users]
SyncRun == [startedAt : Int, status : {"succeeded", "failed"},
            brokerLanded : (SUBSET Activities) \cup {None},
            fillsLanded : (SUBSET Fills) \cup {None},
            error : SyncErrors \cup {None}]

\* Where a worker is in sync_user_task.  In InTransaction it holds the lock.
InTransaction == {"locked", "client", "fetching"}
PCs == {"idle", "waiting", "failing"} \cup InTransaction

Run == [pc : PCs, user : Users \cup {None},
        startedAt : Int, account : Accounts \cup {None},
        start : Int, cursor : Int,
        broker : SUBSET Activities, fills : SUBSET Fills,
        error : SyncErrors \cup {None}]

IdleRun == [pc |-> "idle", user |-> None, startedAt |-> 0, account |-> None,
            start |-> 0, cursor |-> 0,
            broker |-> {}, fills |-> {}, error |-> None]

TypeOK ==
    /\ clock \in Nat
    /\ execAt \in [Activities -> Int]
    /\ posted \subseteq Activities
    /\ users \subseteq Users
    /\ account \in [Users -> Accounts \cup {None}]
    /\ lastSynced \in [Users -> Int \cup {None}]
    /\ broker \in [Users -> SUBSET Activities]
    /\ fills \in [Users -> SUBSET Fills]
    /\ syncRuns \in [Users -> Seq(SyncRun)]
    /\ queue \in Seq(Job)
    /\ fanout \subseteq Users
    /\ lock \in [Users -> Workers \cup {None}]
    /\ run \in [Workers -> Run]
    /\ floor \in [Users -> Int \cup {None}]

Init ==
    /\ clock = 0
    /\ execAt \in [Activities -> ExecTimes]
    /\ posted = {a \in Activities : execAt[a] + PostDelay < 0}
    /\ users = Users
    /\ account = [u \in Users |-> None]
    /\ lastSynced = [u \in Users |-> None]
    /\ broker = [u \in Users |-> {}]
    /\ fills = [u \in Users |-> {}]
    /\ syncRuns = [u \in Users |-> <<>>]
    /\ queue = <<>>
    /\ fanout = {}
    /\ lock = [u \in Users |-> None]
    /\ run = [w \in Workers |-> IdleRun]
    /\ floor = [u \in Users |-> None]

--------------------------------------------------------------------------------
(* The clock and the vendor.                                               *)

\* Time passes, but not past the moment by which the vendor has published a
\* transaction.
Tick ==
    /\ clock < MaxClock
    /\ \A a \in Activities : execAt[a] + PostDelay <= clock => a \in posted
    /\ clock' = clock + 1
    /\ UNCHANGED <<vendor, tables, jobs, lock, run>>

\* The vendor publishes a transaction, at its execution or later.
Post(a) ==
    /\ a \notin posted
    /\ execAt[a] <= clock
    /\ posted' = posted \cup {a}
    /\ UNCHANGED <<clock, execAt, tables, jobs, lock, run>>

--------------------------------------------------------------------------------
(* The web process.                                                        *)

\* GET /schwab/callback, its upsert_connection and commit: a new row, or the
\* same row with a new grant.  last_synced_at is not in the ON CONFLICT SET
\* list, and no advisory lock is taken.  The grant may be for any account.
Callback(u, acct) ==
    /\ u \in users
    /\ account' = [account EXCEPT ![u] = acct]
    /\ floor' = [floor EXCEPT ![u] = IF account[u] = acct THEN floor[u] ELSE None]
    /\ UNCHANGED <<clock, vendor, users, lastSynced, broker, fills, syncRuns,
                   jobs, lock, run>>

\* Bounds of the model on the job table.
MayDefer(u) == Len(queue) < MaxQueue /\ Len(syncRuns[u]) < MaxRuns

\* The most recently started of the user's recorded runs is older than the
\* cooldown, so every recorded run is.
CooldownOver(u) ==
    \A i \in 1..Len(syncRuns[u]) : clock - syncRuns[u][i].startedAt >= Cooldown

\* POST /schwab/sync: 404 without a connection, 429 inside the cooldown, else
\* defer_manual_sync.
ManualSync(u) ==
    /\ u \in users
    /\ account[u] # None
    /\ CooldownOver(u)
    /\ MayDefer(u)
    /\ queue' = Append(queue, [user |-> u])
    /\ UNCHANGED <<clock, vendor, tables, fanout, lock, run>>

\* DELETE /me, identity/account.py::delete_account and the route's commit, one
\* transaction.  It takes no advisory lock; what makes it wait are the foreign
\* keys: a row another transaction has inserted for this user and not yet
\* committed holds the users row.
DeleteAccount(u) ==
    /\ u \in users
    /\ \A w \in Workers : run[w].user = u => run[w].broker = {}
    /\ users' = users \ {u}
    /\ account' = [account EXCEPT ![u] = None]
    /\ lastSynced' = [lastSynced EXCEPT ![u] = None]
    /\ broker' = [broker EXCEPT ![u] = {}]
    /\ fills' = [fills EXCEPT ![u] = {}]
    /\ syncRuns' = [syncRuns EXCEPT ![u] = <<>>]
    /\ floor' = [floor EXCEPT ![u] = None]
    /\ UNCHANGED <<clock, vendor, jobs, lock, run>>

--------------------------------------------------------------------------------
(* The periodic fan-out, sync_all_connected_users.                         *)

\* SELECT user_id FROM schwab_connections, on the superuser session.
FanOutRead ==
    /\ fanout = {}
    /\ fanout' = {u \in Users : account[u] # None}
    /\ UNCHANGED <<clock, vendor, tables, queue, lock, run>>

\* One defer_async, committed by the job connector on its own.
FanOutDefer(u) ==
    /\ u \in fanout
    /\ MayDefer(u)
    /\ fanout' = fanout \ {u}
    /\ queue' = Append(queue, [user |-> u])
    /\ UNCHANGED <<clock, vendor, tables, lock, run>>

\* The worker running the fan-out stops between two defers.
FanOutAbort ==
    /\ fanout # {}
    /\ fanout' = {}
    /\ UNCHANGED <<clock, vendor, tables, queue, lock, run>>

--------------------------------------------------------------------------------
(* sync_user_task, in the order its transaction meets the database.        *)

\* A worker takes the oldest job; started_at is read before anything else, in
\* particular before the lock is waited for.
StartJob(w) ==
    /\ run[w].pc = "idle"
    /\ queue # <<>>
    /\ queue' = Tail(queue)
    /\ run' = [run EXCEPT ![w] = [IdleRun EXCEPT !.pc = "waiting",
                                                 !.user = Head(queue).user,
                                                 !.startedAt = clock]]
    /\ UNCHANGED <<clock, vendor, tables, fanout, lock>>

\* Mutant of AcquireLock: the lock is not taken.
AcquireLockFree(w) ==
    LET u == run[w].user IN
    /\ run[w].pc = "waiting"
    /\ lock' = [lock EXCEPT ![u] = w]
    /\ run' = [run EXCEPT ![w].pc = "locked"]
    /\ UNCHANGED <<clock, vendor, tables, jobs>>

\* pg_advisory_xact_lock, sync_user's first statement after set_config.
AcquireLock(w) ==
    LET u == run[w].user IN
    /\ run[w].pc = "waiting"
    /\ lock[u] = None
    /\ lock' = [lock EXCEPT ![u] = w]
    /\ run' = [run EXCEPT ![w].pc = "locked"]
    /\ UNCHANGED <<clock, vendor, tables, jobs>>

\* Mutant of ClassifySyncError: an unrecognised exception goes by its own name.
ClassifySyncErrorByName(exc) ==
    IF exc = "ValidationError" THEN "vendor_payload_unparseable" ELSE exc

\* How classify_sync_error names what sync_user raised.
ClassifySyncError(exc) ==
    CASE exc = "ConnectionNotFound" -> "connection_not_found"
      [] exc = "ValidationError" -> "vendor_payload_unparseable"
      [] exc = "HTTPStatusError_401" -> "vendor_auth_failed"
      [] exc = "HTTPStatusError_429" -> "vendor_rate_limited"
      [] OTHER -> "unknown"

\* Mutant of Raise: the failed session is not rolled back.
RaiseKeepsLock(w, exc) ==
    /\ run' = [run EXCEPT ![w] = [run[w] EXCEPT !.pc = "failing",
                                                !.error = ClassifySyncError(exc)]]
    /\ UNCHANGED <<clock, vendor, tables, jobs, lock>>

\* sync_user raises: session.rollback() drops what the transaction wrote and
\* frees the lock; the failed run is still to be recorded.
Raise(w, exc) ==
    /\ lock' = [lock EXCEPT ![run[w].user] = None]
    /\ run' = [run EXCEPT ![w] = [run[w] EXCEPT !.pc = "failing",
                                                !.broker = {}, !.fills = {},
                                                !.error = ClassifySyncError(exc)]]
    /\ UNCHANGED <<clock, vendor, tables, jobs>>

\* read_connection under the lock, then sync_windows from its last_synced_at.
ReadConnection(w) ==
    LET u == run[w].user
        start == WindowsStart(lastSynced[u], run[w].startedAt) IN
    /\ run[w].pc = "locked"
    /\ account[u] # None
    /\ run' = [run EXCEPT ![w] = [run[w] EXCEPT !.pc = "client",
                                                !.account = account[u],
                                                !.start = start,
                                                !.cursor = start]]
    /\ UNCHANGED <<clock, vendor, tables, jobs, lock>>

\* schwab_client_for_user reads the row a second time, for the token.
OpenClient(w) ==
    /\ run[w].pc = "client"
    /\ account[run[w].user] # None
    /\ run' = [run EXCEPT ![w].pc = "fetching"]
    /\ UNCHANGED <<clock, vendor, tables, jobs, lock>>

\* Either read finds no row.
NoConnection(w) ==
    /\ run[w].pc \in {"locked", "client"}
    /\ account[run[w].user] = None
    /\ Raise(w, "ConnectionNotFound")

\* What get_transactions may answer for [from, to): every published transaction
\* of the account in the half-open window, and of those executed at its very
\* end any, since the vendor's treatment of the end is not known.
Answers(acct, from, to) ==
    LET of(S) == {a \in S : AccountOf[a] = acct}
        inside == {a \in of(posted) : from <= execAt[a] /\ execAt[a] < to}
        atEnd == {a \in of(posted) : execAt[a] = to}
    IN {inside \cup extra : extra \in SUBSET atEnd}

\* The fills of the transactions of one answer.  Which legs of a transaction become
\* a fill and which are skipped with a reason depends on its payload alone.
ExtractFills(answer) == UNION {FillsOf[a] : a \in answer}

\* Mutant of InsertBroker: rows handed in are counted, not rows landed.
InsertBrokerHandedIn(r, answer) == r.broker \cup answer

\* insert_broker_transactions and insert_fills, ON CONFLICT DO NOTHING ... RETURNING:
\* what the transaction has landed after an answer, which is only what neither the
\* table nor the transaction had.
InsertBroker(r, answer) == r.broker \cup (answer \ broker[r.user])
InsertFills(r, answer) ==
    r.fills \cup (ExtractFills(answer) \ fills[r.user])

\* One iteration of the window loop: get_transactions and the two inserts.
FetchWindow(w) ==
    LET r == run[w]
        to == WindowEnd(r.cursor, r.startedAt) IN
    /\ r.pc = "fetching"
    /\ r.cursor < r.startedAt
    /\ \E answer \in Answers(r.account, r.cursor, to) :
         /\ r.user \in users \/ answer = {}
         /\ run' = [run EXCEPT ![w] =
              [r EXCEPT !.cursor = to,
                        !.broker = InsertBroker(r, answer),
                        !.fills = InsertFills(r, answer)]]
    /\ UNCHANGED <<clock, vendor, tables, jobs, lock>>

\* There is something to insert and the account is gone: _current_dek finds no
\* data key.
FetchForDeletedUser(w) ==
    LET r == run[w] IN
    /\ r.pc = "fetching"
    /\ r.cursor < r.startedAt
    /\ r.user \notin users
    /\ \E answer \in Answers(r.account, r.cursor, WindowEnd(r.cursor, r.startedAt)) :
         answer # {}
    /\ Raise(w, "NoResultFound")

\* The adapter never looks at the status code of a response: an error status
\* comes back as its JSON error object, which is not a list of transactions.
RaisedBy(fault) ==
    IF fault = "network" THEN "TransportError" ELSE "ValidationError"

\* One vendor call of the loop fails.
VendorError(w, fault) ==
    /\ run[w].pc = "fetching"
    /\ run[w].cursor < run[w].startedAt
    /\ Raise(w, RaisedBy(fault))

\* Mutant of RunsTableAfter: sync_runs carries no foreign key to users.
RunsTableAfterAny(u, row) == [syncRuns EXCEPT ![u] = Append(@, row)]

\* record_sync_run: an insert whose foreign key needs the user to exist.
RunsTableAfter(u, row) ==
    IF u \in users THEN [syncRuns EXCEPT ![u] = Append(@, row)] ELSE syncRuns

\* The failure record, on a second session.  Where the user is gone its insert
\* breaks the foreign key, and the job fails without a record.
RecordFailure(w) ==
    LET r == run[w] IN
    /\ r.pc = "failing"
    /\ syncRuns' = RunsTableAfter(r.user,
          [startedAt |-> r.startedAt, status |-> "failed",
           brokerLanded |-> None, fillsLanded |-> None, error |-> r.error])
    /\ run' = [run EXCEPT ![w] = IdleRun]
    /\ UNCHANGED <<clock, vendor, users, account, lastSynced, broker, fills,
                   floor, jobs, lock>>

\* Mutant of Watermark: the time the run finished.
WatermarkAtFinish(r) == clock

\* The value of last_synced_at a successful run leaves: its started_at, so that a
\* fill executed while the vendor was being asked falls into the next window.
Watermark(r) == r.startedAt

\* The loop is done: the run row, last_synced_at = started_at and everything
\* landed are committed as one transaction, which frees the lock.
CommitRun(w) ==
    LET r == run[w] IN
    /\ r.pc = "fetching"
    /\ ~(r.cursor < r.startedAt)
    /\ r.user \in users
    /\ broker' = [broker EXCEPT ![r.user] = @ \cup r.broker]
    /\ fills' = [fills EXCEPT ![r.user] = @ \cup r.fills]
    /\ syncRuns' = RunsTableAfter(r.user,
          [startedAt |-> r.startedAt, status |-> "succeeded",
           brokerLanded |-> r.broker, fillsLanded |-> r.fills, error |-> None])
    /\ lastSynced' = [lastSynced EXCEPT ![r.user] = Watermark(r)]
    /\ floor' = [floor EXCEPT ![r.user] =
          IF floor[r.user] = None /\ account[r.user] = r.account
          THEN r.start ELSE floor[r.user]]
    /\ lock' = [lock EXCEPT ![r.user] = None]
    /\ run' = [run EXCEPT ![w] = IdleRun]
    /\ UNCHANGED <<clock, vendor, users, account, jobs>>

\* The same point with the account gone: the insert into sync_runs breaks the
\* foreign key outside the try block, and nothing is recorded.
CommitRefused(w) ==
    /\ run[w].pc = "fetching"
    /\ ~(run[w].cursor < run[w].startedAt)
    /\ run[w].user \notin users
    /\ lock' = [lock EXCEPT ![run[w].user] = None]
    /\ run' = [run EXCEPT ![w] = IdleRun]
    /\ UNCHANGED <<clock, vendor, tables, jobs>>

\* The process dies, the task is cancelled (CancelledError is no Exception), or
\* the database fails outside the try block: the transaction is gone and so is
\* the job, which is left in status doing and never taken again.
Abort(w) ==
    /\ run[w].pc # "idle"
    /\ lock' = IF run[w].pc \in InTransaction
               THEN [lock EXCEPT ![run[w].user] = None] ELSE lock
    /\ run' = [run EXCEPT ![w] = IdleRun]
    /\ UNCHANGED <<clock, vendor, tables, jobs>>

--------------------------------------------------------------------------------
WorkerStep(w) ==
    \/ StartJob(w) \/ AcquireLock(w)
    \/ ReadConnection(w) \/ OpenClient(w) \/ NoConnection(w)
    \/ FetchWindow(w) \/ FetchForDeletedUser(w)
    \/ \E fault \in VendorFaults : VendorError(w, fault)
    \/ RecordFailure(w) \/ CommitRun(w) \/ CommitRefused(w)

Next ==
    \/ Tick
    \/ \E a \in Activities : Post(a)
    \/ \E u \in Users, acct \in Accounts : Callback(u, acct)
    \/ \E u \in Users : ManualSync(u) \/ DeleteAccount(u) \/ FanOutDefer(u)
    \/ FanOutRead
    \/ FanOutAbort
    \/ \E w \in Workers : WorkerStep(w) \/ Abort(w)

\* Each vendor call of schwab-py returns or times out, and Postgres grants an
\* advisory lock to its waiters in turn; a worker never runs out of steps.
Fairness ==
    /\ \A w \in Workers : WF_vars(WorkerStep(w))
    /\ \A w \in Workers : SF_vars(AcquireLock(w))

Spec == Init /\ [][Next]_vars
FairSpec == Spec /\ Fairness

--------------------------------------------------------------------------------
(* Properties.                                                             *)

Holds(w, u) == run[w].pc \in InTransaction /\ run[w].user = u

\* CONN-06, WR-01: the transactions of two runs of one user never overlap.  A
\* worker is between the lock and the end of its transaction exactly when it is
\* the recorded holder.
LockProtects ==
    \A u \in Users, w \in Workers : Holds(w, u) <=> lock[u] = w

\* WR-01: the watermark a run computed its windows from is still the watermark
\* of the row when the run commits, whatever other workers, callbacks and
\* deletions did in between.
WatermarkNotStale ==
    \A w \in Workers :
        LET r == run[w] IN
        r.pc \in {"client", "fetching"} /\ r.user \in users =>
            r.start = WindowsStart(lastSynced[r.user], r.startedAt)

\* INGEST-03, INGEST-05: no gap.  Every transaction of the connected account
\* executed since coverage began and published by the vendor's deadline before
\* the watermark is in broker_transactions: a watermark that passes a
\* transaction has landed it, although the watermark may move backwards, runs
\* fail half way, and the account may be re-authorised while a run is going on.
NothingMissed ==
    \A u \in users :
        floor[u] # None =>
            \A a \in Activities :
                /\ AccountOf[a] = account[u]
                /\ floor[u] <= execAt[a]
                /\ execAt[a] + PostDelay < lastSynced[u]
                => a \in broker[u]

\* D6-02: fills are exactly what extraction finds in the broker's own copy, so
\* the one can be rebuilt from the other; no window lands half.
FillsMatchBroker ==
    \A u \in Users : fills[u] = UNION {FillsOf[a] : a \in broker[u]}

Succeeded(u) == {i \in 1..Len(syncRuns[u]) : syncRuns[u][i].status = "succeeded"}

\* INGEST-06, NN-5: the landed counts of the succeeded runs add up to the rows
\* of the table, each row counted by one run, across overlapping windows.
RunsAccountForRows ==
    \A u \in Users :
        /\ broker[u] = UNION {syncRuns[u][i].brokerLanded : i \in Succeeded(u)}
        /\ \A i, j \in Succeeded(u) :
              i # j => syncRuns[u][i].brokerLanded
                         \cap syncRuns[u][j].brokerLanded = {}

\* sync_user_task: last_synced_at is the start of a run that is on record as
\* succeeded; a failed or lost run never moves it.
WatermarkHasRun ==
    \A u \in Users : lastSynced[u] # None =>
        \E i \in Succeeded(u) : syncRuns[u][i].startedAt = lastSynced[u]

\* AUTH-06: after DELETE /me commits nothing of the user comes back, whatever a
\* run that was under way when the account was deleted still does.
DeletedStaysDeleted ==
    \A u \in Users \ users :
        /\ account[u] = None /\ lastSynced[u] = None
        /\ broker[u] = {} /\ fills[u] = {} /\ syncRuns[u] = <<>>

\* D6-02: ingest only ever adds; rows leave with the account and no other way.
LedgerGrows ==
    [][\A u \in Users : u \in users' =>
          broker[u] \subseteq broker'[u] /\ fills[u] \subseteq fills'[u]]_vars

\* INGEST-05: the first successful sync of a user covers the full lookback before
\* its own start, unless the account was replaced while it was going on.
BackfillOnConnect ==
    [][\A u \in Users : lastSynced[u] = None /\ floor'[u] # None =>
          floor'[u] = lastSynced'[u] - Lookback]_vars

\* The abstract specification: hiding jobs, workers, locks, run records and what
\* the vendor has published, every run's commit is one instantaneous sync.
Ledger == INSTANCE SyncedLedger
ImplementsLedger == Ledger!Spec

\* No run waits for ever: every taken job ends, also the one that waits for the
\* user's lock behind other runs of the same user.
RunsEnd == \A w \in Workers : run[w].pc # "idle" ~> run[w].pc = "idle"
================================================================================
