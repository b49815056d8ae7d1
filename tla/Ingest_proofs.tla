----------------------------- MODULE Ingest_proofs ------------------------------
(***************************************************************************)
(* Proofs about the ingest path, for any number of users, workers,         *)
(* accounts and transactions and any settings.                             *)
(***************************************************************************)
EXTENDS Ingest, TLAPS

--------------------------------------------------------------------------------
(* Type correctness.                                                       *)

\* A database without connections and idle workers are well typed.
LEMMA InitTypeOK == Init => TypeOK
<1> SUFFICES ASSUME Init PROVE TypeOK
    OBVIOUS
<1>1. IdleRun \in Run
    BY DEF IdleRun, Run, PCs, InTransaction
<1>2. run \in [Workers -> Run]
    BY <1>1 DEF Init
<1>3. execAt \in [Activities -> Int]
    BY IngestAssumption DEF Init
<1>4. syncRuns \in [Users -> Seq(SyncRun)] /\ queue \in Seq(Job)
    BY DEF Init
<1> QED BY <1>2, <1>3, <1>4 DEF Init, TypeOK

\* What the steps of a worker make of its own record is a record again.
LEMMA RunTypes ==
    /\ IdleRun \in Run
    /\ \A exc : ClassifySyncError(exc) \in SyncErrors
    /\ \A r \in Run, pc \in PCs : [r EXCEPT !.pc = pc] \in Run
BY IngestAssumption, SettingsAssumption
DEF IdleRun, Run, PCs, InTransaction, ClassifySyncError, SyncErrors

\* sync_runs stays a table of sync_runs rows.
LEMMA RunsTableType ==
    ASSUME TypeOK, NEW u, NEW row \in SyncRun
    PROVE  RunsTableAfter(u, row) \in [Users -> Seq(SyncRun)]
BY DEF TypeOK, RunsTableAfter

\* A worker that has a job has the job's user.
HasUser == \A w \in Workers : run[w].pc # "idle" => run[w].user \in Users

\* Every step writes values of the columns' types.
LEMMA NextTypeOK == TypeOK /\ HasUser /\ [Next]_vars => TypeOK'
<1> SUFFICES ASSUME TypeOK, HasUser, [Next]_vars PROVE TypeOK'
    OBVIOUS
<1> USE DEF TypeOK
<1>1. CASE Tick
    BY <1>1 DEF Tick, vendor, tables, jobs
<1>2. ASSUME NEW a \in Activities, Post(a) PROVE TypeOK'
    BY <1>2 DEF Post, tables, jobs
<1>3. ASSUME NEW u \in Users, NEW acct \in Accounts, Callback(u, acct) PROVE TypeOK'
    BY <1>3 DEF Callback, vendor, jobs
<1>4. ASSUME NEW u \in Users, ManualSync(u) PROVE TypeOK'
    BY <1>4 DEF ManualSync, vendor, tables, Job
<1>5. ASSUME NEW u \in Users, DeleteAccount(u) PROVE TypeOK'
    BY <1>5 DEF DeleteAccount, vendor, jobs
<1>6. ASSUME NEW u \in Users, FanOutDefer(u) PROVE TypeOK'
    BY <1>6 DEF FanOutDefer, vendor, tables, Job
<1>7. CASE FanOutRead
    BY <1>7 DEF FanOutRead, vendor, tables
<1>8. CASE FanOutAbort
    BY <1>8 DEF FanOutAbort, vendor, tables
<1>9. ASSUME NEW w \in Workers, WorkerStep(w) \/ Abort(w) PROVE TypeOK'
    <2> DEFINE r == run[w]
    <2>0. r \in Run /\ IdleRun \in Run
        BY RunTypes
    <2>1. CASE StartJob(w)
        <3>1. Head(queue) \in Job /\ Tail(queue) \in Seq(Job)
            BY <2>1 DEF StartJob
        <3>2. [IdleRun EXCEPT !.pc = "waiting", !.user = Head(queue).user,
                              !.startedAt = clock] \in Run
            <4>1. Head(queue).user \in Users /\ clock \in Int
                BY <3>1 DEF Job
            <4>2. "waiting" \in PCs
                BY DEF PCs
            <4> QED BY <4>1, <4>2, <2>0 DEF Run
        <3>3. run' \in [Workers -> Run]
            BY <2>1, <3>2 DEF StartJob
        <3> QED BY <2>1, <3>1, <3>3 DEF StartJob, vendor, tables
    <2>2. CASE AcquireLock(w)
        <3>1. [r EXCEPT !.pc = "locked"] \in Run
            BY <2>0, RunTypes DEF PCs, InTransaction
        <3>2. run' \in [Workers -> Run]
            BY <2>2, <3>1 DEF AcquireLock
        <3>3. lock' \in [Users -> Workers \cup {None}]
            BY <2>2 DEF AcquireLock
        <3> QED BY <2>2, <3>2, <3>3 DEF AcquireLock, vendor, tables, jobs
    <2>3. CASE ReadConnection(w)
        <3> DEFINE start == WindowsStart(lastSynced[r.user], r.startedAt)
        <3>1. r.user \in Users
            BY <2>3 DEF HasUser, ReadConnection
        <3>2. start \in Int
            BY <2>0, <3>1, SettingsAssumption DEF Run, WindowsStart
        <3>3. account[r.user] \in Accounts \cup {None}
            BY <3>1
        <3>4. [r EXCEPT !.pc = "client", !.account = account[r.user],
                        !.start = start, !.cursor = start] \in Run
            BY <2>0, <3>2, <3>3 DEF Run, PCs, InTransaction
        <3>5. run' \in [Workers -> Run]
            BY <2>3, <3>4 DEF ReadConnection
        <3> QED BY <2>3, <3>5 DEF ReadConnection, vendor, tables, jobs
    <2>4. CASE OpenClient(w)
        BY <2>4, <2>0, RunTypes DEF OpenClient, vendor, tables, jobs, PCs, InTransaction
    <2>5. ASSUME NEW exc, Raise(w, exc)
          PROVE  TypeOK'
        BY <2>5, <2>0, RunTypes DEF Raise, vendor, tables, jobs, Run, PCs
    <2>6. CASE NoConnection(w)
        BY <2>5, <2>6 DEF NoConnection
    <2>7. CASE FetchForDeletedUser(w)
        BY <2>5, <2>7 DEF FetchForDeletedUser
    <2>8. ASSUME NEW fault \in VendorFaults, VendorError(w, fault) PROVE TypeOK'
        BY <2>5, <2>8 DEF VendorError
    <2>9. CASE FetchWindow(w)
        <3>1. WindowEnd(r.cursor, r.startedAt) \in Int
            BY <2>0, SettingsAssumption DEF Run, WindowEnd
        <3>2. PICK answer \in Answers(r.account, r.cursor, WindowEnd(r.cursor, r.startedAt)) :
                run' = [run EXCEPT ![w] =
                    [r EXCEPT !.cursor = WindowEnd(r.cursor, r.startedAt),
                              !.broker = InsertBroker(r, answer),
                              !.fills = InsertFills(r, answer)]]
            BY <2>9 DEF FetchWindow
        <3>3. answer \subseteq Activities
            BY DEF Answers
        <3>4. InsertBroker(r, answer) \subseteq Activities
            BY <2>0, <3>3 DEF InsertBroker, Run
        <3>5. InsertFills(r, answer) \subseteq Fills
            BY <2>0, <3>3, IngestAssumption DEF InsertFills, ExtractFills, Run
        <3>6. [r EXCEPT !.cursor = WindowEnd(r.cursor, r.startedAt),
                        !.broker = InsertBroker(r, answer),
                        !.fills = InsertFills(r, answer)] \in Run
            BY <2>0, <3>1, <3>4, <3>5 DEF Run
        <3>7. run' \in [Workers -> Run]
            BY <3>2, <3>6
        <3> QED BY <2>9, <3>7 DEF FetchWindow, vendor, tables, jobs
    <2>10. CASE RecordFailure(w)
        <3> DEFINE row == [startedAt |-> r.startedAt, status |-> "failed",
                           brokerLanded |-> None, fillsLanded |-> None, error |-> r.error]
        <3>0. /\ r.startedAt \in Int /\ r.error \in SyncErrors \cup {None}
              /\ None \in (SUBSET Activities) \cup {None}
              /\ None \in (SUBSET Fills) \cup {None}
            BY <2>0 DEF Run
        <3>1. row \in SyncRun
            BY <3>0 DEF SyncRun
        <3>2. RunsTableAfter(r.user, row) \in [Users -> Seq(SyncRun)]
            BY <3>1, RunsTableType
        <3> HIDE DEF row
        <3>3. syncRuns' = RunsTableAfter(r.user, row)
            BY <2>10 DEF RecordFailure, row
        <3> QED BY <2>10, <2>0, <3>2, <3>3 DEF RecordFailure, vendor, jobs
    <2>11. CASE CommitRun(w)
        <3> DEFINE row == [startedAt |-> r.startedAt, status |-> "succeeded",
                           brokerLanded |-> r.broker, fillsLanded |-> r.fills,
                           error |-> None]
        <3>1. row \in SyncRun
            BY <2>0 DEF Run, SyncRun
        <3>2. RunsTableAfter(r.user, row) \in [Users -> Seq(SyncRun)]
            BY <3>1, RunsTableType
        <3> HIDE DEF row
        <3>3. syncRuns' = RunsTableAfter(r.user, row)
            BY <2>11 DEF CommitRun, row
        <3>4. /\ r.broker \subseteq Activities /\ r.fills \subseteq Fills
              /\ r.startedAt \in Int /\ r.start \in Int
            BY <2>0 DEF Run
        <3>5. /\ lastSynced' \in [Users -> Int \cup {None}]
              /\ floor' \in [Users -> Int \cup {None}]
            BY <2>11, <3>4 DEF CommitRun, Watermark
        <3>6. /\ broker' \in [Users -> SUBSET Activities]
              /\ fills' \in [Users -> SUBSET Fills]
            BY <2>11, <3>4 DEF CommitRun
        <3>7. /\ lock' \in [Users -> Workers \cup {None}]
              /\ run' \in [Workers -> Run]
            BY <2>11, <2>0 DEF CommitRun
        <3> QED BY <2>11, <3>2, <3>3, <3>5, <3>6, <3>7 DEF CommitRun, vendor, jobs
    <2>12. CASE CommitRefused(w)
        BY <2>12, <2>0 DEF CommitRefused, vendor, tables, jobs
    <2>13. CASE Abort(w)
        BY <2>13, <2>0 DEF Abort, vendor, tables, jobs
    <2> QED BY <1>9, <2>1, <2>2, <2>3, <2>4, <2>6, <2>7, <2>8, <2>9, <2>10, <2>11,
               <2>12, <2>13 DEF WorkerStep
<1>10. CASE UNCHANGED vars
    BY <1>10 DEF vars, vendor, tables, jobs
<1> QED BY <1>1, <1>2, <1>3, <1>4, <1>5, <1>6, <1>7, <1>8, <1>9, <1>10 DEF Next

\* A step of a worker leaves the local state of the others alone.
LEMMA OthersKept ==
    ASSUME TypeOK, NEW w \in Workers, WorkerStep(w) \/ Abort(w),
           NEW v \in Workers, v # w
    PROVE  run'[v] = run[v]
<1>1. run \in [Workers -> Run]
    BY DEF TypeOK
<1> QED
    BY <1>1 DEF WorkerStep, StartJob, AcquireLock, ReadConnection, OpenClient,
        NoConnection, FetchWindow, FetchForDeletedUser, VendorError, Raise,
        RecordFailure, CommitRun, CommitRefused, Abort

\* A step of a worker that goes on with its job keeps the job's user and start.
LEMMA JobKept ==
    ASSUME TypeOK, NEW w \in Workers, WorkerStep(w) \/ Abort(w), ~StartJob(w)
    PROVE  \/ run'[w].pc = "idle"
           \/ /\ run[w].pc # "idle"
              /\ run'[w].user = run[w].user
              /\ run'[w].startedAt = run[w].startedAt
<1>1. run \in [Workers -> Run] /\ run[w] \in Run
    BY DEF TypeOK
<1> DEFINE Kept == /\ run[w].pc # "idle"
                   /\ run'[w].user = run[w].user
                   /\ run'[w].startedAt = run[w].startedAt
<1>2. ASSUME NEW exc, Raise(w, exc), run[w].pc # "idle"
      PROVE  Kept
    BY <1>1, <1>2 DEF Raise, Run
<1>3. CASE NoConnection(w) \/ FetchForDeletedUser(w)
    BY <1>2, <1>3 DEF NoConnection, FetchForDeletedUser
<1>4. CASE \E fault \in VendorFaults : VendorError(w, fault)
    BY <1>2, <1>4 DEF VendorError
<1>5. CASE AcquireLock(w)
    BY <1>1, <1>5 DEF AcquireLock, Run
<1>6. CASE ReadConnection(w)
    BY <1>1, <1>6 DEF ReadConnection, Run
<1>7. CASE OpenClient(w)
    BY <1>1, <1>7 DEF OpenClient, Run
<1>8. CASE FetchWindow(w)
    BY <1>1, <1>8 DEF FetchWindow, Run
<1>9. CASE RecordFailure(w) \/ CommitRun(w) \/ CommitRefused(w) \/ Abort(w)
    BY <1>1, <1>9 DEF RecordFailure, CommitRun, CommitRefused, Abort, IdleRun
<1> QED BY <1>3, <1>4, <1>5, <1>6, <1>7, <1>8, <1>9 DEF WorkerStep

\* A worker takes a job of some user, at the time the clock shows.
LEMMA JobTaken ==
    ASSUME TypeOK, NEW w \in Workers, StartJob(w)
    PROVE  /\ run'[w].pc = "waiting"
           /\ run'[w].user \in Users
           /\ run'[w].startedAt = clock
<1>1. Head(queue) \in Job
    BY DEF StartJob, TypeOK
<1>2. run \in [Workers -> Run]
    BY DEF TypeOK
<1> QED BY <1>1, <1>2 DEF StartJob, Job, IdleRun

\* Every other step leaves the workers alone.
LEMMA StepsOfOthers ==
    ASSUME [Next]_vars
    PROVE  \/ \E w \in Workers : WorkerStep(w) \/ Abort(w)
           \/ UNCHANGED <<run, lock>>
BY DEF Next, vars, Tick, Post, Callback, ManualSync, DeleteAccount, FanOutDefer,
    FanOutRead, FanOutAbort

\* A worker gets its user with the job and keeps it until the job ends.
LEMMA NextHasUser == TypeOK /\ HasUser /\ [Next]_vars => HasUser'
<1> SUFFICES ASSUME TypeOK, HasUser, [Next]_vars, NEW v \in Workers, run'[v].pc # "idle"
             PROVE  run'[v].user \in Users
    BY DEF HasUser
<1>1. CASE UNCHANGED run
    BY <1>1 DEF HasUser
<1>2. ASSUME NEW w \in Workers, WorkerStep(w) \/ Abort(w) PROVE run'[v].user \in Users
    <2>1. CASE v # w
        BY <1>2, <2>1, OthersKept DEF HasUser
    <2>2. CASE v = w /\ StartJob(w)
        BY <2>2, JobTaken
    <2>3. CASE v = w /\ ~StartJob(w)
        BY <1>2, <2>3, JobKept DEF HasUser
    <2> QED BY <2>1, <2>2, <2>3
<1> QED BY <1>1, <1>2, StepsOfOthers

\* Every variable of the ingest path stays in its domain.
THEOREM SpecTypeOK == Spec => [](TypeOK /\ HasUser)
<1>1. Init => TypeOK /\ HasUser
    <2>1. Init => HasUser
        BY DEF Init, HasUser, IdleRun
    <2> QED BY <2>1, InitTypeOK
<1>2. TypeOK /\ HasUser /\ [Next]_vars => (TypeOK /\ HasUser)'
    BY NextTypeOK, NextHasUser
<1> QED BY <1>1, <1>2, PTL DEF Spec

--------------------------------------------------------------------------------
(* The advisory lock.                                                      *)

\* What a step of a worker does to the lock: it takes the user's free lock on
\* entering its transaction, keeps it inside, and frees it on leaving.
LEMMA LockEffect ==
    ASSUME TypeOK, HasUser, NEW w \in Workers, WorkerStep(w) \/ Abort(w)
    PROVE  LET u == run[w].user IN
           \/ /\ u \in Users /\ lock[u] = None
              /\ run[w].pc = "waiting" /\ run'[w].pc = "locked" /\ run'[w].user = u
              /\ lock' = [lock EXCEPT ![u] = w]
           \/ /\ run[w].pc \in InTransaction /\ run'[w].pc \in InTransaction
              /\ run'[w].user = u /\ lock' = lock
           \/ /\ run[w].pc \in InTransaction /\ run'[w].pc \notin InTransaction
              /\ u \in Users /\ lock' = [lock EXCEPT ![u] = None]
           \/ /\ run[w].pc \notin InTransaction /\ run'[w].pc \notin InTransaction
              /\ lock' = lock
<1>1. run \in [Workers -> Run] /\ run[w] \in Run
    BY DEF TypeOK
<1>2. run[w].pc # "idle" => run[w].user \in Users
    BY DEF HasUser
<1> USE DEF InTransaction
<1>3. CASE StartJob(w)
    BY <1>1, <1>3, JobTaken DEF StartJob
<1>4. CASE AcquireLock(w)
    BY <1>1, <1>2, <1>4 DEF AcquireLock, Run
<1>5. CASE ReadConnection(w) \/ OpenClient(w)
    <2>1. run'[w].user = run[w].user
        BY <1>1, <1>5 DEF ReadConnection, OpenClient, Run
    <2>2. run'[w].pc \in {"client", "fetching"}
        BY <1>1, <1>5 DEF ReadConnection, OpenClient, Run
    <2>3. run[w].pc \in {"locked", "client"} /\ lock' = lock
        BY <1>5 DEF ReadConnection, OpenClient
    <2> QED BY <2>1, <2>2, <2>3
<1>6. CASE FetchWindow(w)
    BY <1>1, <1>6 DEF FetchWindow, Run
<1>7. ASSUME NEW exc, Raise(w, exc), run[w].pc \in InTransaction
      PROVE  /\ run'[w].pc \notin InTransaction
             /\ lock' = [lock EXCEPT ![run[w].user] = None]
    BY <1>1, <1>7 DEF Raise, Run
<1>8. CASE NoConnection(w) \/ FetchForDeletedUser(w)
    BY <1>2, <1>7, <1>8 DEF NoConnection, FetchForDeletedUser
<1>9. CASE \E fault \in VendorFaults : VendorError(w, fault)
    BY <1>2, <1>7, <1>9 DEF VendorError
<1>10. CASE RecordFailure(w)
    BY <1>1, <1>10 DEF RecordFailure, IdleRun
<1>11. CASE CommitRun(w) \/ CommitRefused(w)
    BY <1>1, <1>2, <1>11 DEF CommitRun, CommitRefused, IdleRun
<1>12. CASE Abort(w)
    BY <1>1, <1>2, <1>12 DEF Abort, IdleRun
<1> QED BY <1>3, <1>4, <1>5, <1>6, <1>8, <1>9, <1>10, <1>11, <1>12 DEF WorkerStep

\* The lock is taken on entering sync_user's transaction and freed with its end.
LEMMA NextLockProtects ==
    TypeOK /\ HasUser /\ LockProtects /\ [Next]_vars => LockProtects'
<1> SUFFICES ASSUME TypeOK, HasUser, LockProtects, [Next]_vars,
                    NEW x \in Users, NEW v \in Workers
             PROVE  Holds(v, x)' <=> lock'[x] = v
    BY DEF LockProtects
<1>1. lock \in [Users -> Workers \cup {None}] /\ None \notin Workers
    BY IngestAssumption DEF TypeOK
<1>2. Holds(v, x) <=> lock[x] = v
    BY DEF LockProtects
<1>3. CASE UNCHANGED <<run, lock>>
    BY <1>2, <1>3 DEF Holds
<1>4. ASSUME NEW w \in Workers, WorkerStep(w) \/ Abort(w)
      PROVE  Holds(v, x)' <=> lock'[x] = v
    <2>1. Holds(w, x) <=> lock[x] = w
        BY DEF LockProtects
    <2>2. v # w => run'[v] = run[v]
        BY <1>4, OthersKept
    <2>3. run[w].pc \in InTransaction /\ run[w].user \in Users => lock[run[w].user] = w
        BY DEF LockProtects, Holds
    <2>4. "waiting" \notin InTransaction /\ "locked" \in InTransaction
        BY DEF InTransaction
    <2> QED BY <1>1, <1>2, <1>4, <2>1, <2>2, <2>3, <2>4, LockEffect DEF Holds
<1> QED BY <1>3, <1>4, StepsOfOthers

\* CONN-06, WR-01: with any number of workers, users and jobs, the transactions of
\* two runs of one user never overlap.
THEOREM SpecLockProtects == Spec => []LockProtects
<1>1. Init => LockProtects
    <2> SUFFICES ASSUME Init PROVE LockProtects
        OBVIOUS
    <2>1. \A w \in Workers : run[w].pc = "idle"
        BY DEF Init, IdleRun
    <2>2. \A u \in Users, w \in Workers : lock[u] # w
        BY IngestAssumption DEF Init
    <2> QED BY <2>1, <2>2 DEF LockProtects, Holds, InTransaction
<1> QED BY <1>1, SpecTypeOK, NextLockProtects, PTL DEF Spec

--------------------------------------------------------------------------------
(* No gap below the watermark.  NothingMissed speaks of committed state    *)
(* only; what makes it inductive is what a run under way has computed and  *)
(* fetched so far.                                                         *)

\* A run that has read its connection, of a user who still exists.
Busy(w) == run[w].pc \in {"client", "fetching"} /\ run[w].user \in users

\* The vendor has published what it is late with.
Settled == \A a \in Activities : execAt[a] + PostDelay < clock => a \in posted

\* A run's started_at is past, and so is the watermark it leaves.
StartedPast ==
    \A w \in Workers : run[w].pc # "idle" => 0 <= run[w].startedAt /\ run[w].startedAt <= clock

\* Coverage only begins with a watermark.
FloorSynced == \A u \in Users : floor[u] # None => lastSynced[u] # None

\* A run fetches the account of the row, or an account the row has left; in that
\* case coverage has not begun again.
AccountHeld(w) ==
    LET r == run[w] IN
    /\ r.account \in Accounts
    /\ account[r.user] # None
    /\ r.account = account[r.user] \/ floor[r.user] = None

\* The run's windows start at the watermark that is still in the row.
StartHeld(w) ==
    LET r == run[w] IN
    r.start = WindowsStart(lastSynced[r.user], r.startedAt) /\ r.start <= r.cursor

\* Below the cursor the run has landed what was certain to be published.
Covered(w) ==
    LET r == run[w] IN
    \A a \in Activities :
        /\ AccountOf[a] = r.account
        /\ r.start <= execAt[a]
        /\ execAt[a] < r.cursor
        /\ execAt[a] + PostDelay < r.startedAt
        => a \in broker[r.user] \cup r.broker

\* It has landed nothing outside its range or of another account.
InRange(w) ==
    LET r == run[w] IN
    \A a \in r.broker :
        AccountOf[a] = r.account /\ r.start <= execAt[a] /\ execAt[a] <= r.startedAt

\* The fills it adds are those of the transactions it adds.
FillsFollow(w) ==
    LET r == run[w] IN
    fills[r.user] \cup r.fills
      = UNION {FillsOf[a] : a \in broker[r.user] \cup r.broker}

\* Before it fetches, a run has landed nothing.
Unfetched ==
    \A w \in Workers : run[w].pc \notin {"client", "fetching"} =>
        run[w].broker = {} /\ run[w].fills = {}

RunInv(w) ==
    Busy(w) => AccountHeld(w) /\ StartHeld(w) /\ Covered(w) /\ InRange(w) /\ FillsFollow(w)

Base == TypeOK /\ HasUser /\ LockProtects

IInv ==
    /\ Base
    /\ Settled
    /\ StartedPast
    /\ FloorSynced
    /\ Unfetched
    /\ \A w \in Workers : RunInv(w)
    /\ NothingMissed
    /\ FillsMatchBroker
    /\ DeletedStaysDeleted

\* The steps that move the clock or the vendor.
LEMMA VendorEffect ==
    ASSUME [Next]_vars
    PROVE  Tick \/ (\E a \in Activities : Post(a)) \/ UNCHANGED <<clock, execAt, posted>>
BY ZenonT(60) DEF Next, vars, vendor, WorkerStep, StartJob, AcquireLock, ReadConnection,
    OpenClient, NoConnection, FetchWindow, FetchForDeletedUser, VendorError, Raise,
    RecordFailure, CommitRun, CommitRefused, Abort, Callback, ManualSync,
    DeleteAccount, FanOutDefer, FanOutRead, FanOutAbort

\* Time does not go back, and executions do not change their time.
LEMMA ClockGrows ==
    ASSUME TypeOK, [Next]_vars
    PROVE  clock <= clock' /\ clock' \in Nat /\ execAt' = execAt
<1>1. clock \in Nat
    BY DEF TypeOK
<1> QED BY <1>1, VendorEffect DEF Tick, Post, vendor

\* The vendor publishes within PostDelay, so what is older is published.
LEMMA NextSettled == TypeOK /\ Settled /\ [Next]_vars => Settled'
<1> SUFFICES ASSUME TypeOK, Settled, [Next]_vars, NEW a \in Activities,
                    execAt'[a] + PostDelay < clock'
             PROVE  a \in posted'
    BY DEF Settled
<1>1. clock \in Nat /\ execAt[a] \in Int /\ PostDelay \in Nat
    BY IngestAssumption DEF TypeOK
<1>2. CASE Tick
    BY <1>1, <1>2 DEF Tick, vendor
<1>3. CASE \E b \in Activities : Post(b)
    BY <1>3 DEF Post, Settled
<1>4. CASE UNCHANGED <<clock, execAt, posted>>
    BY <1>4 DEF Settled
<1> QED BY <1>2, <1>3, <1>4, VendorEffect

\* A job's started_at stays in the past.
LEMMA NextStartedPast == TypeOK /\ StartedPast /\ [Next]_vars => StartedPast'
<1> SUFFICES ASSUME TypeOK, StartedPast, [Next]_vars, NEW v \in Workers,
                    run'[v].pc # "idle"
             PROVE  0 <= run'[v].startedAt /\ run'[v].startedAt <= clock'
    BY DEF StartedPast
<1>1. clock \in Nat /\ clock' \in Nat /\ clock <= clock'
    BY ClockGrows DEF TypeOK
<1>2. run[v] \in Run /\ run[v].startedAt \in Int
    BY DEF TypeOK, Run
<1>3. CASE UNCHANGED <<run, lock>>
    BY <1>1, <1>2, <1>3 DEF StartedPast
<1>4. ASSUME NEW w \in Workers, WorkerStep(w) \/ Abort(w)
      PROVE  0 <= run'[v].startedAt /\ run'[v].startedAt <= clock'
    <2>1. CASE v # w
        BY <1>1, <1>2, <1>4, <2>1, OthersKept DEF StartedPast
    <2>2. CASE v = w /\ StartJob(w)
        BY <1>1, <2>2, JobTaken
    <2>3. CASE v = w /\ ~StartJob(w)
        BY <1>1, <1>2, <1>4, <2>3, JobKept DEF StartedPast
    <2> QED BY <2>1, <2>2, <2>3
<1> QED BY <1>3, <1>4, StepsOfOthers

\* The steps that touch the ledger.
LEMMA TableEffect ==
    ASSUME [Next]_vars
    PROVE  \/ \E u \in Users, acct \in Accounts : Callback(u, acct)
           \/ \E u \in Users : DeleteAccount(u)
           \/ \E w \in Workers : CommitRun(w)
           \/ UNCHANGED <<users, account, lastSynced, broker, fills, floor>>
BY ZenonT(60) DEF Next, vars, tables, Tick, Post, WorkerStep, StartJob, AcquireLock,
    ReadConnection, OpenClient, NoConnection, FetchWindow, FetchForDeletedUser,
    VendorError, Raise, RecordFailure, CommitRefused, Abort, ManualSync,
    FanOutDefer, FanOutRead, FanOutAbort

\* What a commit leaves behind, and that no other run of the user is under way.
LEMMA CommitEffect ==
    ASSUME Base, NEW w \in Workers, CommitRun(w)
    PROVE  LET r == run[w]  u == run[w].user IN
           /\ u \in Users /\ u \in users /\ Busy(w) /\ r \in Run
           /\ ~(r.cursor < r.startedAt)
           /\ users' = users /\ account' = account
           /\ lastSynced' = [lastSynced EXCEPT ![u] = r.startedAt]
           /\ broker' = [broker EXCEPT ![u] = broker[u] \cup r.broker]
           /\ fills' = [fills EXCEPT ![u] = fills[u] \cup r.fills]
           /\ floor' = [floor EXCEPT ![u] =
                  IF floor[u] = None /\ account[u] = r.account
                  THEN r.start ELSE floor[u]]
           /\ run'[w].pc = "idle"
           /\ \A v \in Workers \ {w} : run'[v] = run[v] /\ (Busy(v) => run[v].user # u)
<1> DEFINE r == run[w]
           u == run[w].user
<1>1. r \in Run /\ run \in [Workers -> Run] /\ users \subseteq Users
    BY DEF Base, TypeOK
<1>2. u \in users /\ u \in Users
    BY <1>1 DEF CommitRun
<1>3. broker[u] \in SUBSET Activities /\ fills[u] \in SUBSET Fills
    BY <1>2 DEF Base, TypeOK
<1>4. Busy(w) /\ lock[u] = w
    BY <1>2 DEF CommitRun, Busy, Base, LockProtects, Holds, InTransaction
<1>5. \A v \in Workers \ {w} : Busy(v) => run[v].user # u
    BY <1>2, <1>4 DEF Busy, Base, LockProtects, Holds, InTransaction
<1>6. \A v \in Workers \ {w} : run'[v] = run[v]
    BY <1>1 DEF CommitRun
<1>7. run'[w].pc = "idle"
    BY <1>1 DEF CommitRun, IdleRun
<1>8. /\ users' = users /\ account' = account
      /\ broker' = [broker EXCEPT ![u] = broker[u] \cup r.broker]
      /\ fills' = [fills EXCEPT ![u] = fills[u] \cup r.fills]
      /\ lastSynced' = [lastSynced EXCEPT ![u] = r.startedAt]
      /\ floor' = [floor EXCEPT ![u] =
             IF floor[u] = None /\ account[u] = r.account
             THEN r.start ELSE floor[u]]
      /\ ~(r.cursor < r.startedAt)
    BY DEF CommitRun, Watermark
<1> QED BY <1>1, <1>2, <1>4, <1>5, <1>6, <1>7, <1>8

\* An account covered from some time on has been synced once.
LEMMA NextFloorSynced == Base /\ FloorSynced /\ [Next]_vars => FloorSynced'
<1> SUFFICES ASSUME Base, FloorSynced, [Next]_vars, NEW u \in Users, floor'[u] # None
             PROVE  lastSynced'[u] # None
    BY DEF FloorSynced
<1>1. /\ floor \in [Users -> Int \cup {None}] /\ lastSynced \in [Users -> Int \cup {None}]
      /\ None \notin Int
    BY SettingsAssumption DEF Base, TypeOK
<1>2. CASE UNCHANGED <<users, account, lastSynced, broker, fills, floor>>
    BY <1>2 DEF FloorSynced
<1>3. ASSUME NEW x \in Users, NEW acct \in Accounts, Callback(x, acct)
      PROVE  lastSynced'[u] # None
    BY <1>1, <1>3 DEF Callback, FloorSynced
<1>4. ASSUME NEW x \in Users, DeleteAccount(x) PROVE lastSynced'[u] # None
    BY <1>1, <1>4 DEF DeleteAccount, FloorSynced
<1>5. ASSUME NEW w \in Workers, CommitRun(w) PROVE lastSynced'[u] # None
    <2>1. run[w].startedAt \in Int
        BY <1>5, CommitEffect DEF Run
    <2> QED BY <1>1, <1>5, <2>1, CommitEffect DEF FloorSynced
<1> QED BY <1>2, <1>3, <1>4, <1>5, TableEffect

\* A run whose own state and whose user's rows are left alone keeps its invariant.
LEMMA RunInvFrame ==
    ASSUME NEW v \in Workers, RunInv(v), run'[v] = run[v], execAt' = execAt,
           LET u == run[v].user IN
           u \in users' => /\ u \in users
                           /\ account'[u] = account[u] /\ floor'[u] = floor[u]
                           /\ lastSynced'[u] = lastSynced[u]
                           /\ broker'[u] = broker[u] /\ fills'[u] = fills[u]
    PROVE  RunInv(v)'
BY DEF RunInv, Busy, AccountHeld, StartHeld, Covered, InRange, FillsFollow

\* A run that has just read its connection.
LEMMA ReadEstablishes ==
    ASSUME IInv, NEW w \in Workers, ReadConnection(w)
    PROVE  RunInv(w)'
<1> DEFINE r == run[w]
           u == run[w].user
           start == WindowsStart(lastSynced[u], r.startedAt)
<1> SUFFICES ASSUME u \in users
             PROVE  (AccountHeld(w) /\ StartHeld(w) /\ Covered(w) /\ InRange(w)
                     /\ FillsFollow(w))'
    <2>1. run \in [Workers -> Run] /\ r \in Run
        BY DEF IInv, Base, TypeOK
    <2>2. run'[w].user = u /\ users' = users
        BY <2>1 DEF ReadConnection, tables, Run
    <2> QED BY <2>2 DEF RunInv, Busy
<1>1. run \in [Workers -> Run] /\ r \in Run /\ u \in Users
    BY DEF IInv, Base, TypeOK
<1>2. /\ account[u] \in Accounts /\ lastSynced[u] \in Int \cup {None}
      /\ fills[u] = UNION {FillsOf[a] : a \in broker[u]}
    BY <1>1 DEF IInv, Base, TypeOK, ReadConnection, FillsMatchBroker
<1>3. start \in Int
    BY <1>1, <1>2, SettingsAssumption DEF WindowsStart, Run
<1>4. r.broker = {} /\ r.fills = {}
    BY DEF IInv, ReadConnection, Unfetched
<1>5. run'[w] = [r EXCEPT !.pc = "client", !.account = account[u],
                          !.start = start, !.cursor = start]
    BY <1>1 DEF ReadConnection
<1> HIDE DEF start
<1>6. /\ run'[w].user = u /\ run'[w].account = account[u]
      /\ run'[w].start = start /\ run'[w].cursor = start
      /\ run'[w].startedAt = r.startedAt /\ run'[w].broker = {} /\ run'[w].fills = {}
    BY <1>1, <1>4, <1>5 DEF Run
<1>7. /\ execAt' = execAt /\ account' = account /\ lastSynced' = lastSynced
      /\ broker' = broker /\ fills' = fills /\ floor' = floor
    BY DEF ReadConnection, vendor, tables
<1>8. execAt \in [Activities -> Int]
    BY DEF IInv, Base, TypeOK
<1>9. AccountHeld(w)'
    BY <1>2, <1>6, <1>7, SettingsAssumption DEF AccountHeld, ReadConnection
<1>10. StartHeld(w)'
    BY <1>3, <1>6, <1>7 DEF StartHeld, start
<1>11. Covered(w)'
    BY <1>3, <1>6, <1>7, <1>8 DEF Covered
<1>12. InRange(w)'
    BY <1>6 DEF InRange
<1>13. FillsFollow(w)'
    BY <1>2, <1>6, <1>7 DEF FillsFollow
<1> QED BY <1>9, <1>10, <1>11, <1>12, <1>13

\* One iteration of the window loop extends what is covered to the window's end.
LEMMA FetchExtends ==
    ASSUME IInv, NEW w \in Workers, FetchWindow(w)
    PROVE  RunInv(w)'
<1> DEFINE r == run[w]
           u == run[w].user
           to == WindowEnd(r.cursor, r.startedAt)
<1>0. run \in [Workers -> Run] /\ r \in Run /\ users' = users
    BY DEF IInv, Base, TypeOK, FetchWindow, tables
<1> SUFFICES ASSUME u \in users
             PROVE  (AccountHeld(w) /\ StartHeld(w) /\ Covered(w) /\ InRange(w)
                     /\ FillsFollow(w))'
    <2>1. run'[w].user = u
        BY <1>0 DEF FetchWindow, Run
    <2> QED BY <1>0, <2>1 DEF RunInv, Busy
<1>1. /\ AccountHeld(w) /\ StartHeld(w) /\ Covered(w) /\ InRange(w) /\ FillsFollow(w)
    BY DEF IInv, RunInv, Busy, FetchWindow
<1>2. /\ r.cursor \in Int /\ r.startedAt \in Int /\ r.start \in Int
      /\ r.cursor < r.startedAt /\ r.startedAt <= clock /\ clock \in Nat
    BY <1>0 DEF IInv, Base, TypeOK, Run, FetchWindow, StartedPast
<1>3. to \in Int /\ r.cursor < to /\ to <= r.startedAt
    BY <1>2, SettingsAssumption DEF WindowEnd
<1>4. PICK answer \in Answers(r.account, r.cursor, to) :
        run' = [run EXCEPT ![w] =
            [r EXCEPT !.cursor = to,
                      !.broker = InsertBroker(r, answer),
                      !.fills = InsertFills(r, answer)]]
    BY DEF FetchWindow
<1> HIDE DEF to
<1>5. /\ run'[w].user = u /\ run'[w].account = r.account
      /\ run'[w].start = r.start /\ run'[w].cursor = to
      /\ run'[w].startedAt = r.startedAt
      /\ run'[w].broker = InsertBroker(r, answer)
      /\ run'[w].fills = InsertFills(r, answer)
    BY <1>0, <1>4 DEF Run
<1>6. /\ execAt' = execAt /\ account' = account /\ lastSynced' = lastSynced
      /\ broker' = broker /\ fills' = fills /\ floor' = floor
    BY DEF FetchWindow, vendor, tables
<1>7. execAt \in [Activities -> Int] /\ posted \subseteq Activities /\ PostDelay \in Nat
    BY IngestAssumption DEF IInv, Base, TypeOK
<1>8. /\ \A a \in answer : /\ a \in Activities /\ AccountOf[a] = r.account
                           /\ r.cursor <= execAt[a] /\ execAt[a] <= to
      /\ \A a \in posted : AccountOf[a] = r.account /\ r.cursor <= execAt[a]
                             /\ execAt[a] < to => a \in answer
    BY <1>2, <1>3, <1>7 DEF Answers
<1>9. AccountHeld(w)'
    BY <1>1, <1>5, <1>6 DEF AccountHeld
<1>10. StartHeld(w)'
    BY <1>1, <1>2, <1>3, <1>5, <1>6 DEF StartHeld
<1>11. Covered(w)'
    <2> SUFFICES ASSUME NEW a \in Activities, AccountOf[a] = r.account,
                        r.start <= execAt[a], execAt[a] < to,
                        execAt[a] + PostDelay < r.startedAt
                 PROVE  a \in broker[u] \cup InsertBroker(r, answer)
        BY <1>5, <1>6 DEF Covered
    <2>1. CASE execAt[a] < r.cursor
        BY <1>1, <2>1 DEF Covered, InsertBroker
    <2>2. CASE ~(execAt[a] < r.cursor)
        <3>1. execAt[a] + PostDelay < clock
            BY <1>2, <1>7
        <3>2. a \in posted
            BY <3>1 DEF IInv, Settled
        <3>3. a \in answer
            BY <1>2, <1>7, <1>8, <2>2, <3>2
        <3> QED BY <3>3 DEF InsertBroker
    <2> QED BY <2>1, <2>2
<1>12. InRange(w)'
    <2> SUFFICES ASSUME NEW a \in InsertBroker(r, answer)
                 PROVE  AccountOf[a] = r.account /\ r.start <= execAt[a]
                          /\ execAt[a] <= r.startedAt
        BY <1>5, <1>6 DEF InRange
    <2>1. CASE a \in r.broker
        BY <1>1, <2>1 DEF InRange
    <2>2. CASE a \in answer
        BY <1>1, <1>2, <1>3, <1>7, <1>8, <2>2 DEF StartHeld
    <2> QED BY <2>1, <2>2 DEF InsertBroker
<1>13. FillsFollow(w)'
    <2> DEFINE F(S) == UNION {FillsOf[a] : a \in S}
    <2>1. fills[u] \cup r.fills = F(broker[u] \cup r.broker)
        BY <1>1 DEF FillsFollow
    <2>2. fills[u] \cup InsertFills(r, answer) = (fills[u] \cup r.fills) \cup F(answer)
        BY DEF InsertFills, ExtractFills
    <2>3. broker[u] \cup InsertBroker(r, answer) = (broker[u] \cup r.broker) \cup answer
        BY DEF InsertBroker
    <2>4. \A S, T : F(S \cup T) = F(S) \cup F(T)
        OBVIOUS
    <2>5. fills[u] \cup InsertFills(r, answer) = F(broker[u] \cup InsertBroker(r, answer))
        BY <2>1, <2>2, <2>3, <2>4
    <2> QED BY <1>5, <1>6, <2>5 DEF FillsFollow
<1> QED BY <1>9, <1>10, <1>11, <1>12, <1>13

\* A run holds no uncommitted rows before its first window and after its end.
LEMMA NextUnfetched == TypeOK /\ Unfetched /\ [Next]_vars => Unfetched'
<1> SUFFICES ASSUME TypeOK, Unfetched, [Next]_vars, NEW v \in Workers,
                    run'[v].pc \notin {"client", "fetching"}
             PROVE  run'[v].broker = {} /\ run'[v].fills = {}
    BY DEF Unfetched
<1>1. run \in [Workers -> Run]
    BY DEF TypeOK
<1>2. CASE UNCHANGED <<run, lock>>
    BY <1>2 DEF Unfetched
<1>3. ASSUME NEW w \in Workers, WorkerStep(w) \/ Abort(w)
      PROVE  run'[v].broker = {} /\ run'[v].fills = {}
    <2>0. run[w] \in Run
        BY <1>1
    <2>1. CASE v # w
        BY <1>3, <2>1, OthersKept DEF Unfetched
    <2> SUFFICES ASSUME v = w PROVE run'[w].broker = {} /\ run'[w].fills = {}
        BY <2>1
    <2>2. CASE StartJob(w)
        BY <1>1, <2>2 DEF StartJob, IdleRun
    <2>3. CASE AcquireLock(w)
        BY <1>1, <2>0, <2>3 DEF AcquireLock, Run, Unfetched
    <2>4. CASE ReadConnection(w)
        <3>1. run'[w].pc = "client"
            BY <1>1, <2>0, <2>4 DEF ReadConnection, Run
        <3> QED BY <3>1
    <2>5. CASE OpenClient(w) \/ FetchWindow(w)
        <3>1. run'[w].pc = "fetching"
            BY <1>1, <2>0, <2>5 DEF OpenClient, FetchWindow, Run
        <3> QED BY <3>1
    <2>6. ASSUME NEW exc, Raise(w, exc)
          PROVE  run'[w].broker = {} /\ run'[w].fills = {}
        BY <1>1, <2>0, <2>6 DEF Raise, Run
    <2>7. CASE NoConnection(w) \/ FetchForDeletedUser(w)
        BY <2>6, <2>7 DEF NoConnection, FetchForDeletedUser
    <2>8. CASE \E fault \in VendorFaults : VendorError(w, fault)
        BY <2>6, <2>8 DEF VendorError
    <2>9. CASE RecordFailure(w) \/ CommitRun(w) \/ CommitRefused(w) \/ Abort(w)
        BY <1>1, <2>9 DEF RecordFailure, CommitRun, CommitRefused, Abort, IdleRun
    <2> QED BY <1>3, <2>2, <2>3, <2>4, <2>5, <2>7, <2>8, <2>9 DEF WorkerStep
<1> QED BY <1>2, <1>3, StepsOfOthers

\* The step of a run keeps what its loop has covered, and no step of another
\* worker, request or scheduler takes it away.
LEMMA NextRunInv ==
    ASSUME IInv, [Next]_vars, NEW v \in Workers
    PROVE  RunInv(v)'
<1>1. RunInv(v) /\ execAt' = execAt
    BY ClockGrows DEF IInv, Base
<1>2. run \in [Workers -> Run] /\ run[v] \in Run /\ users \subseteq Users
    BY DEF IInv, Base, TypeOK
<1>3. Busy(v) => run[v].user \in Users
    BY <1>2 DEF Busy
<1>4. ASSUME NEW u \in Users, NEW acct \in Accounts, Callback(u, acct)
      PROVE  RunInv(v)'
    <2>1. /\ users' = users /\ run' = run /\ lastSynced' = lastSynced
          /\ broker' = broker /\ fills' = fills
          /\ account' = [account EXCEPT ![u] = acct]
          /\ floor' = [floor EXCEPT ![u] = IF account[u] = acct THEN floor[u] ELSE None]
        BY <1>4 DEF Callback
    <2>2. CASE run[v].user # u
        BY <1>1, <1>3, <2>1, <2>2
        DEF RunInv, Busy, AccountHeld, StartHeld, Covered, InRange, FillsFollow, IInv, Base, TypeOK
    <2>3. CASE run[v].user = u
        <3> SUFFICES ASSUME Busy(v)
                     PROVE  (AccountHeld(v) /\ StartHeld(v) /\ Covered(v) /\ InRange(v)
                             /\ FillsFollow(v))'
            BY <2>1 DEF RunInv, Busy
        <3>1. account'[u] = acct /\ acct # None
              /\ (account[u] = acct \/ floor'[u] = None)
              /\ (account[u] = acct => floor'[u] = floor[u])
            BY <2>1, IngestAssumption DEF IInv, Base, TypeOK
        <3>2. AccountHeld(v)'
            BY <1>1, <2>1, <2>3, <3>1 DEF RunInv, AccountHeld
        <3> QED BY <1>1, <2>1, <3>2 DEF RunInv, StartHeld, Covered, InRange, FillsFollow
    <2> QED BY <2>2, <2>3
<1>5. ASSUME NEW u \in Users, DeleteAccount(u) PROVE RunInv(v)'
    <2>1. /\ run' = run /\ users' = users \ {u}
          /\ \A x \in Users \ {u} :
                /\ account'[x] = account[x] /\ floor'[x] = floor[x]
                /\ lastSynced'[x] = lastSynced[x]
                /\ broker'[x] = broker[x] /\ fills'[x] = fills[x]
        BY <1>5 DEF DeleteAccount, IInv, Base, TypeOK
    <2> QED BY <1>1, <1>2, <2>1, RunInvFrame
<1>6. ASSUME NEW w \in Workers, CommitRun(w) PROVE RunInv(v)'
    <2>1. CASE v = w
        BY <1>6, <2>1, CommitEffect DEF RunInv, Busy, IInv
    <2>2. CASE v # w /\ Busy(v)
        <3> DEFINE x == run[v].user
        <3>1. x \in Users /\ x # run[w].user /\ run'[v] = run[v]
            BY <1>3, <1>6, <2>2, CommitEffect DEF IInv
        <3>2. /\ account'[x] = account[x] /\ floor'[x] = floor[x]
              /\ lastSynced'[x] = lastSynced[x]
              /\ broker'[x] = broker[x] /\ fills'[x] = fills[x] /\ users' = users
            BY <1>6, <3>1, CommitEffect DEF IInv, Base, TypeOK
        <3> QED BY <1>1, <3>1, <3>2, RunInvFrame
    <2>3. CASE v # w /\ ~Busy(v)
        <3>1. run'[v] = run[v] /\ users' = users
            BY <1>6, <2>3, CommitEffect DEF IInv
        <3> QED BY <2>3, <3>1 DEF RunInv, Busy
    <2> QED BY <2>1, <2>2, <2>3
<1>7. CASE UNCHANGED <<users, account, lastSynced, broker, fills, floor>>
    <2>1. CASE run'[v] = run[v]
        BY <1>1, <1>7, <2>1, RunInvFrame
    <2>2. ASSUME NEW w \in Workers, WorkerStep(w) \/ Abort(w), run'[v] # run[v]
          PROVE  RunInv(v)'
        <3>1. v = w
            BY <2>2, OthersKept DEF IInv, Base
        <3>2. CASE ReadConnection(w)
            BY <3>1, <3>2, ReadEstablishes
        <3>3. CASE FetchWindow(w)
            BY <3>1, <3>3, FetchExtends
        <3>4. CASE OpenClient(w)
            <4>1. /\ run[w].pc = "client"
                  /\ run'[w] = [run[w] EXCEPT !.pc = "fetching"]
                BY <1>2, <3>4 DEF OpenClient
            <4>2. /\ run'[w].user = run[w].user /\ run'[w].account = run[w].account
                  /\ run'[w].start = run[w].start /\ run'[w].cursor = run[w].cursor
                  /\ run'[w].startedAt = run[w].startedAt
                  /\ run'[w].broker = run[w].broker /\ run'[w].fills = run[w].fills
                BY <1>2, <3>1, <4>1 DEF Run
            <4> QED BY <1>1, <1>7, <3>1, <4>1, <4>2
                DEF RunInv, Busy, AccountHeld, StartHeld, Covered, InRange, FillsFollow
        <3>5. CASE ~ReadConnection(w) /\ ~FetchWindow(w) /\ ~OpenClient(w)
            <4>1. run'[w].pc \notin {"client", "fetching"}
                <5>1. ASSUME NEW exc, Raise(w, exc)
                      PROVE  run'[w].pc = "failing"
                    BY <1>2, <3>1, <5>1 DEF Raise, Run
                <5>2. CASE NoConnection(w) \/ FetchForDeletedUser(w)
                    BY <5>1, <5>2 DEF NoConnection, FetchForDeletedUser
                <5>3. CASE \E fault \in VendorFaults : VendorError(w, fault)
                    BY <5>1, <5>3 DEF VendorError
                <5>4. CASE StartJob(w)
                    BY <5>4, JobTaken DEF IInv, Base
                <5>5. CASE AcquireLock(w)
                    BY <1>2, <3>1, <5>5 DEF AcquireLock, Run
                <5>6. CASE RecordFailure(w) \/ CommitRun(w) \/ CommitRefused(w) \/ Abort(w)
                    BY <1>2, <5>6 DEF RecordFailure, CommitRun, CommitRefused, Abort, IdleRun
                <5> QED BY <2>2, <3>5, <5>2, <5>3, <5>4, <5>5, <5>6 DEF WorkerStep
            <4> QED BY <3>1, <4>1 DEF RunInv, Busy
        <3> QED BY <3>2, <3>3, <3>4, <3>5
    <2> QED BY <2>1, <2>2, StepsOfOthers
<1> QED BY <1>4, <1>5, <1>6, <1>7, TableEffect

\* Only a commit moves last_synced_at, and it commits what the loop has covered.
LEMMA NextNothingMissed == IInv /\ [Next]_vars => NothingMissed'
<1> SUFFICES ASSUME IInv, [Next]_vars, NEW u \in users', floor'[u] # None,
                    NEW a \in Activities, AccountOf[a] = account'[u],
                    floor'[u] <= execAt'[a],
                    execAt'[a] + PostDelay < lastSynced'[u]
             PROVE  a \in broker'[u]
    BY DEF NothingMissed
<1>0. /\ TypeOK /\ NothingMissed /\ FloorSynced /\ execAt' = execAt
      /\ execAt[a] \in Int /\ PostDelay \in Nat /\ None \notin Int
      /\ Overlap \in Nat /\ PostDelay <= Overlap
    BY ClockGrows, IngestAssumption, SettingsAssumption, PostDelayAssumption
    DEF IInv, Base, TypeOK
<1>1. CASE UNCHANGED <<users, account, lastSynced, broker, fills, floor>>
    BY <1>0, <1>1 DEF NothingMissed
<1>2. ASSUME NEW x \in Users, NEW acct \in Accounts, Callback(x, acct)
      PROVE  a \in broker'[u]
    BY <1>0, <1>2 DEF Callback, NothingMissed, TypeOK
<1>3. ASSUME NEW x \in Users, DeleteAccount(x) PROVE a \in broker'[u]
    BY <1>0, <1>3 DEF DeleteAccount, NothingMissed, TypeOK
<1>4. ASSUME NEW w \in Workers, CommitRun(w) PROVE a \in broker'[u]
    <2> DEFINE r == run[w]
    <2>1. CASE u # r.user
        <3>1. u \in users /\ u \in Users
            BY <1>0, <1>4, CommitEffect DEF IInv, TypeOK
        <3>2. /\ account'[u] = account[u] /\ floor'[u] = floor[u]
              /\ lastSynced'[u] = lastSynced[u] /\ broker'[u] = broker[u]
            BY <1>0, <1>4, <2>1, <3>1, CommitEffect DEF IInv, TypeOK
        <3> QED BY <1>0, <3>1, <3>2 DEF NothingMissed
    <2>2. CASE u = r.user
        <3>1. /\ u \in users /\ u \in Users /\ r \in Run /\ ~(r.cursor < r.startedAt)
              /\ AccountHeld(w) /\ StartHeld(w) /\ Covered(w)
            BY <1>4, <2>2, CommitEffect DEF IInv, RunInv
        <3>2. /\ lastSynced'[u] = r.startedAt /\ account'[u] = account[u]
              /\ broker'[u] = broker[u] \cup r.broker
              /\ floor'[u] = IF floor[u] = None /\ account[u] = r.account
                             THEN r.start ELSE floor[u]
            BY <1>0, <1>4, <2>2, <3>1, CommitEffect DEF IInv, TypeOK
        <3>3. /\ r.cursor \in Int /\ r.startedAt \in Int /\ r.start \in Int
              /\ lastSynced[u] \in Int \cup {None} /\ floor[u] \in Int \cup {None}
            BY <1>0, <3>1 DEF Run, TypeOK
        <3>4. r.account = account[u]
            BY <2>2, <3>1, <3>2 DEF AccountHeld
        <3>5. execAt[a] < r.cursor /\ execAt[a] + PostDelay < r.startedAt
            BY <1>0, <3>1, <3>2, <3>3
        <3>6. CASE r.start <= execAt[a]
            BY <1>0, <2>2, <3>1, <3>2, <3>4, <3>5, <3>6 DEF Covered
        <3>7. CASE ~(r.start <= execAt[a])
            <4>1. floor[u] # None /\ floor'[u] = floor[u]
                BY <1>0, <3>2, <3>4, <3>7
            <4>2. lastSynced[u] # None /\ lastSynced[u] \in Int
                BY <1>0, <3>1, <3>3, <4>1 DEF FloorSynced
            <4>3. r.start = lastSynced[u] - Overlap
                BY <2>2, <3>1, <4>2 DEF StartHeld, WindowsStart
            <4>4. execAt[a] + PostDelay < lastSynced[u]
                BY <1>0, <3>3, <3>7, <4>2, <4>3
            <4>5. a \in broker[u]
                BY <1>0, <3>1, <3>2, <4>1, <4>4 DEF NothingMissed
            <4> QED BY <3>2, <4>5
        <3> QED BY <3>6, <3>7
    <2> QED BY <2>1, <2>2
<1> QED BY <1>1, <1>2, <1>3, <1>4, TableEffect

\* The rows of both tables land and go in one transaction.
LEMMA NextFillsMatchBroker == IInv /\ [Next]_vars => FillsMatchBroker'
<1> SUFFICES ASSUME IInv, [Next]_vars, NEW u \in Users
             PROVE  fills'[u] = UNION {FillsOf[a] : a \in broker'[u]}
    BY DEF FillsMatchBroker
<1>0. TypeOK /\ fills[u] = UNION {FillsOf[a] : a \in broker[u]}
    BY DEF IInv, Base, FillsMatchBroker
<1>1. CASE UNCHANGED <<users, account, lastSynced, broker, fills, floor>>
    BY <1>0, <1>1
<1>2. ASSUME NEW x \in Users, NEW acct \in Accounts, Callback(x, acct)
      PROVE  fills'[u] = UNION {FillsOf[a] : a \in broker'[u]}
    BY <1>0, <1>2 DEF Callback
<1>3. ASSUME NEW x \in Users, DeleteAccount(x)
      PROVE  fills'[u] = UNION {FillsOf[a] : a \in broker'[u]}
    <2>1. CASE u = x
        <3>1. fills'[u] = {} /\ broker'[u] = {}
            BY <1>0, <1>3, <2>1 DEF DeleteAccount, TypeOK
        <3> QED BY <3>1
    <2>2. CASE u # x
        <3>1. fills'[u] = fills[u] /\ broker'[u] = broker[u]
            BY <1>0, <1>3, <2>2 DEF DeleteAccount, TypeOK
        <3> QED BY <1>0, <3>1
    <2> QED BY <2>1, <2>2
<1>4. ASSUME NEW w \in Workers, CommitRun(w)
      PROVE  fills'[u] = UNION {FillsOf[a] : a \in broker'[u]}
    <2>1. CASE u = run[w].user
        <3>1. FillsFollow(w)
            BY <1>4, CommitEffect DEF IInv, RunInv
        <3>2. /\ fills'[u] = fills[u] \cup run[w].fills
              /\ broker'[u] = broker[u] \cup run[w].broker
            BY <1>0, <1>4, <2>1, CommitEffect DEF IInv, TypeOK
        <3> QED BY <2>1, <3>1, <3>2 DEF FillsFollow
    <2>2. CASE u # run[w].user
        <3> DEFINE x == run[w].user
        <3>0. /\ broker' = [broker EXCEPT ![x] = broker[x] \cup run[w].broker]
              /\ fills' = [fills EXCEPT ![x] = fills[x] \cup run[w].fills]
            BY <1>4, CommitEffect DEF IInv
        <3>t. u # x /\ u \in Users
            BY <2>2
        <3> HIDE DEF x
        <3>f. /\ broker \in [Users -> SUBSET Activities]
              /\ fills \in [Users -> SUBSET Fills]
            BY <1>0 DEF TypeOK
        <3>1. fills'[u] = fills[u] /\ broker'[u] = broker[u]
            BY <3>0, <3>t, <3>f
        <3> QED BY <1>0, <3>1
    <2> QED BY <2>1, <2>2
<1> QED BY <1>1, <1>2, <1>3, <1>4, TableEffect

\* A run record needs its user: the two steps that write one.
LEMMA RunsOfUsers ==
    ASSUME TypeOK, [Next]_vars, NEW u \in Users \ users
    PROVE  syncRuns[u] = <<>> => syncRuns'[u] = <<>>
<1>1. CASE UNCHANGED syncRuns
    BY <1>1
<1>2. ASSUME NEW x \in Users, DeleteAccount(x) PROVE syncRuns'[u] = syncRuns[u] \/ syncRuns'[u] = <<>>
    BY <1>2 DEF DeleteAccount, TypeOK
<1>3. ASSUME NEW w \in Workers, RecordFailure(w) \/ CommitRun(w)
      PROVE  syncRuns'[u] = syncRuns[u]
    BY <1>3 DEF RecordFailure, CommitRun, RunsTableAfter, TypeOK
<1> QED BY <1>1, <1>2, <1>3
    DEF Next, vars, tables, Tick, Post, Callback, WorkerStep, StartJob, AcquireLock,
        ReadConnection, OpenClient, NoConnection, FetchWindow, FetchForDeletedUser,
        VendorError, Raise, CommitRefused, Abort, ManualSync, FanOutDefer,
        FanOutRead, FanOutAbort

\* No row is written for a user whose users row is gone.
LEMMA NextDeletedStaysDeleted == IInv /\ [Next]_vars => DeletedStaysDeleted'
<1> SUFFICES ASSUME IInv, [Next]_vars, NEW u \in Users, u \notin users'
             PROVE  /\ account'[u] = None /\ lastSynced'[u] = None
                    /\ broker'[u] = {} /\ fills'[u] = {} /\ syncRuns'[u] = <<>>
    BY DEF DeletedStaysDeleted
<1>0. /\ TypeOK
      /\ u \notin users => /\ account[u] = None /\ lastSynced[u] = None
                           /\ broker[u] = {} /\ fills[u] = {} /\ syncRuns[u] = <<>>
    BY DEF IInv, Base, DeletedStaysDeleted
<1>1. u \notin users => syncRuns'[u] = <<>>
    BY <1>0, RunsOfUsers
<1>2. CASE UNCHANGED <<users, account, lastSynced, broker, fills, floor>>
    BY <1>0, <1>1, <1>2
<1>3. ASSUME NEW x \in Users, NEW acct \in Accounts, Callback(x, acct)
      PROVE  /\ account'[u] = None /\ lastSynced'[u] = None
             /\ broker'[u] = {} /\ fills'[u] = {} /\ syncRuns'[u] = <<>>
    BY <1>0, <1>1, <1>3 DEF Callback, TypeOK
<1>4. ASSUME NEW x \in Users, DeleteAccount(x)
      PROVE  /\ account'[u] = None /\ lastSynced'[u] = None
             /\ broker'[u] = {} /\ fills'[u] = {} /\ syncRuns'[u] = <<>>
    BY <1>0, <1>1, <1>4 DEF DeleteAccount, TypeOK
<1>5. ASSUME NEW w \in Workers, CommitRun(w)
      PROVE  /\ account'[u] = None /\ lastSynced'[u] = None
             /\ broker'[u] = {} /\ fills'[u] = {} /\ syncRuns'[u] = <<>>
    <2> DEFINE x == run[w].user
    <2>1. /\ x \in users /\ users' = users /\ account' = account
          /\ lastSynced' = [lastSynced EXCEPT ![x] = run[w].startedAt]
          /\ broker' = [broker EXCEPT ![x] = broker[x] \cup run[w].broker]
          /\ fills' = [fills EXCEPT ![x] = fills[x] \cup run[w].fills]
        BY <1>5, CommitEffect DEF IInv
    <2>2. u \notin users /\ u # x
        BY <2>1
    <2> HIDE DEF x
    <2>3. /\ lastSynced'[u] = lastSynced[u]
          /\ broker'[u] = broker[u] /\ fills'[u] = fills[u]
        BY <1>0, <2>1, <2>2 DEF TypeOK
    <2> QED BY <1>0, <1>1, <2>1, <2>2, <2>3
<1> QED BY <1>2, <1>3, <1>4, <1>5, TableEffect

\* Before the first connection the invariant holds.
LEMMA InitIInv == Init => IInv
<1> SUFFICES ASSUME Init PROVE IInv
    OBVIOUS
<1>1. TypeOK /\ HasUser
    BY InitTypeOK DEF Init, HasUser, IdleRun
<1>2. LockProtects
    BY IngestAssumption DEF Init, LockProtects, Holds, IdleRun, InTransaction
<1>3. Settled
    BY DEF Init, Settled
<1>4. StartedPast /\ Unfetched /\ \A w \in Workers : RunInv(w)
    BY DEF Init, StartedPast, Unfetched, RunInv, Busy, IdleRun
<1>5. FloorSynced /\ NothingMissed
    BY DEF Init, FloorSynced, NothingMissed
<1>6. FillsMatchBroker
    BY DEF Init, FillsMatchBroker
<1>7. DeletedStaysDeleted
    BY DEF Init, DeletedStaysDeleted
<1> QED BY <1>1, <1>2, <1>3, <1>4, <1>5, <1>6, <1>7 DEF IInv, Base

\* One step per conjunct of the invariant, from the lemmas above.
LEMMA NextIInv == IInv /\ [Next]_vars => IInv'
<1> SUFFICES ASSUME IInv, [Next]_vars PROVE IInv'
    OBVIOUS
<1>1. Base'
    BY NextTypeOK, NextHasUser, NextLockProtects DEF IInv, Base
<1>2. Settled' /\ StartedPast' /\ Unfetched'
    BY NextSettled, NextStartedPast, NextUnfetched DEF IInv, Base
<1>3. FloorSynced'
    BY NextFloorSynced DEF IInv
<1>4. \A w \in Workers : RunInv(w)'
    BY NextRunInv
<1>5. NothingMissed' /\ FillsMatchBroker' /\ DeletedStaysDeleted'
    BY NextNothingMissed, NextFillsMatchBroker, NextDeletedStaysDeleted
<1> QED BY <1>1, <1>2, <1>3, <1>4, <1>5 DEF IInv

\* The invariant of the ledger and of every run under way holds throughout.
THEOREM Invariance == Spec => []IInv
BY InitIInv, NextIInv, PTL DEF Spec

\* INGEST-03, INGEST-05: below the watermark the ledger has no gap, whatever the
\* interleaving of runs, failures, crashes, re-authorisations and deletions, as
\* long as the vendor publishes within the overlap.
THEOREM SpecNothingMissed == Spec => []NothingMissed
<1>1. IInv => NothingMissed
    BY DEF IInv
<1> QED BY <1>1, Invariance, PTL

\* D6-02: the fills are those of the landed transactions, no more and no fewer.
THEOREM SpecFillsMatchBroker == Spec => []FillsMatchBroker
<1>1. IInv => FillsMatchBroker
    BY DEF IInv
<1> QED BY <1>1, Invariance, PTL

\* AUTH-06: no run under way at the deletion of an account brings any of it back.
THEOREM SpecDeletedStaysDeleted == Spec => []DeletedStaysDeleted
<1>1. IInv => DeletedStaysDeleted
    BY DEF IInv
<1> QED BY <1>1, Invariance, PTL

\* WR-01: the watermark a run starts from is the one it replaces.
THEOREM SpecWatermarkNotStale == Spec => []WatermarkNotStale
<1>1. IInv => WatermarkNotStale
    BY DEF IInv, RunInv, Busy, StartHeld, WatermarkNotStale
<1> QED BY <1>1, Invariance, PTL

\* D6-02: rows leave the ledger with the account and no other way.
THEOREM SpecLedgerGrows == Spec => LedgerGrows
<1>1. ASSUME IInv, [Next]_vars, NEW u \in Users, u \in users'
      PROVE  broker[u] \subseteq broker'[u] /\ fills[u] \subseteq fills'[u]
    <2>0. TypeOK
        BY <1>1 DEF IInv, Base
    <2>1. CASE UNCHANGED <<users, account, lastSynced, broker, fills, floor>>
        BY <2>1
    <2>2. ASSUME NEW x \in Users, NEW acct \in Accounts, Callback(x, acct)
          PROVE  broker[u] \subseteq broker'[u] /\ fills[u] \subseteq fills'[u]
        BY <2>2 DEF Callback
    <2>3. ASSUME NEW x \in Users, DeleteAccount(x)
          PROVE  broker[u] \subseteq broker'[u] /\ fills[u] \subseteq fills'[u]
        BY <1>1, <2>0, <2>3 DEF DeleteAccount, TypeOK
    <2>4. ASSUME NEW w \in Workers, CommitRun(w)
          PROVE  broker[u] \subseteq broker'[u] /\ fills[u] \subseteq fills'[u]
        <3>1. /\ broker' = [broker EXCEPT ![run[w].user] = broker[run[w].user] \cup run[w].broker]
              /\ fills' = [fills EXCEPT ![run[w].user] = fills[run[w].user] \cup run[w].fills]
            BY <1>1, <2>4, CommitEffect DEF IInv
        <3>2. CASE u = run[w].user
            <4>1. /\ broker'[u] = broker[u] \cup run[w].broker
                  /\ fills'[u] = fills[u] \cup run[w].fills
                BY <2>0, <3>1, <3>2 DEF TypeOK
            <4> QED BY <4>1
        <3>3. CASE u # run[w].user
            BY <2>0, <3>1, <3>3 DEF TypeOK
        <3> QED BY <3>2, <3>3
    <2> QED BY <1>1, <2>1, <2>2, <2>3, <2>4, TableEffect
<1>2. IInv /\ [Next]_vars =>
        [\A u \in Users : u \in users' =>
            broker[u] \subseteq broker'[u] /\ fills[u] \subseteq fills'[u]]_vars
    BY <1>1
<1> QED BY <1>2, Invariance, PTL DEF Spec, LedgerGrows

\* INGEST-05: the first sync of a user covers the full lookback.
THEOREM SpecBackfillOnConnect == Spec => BackfillOnConnect
<1>1. ASSUME IInv, [Next]_vars, NEW u \in Users, lastSynced[u] = None, floor'[u] # None
      PROVE  floor'[u] = lastSynced'[u] - Lookback
    <2>0. TypeOK /\ Base
        BY <1>1 DEF IInv, Base
    <2>1. floor[u] = None
        BY <1>1 DEF IInv, FloorSynced
    <2>2. floor'[u] = None
          \/ \E w \in Workers : CommitRun(w) /\ run[w].user = u
        <3>1. CASE UNCHANGED <<users, account, lastSynced, broker, fills, floor>>
            BY <2>1, <3>1
        <3>2. ASSUME NEW x \in Users, NEW acct \in Accounts, Callback(x, acct)
              PROVE  floor'[u] = None
            BY <2>0, <2>1, <3>2 DEF Callback, TypeOK
        <3>3. ASSUME NEW x \in Users, DeleteAccount(x) PROVE floor'[u] = None
            BY <2>0, <2>1, <3>3 DEF DeleteAccount, TypeOK
        <3>4. ASSUME NEW w \in Workers, CommitRun(w), run[w].user # u
              PROVE  floor'[u] = None
            BY <2>0, <2>1, <3>4, CommitEffect DEF TypeOK
        <3> QED BY <1>1, <3>1, <3>2, <3>3, <3>4, TableEffect
    <2>3. PICK w \in Workers : CommitRun(w) /\ run[w].user = u
        BY <1>1, <2>2
    <2>4. lastSynced'[u] = run[w].startedAt
        BY <2>0, <2>3, CommitEffect DEF TypeOK
    <2>5. floor'[u] = run[w].start \/ floor'[u] = floor[u]
        <3>1. floor' = [floor EXCEPT ![u] = IF floor[u] = None /\ account[u] = run[w].account
                                            THEN run[w].start ELSE floor[u]]
            BY <2>0, <2>3, CommitEffect
        <3>2. floor \in [Users -> Int \cup {None}]
            BY <2>0 DEF TypeOK
        <3> QED BY <3>1, <3>2
    <2>6. run[w].start = WindowsStart(lastSynced[u], run[w].startedAt)
        <3>1. Busy(w)
            BY <2>0, <2>3, CommitEffect
        <3>2. RunInv(w)
            BY <1>1 DEF IInv
        <3> QED BY <2>3, <3>1, <3>2 DEF RunInv, StartHeld
    <2> QED BY <1>1, <2>1, <2>4, <2>5, <2>6 DEF WindowsStart
<1>2. IInv /\ [Next]_vars =>
        [\A u \in Users : lastSynced[u] = None /\ floor'[u] # None =>
            floor'[u] = lastSynced'[u] - Lookback]_vars
    BY <1>1
<1> QED BY <1>2, Invariance, PTL DEF Spec, BackfillOnConnect

--------------------------------------------------------------------------------
(* What the runs put on record.                                            *)

\* What a run has landed and not yet committed is in nobody's committed rows.
NewRows ==
    \A w \in Workers : run[w].pc \in {"client", "fetching"} =>
        run[w].broker \cap broker[run[w].user] = {}

Records == NewRows /\ RunsAccountForRows /\ WatermarkHasRun

\* A step of a run adds to what it holds only rows the table has not.
LEMMA LandedEffect ==
    ASSUME TypeOK, Unfetched, NEW w \in Workers, WorkerStep(w) \/ Abort(w),
           run'[w].pc \in {"client", "fetching"}
    PROVE  /\ run'[w].user = run[w].user
           /\ \/ run'[w].broker = {}
              \/ run[w].pc \in {"client", "fetching"} /\ run'[w].broker = run[w].broker
              \/ /\ run[w].pc = "fetching"
                 /\ \E answer : run'[w].broker = run[w].broker \cup (answer \ broker[run[w].user])
<1>1. run \in [Workers -> Run] /\ run[w] \in Run
    BY DEF TypeOK
<1>2. CASE StartJob(w) \/ AcquireLock(w)
    <2>1. run'[w].pc \in {"waiting", "locked"}
        BY <1>1, <1>2 DEF StartJob, AcquireLock, IdleRun, Run
    <2> QED BY <2>1
<1>3. CASE ReadConnection(w)
    <2>1. run'[w].user = run[w].user /\ run'[w].broker = run[w].broker
        BY <1>1, <1>3 DEF ReadConnection, Run
    <2>2. run[w].broker = {}
        BY <1>3 DEF ReadConnection, Unfetched
    <2> QED BY <2>1, <2>2
<1>4. CASE OpenClient(w)
    BY <1>1, <1>4 DEF OpenClient, Run
<1>5. CASE FetchWindow(w)
    <2> DEFINE r == run[w]
               to == WindowEnd(r.cursor, r.startedAt)
    <2>1. r.pc = "fetching"
        BY <1>5 DEF FetchWindow
    <2>2. PICK answer : run' = [run EXCEPT ![w] =
              [r EXCEPT !.cursor = to, !.broker = InsertBroker(r, answer),
                        !.fills = InsertFills(r, answer)]]
        BY <1>5 DEF FetchWindow
    <2>3. run'[w].user = r.user /\ run'[w].broker = InsertBroker(r, answer)
        BY <1>1, <2>2 DEF Run
    <2> QED BY <2>1, <2>3 DEF InsertBroker
<1>6. ASSUME NEW exc, Raise(w, exc) PROVE run'[w].pc = "failing"
    BY <1>1, <1>6 DEF Raise, Run
<1>7. CASE NoConnection(w) \/ FetchForDeletedUser(w) \/ \E fault \in VendorFaults : VendorError(w, fault)
    <2>1. run'[w].pc = "failing"
        BY <1>6, <1>7 DEF NoConnection, FetchForDeletedUser, VendorError
    <2> QED BY <2>1
<1>8. CASE RecordFailure(w) \/ CommitRun(w) \/ CommitRefused(w) \/ Abort(w)
    <2>1. run'[w].pc = "idle"
        BY <1>1, <1>8 DEF RecordFailure, CommitRun, CommitRefused, Abort, IdleRun
    <2> QED BY <2>1
<1> QED BY <1>2, <1>3, <1>4, <1>5, <1>7, <1>8 DEF WorkerStep

\* Another run of the user cannot commit the rows of this one: it has no lock.
LEMMA NextNewRows == IInv /\ NewRows /\ [Next]_vars => NewRows'
<1> SUFFICES ASSUME IInv, NewRows, [Next]_vars, NEW v \in Workers,
                    run'[v].pc \in {"client", "fetching"}
             PROVE  run'[v].broker \cap broker'[run'[v].user] = {}
    BY DEF NewRows
<1>0. TypeOK /\ HasUser /\ Unfetched /\ broker \in [Users -> SUBSET Activities]
    BY DEF IInv, Base, TypeOK
<1>1. run[v].pc \in {"client", "fetching"} =>
        run[v].broker \cap broker[run[v].user] = {} /\ run[v].user \in Users
    BY <1>0 DEF NewRows, HasUser
<1>2. ASSUME NEW w \in Workers, CommitRun(w)
      PROVE  run'[v].broker \cap broker'[run'[v].user] = {}
    <2> DEFINE u == run[w].user
    <2>1. /\ u \in users /\ run'[w].pc = "idle"
          /\ broker' = [broker EXCEPT ![u] = broker[u] \cup run[w].broker]
          /\ v # w => run'[v] = run[v] /\ (Busy(v) => run[v].user # u)
        BY <1>2, CommitEffect DEF IInv
    <2>2. v # w
        BY <2>1
    <2>3. run'[v] = run[v] /\ run[v].user # u /\ run[v].user \in Users
        BY <1>1, <2>1, <2>2 DEF Busy
    <2>4. broker'[run[v].user] = broker[run[v].user]
        BY <1>0, <2>1, <2>3
    <2> QED BY <1>1, <2>3, <2>4
<1>3. ASSUME NEW u \in Users, DeleteAccount(u)
      PROVE  run'[v].broker \cap broker'[run'[v].user] = {}
    <2>1. run' = run /\ broker' = [broker EXCEPT ![u] = {}]
        BY <1>3 DEF DeleteAccount
    <2>2. broker'[run[v].user] \subseteq broker[run[v].user]
        BY <1>0, <1>1, <2>1
    <2> QED BY <1>1, <2>1, <2>2
<1>4. CASE broker' = broker
    <2>1. CASE UNCHANGED <<run, lock>>
        BY <1>1, <1>4, <2>1
    <2>2. ASSUME NEW w \in Workers, WorkerStep(w) \/ Abort(w)
          PROVE  run'[v].broker \cap broker'[run'[v].user] = {}
        <3>1. CASE v # w
            <4>1. run'[v] = run[v]
                BY <1>0, <2>2, <3>1, OthersKept
            <4> QED BY <1>1, <1>4, <4>1
        <3>2. CASE v = w
            BY <1>0, <1>1, <1>4, <2>2, <3>2, LandedEffect
        <3> QED BY <3>1, <3>2
    <2> QED BY <2>1, <2>2, StepsOfOthers
<1>5. (\E u \in Users, acct \in Accounts : Callback(u, acct)) => broker' = broker
    BY DEF Callback
<1> QED BY <1>2, <1>3, <1>4, <1>5, TableEffect

\* The succeeded rows of a user's part of sync_runs.
Done(s) == {i \in 1..Len(s) : s[i].status = "succeeded"}

\* An insert leaves the earlier rows, and adds a succeeded one only if it is one.
LEMMA DoneAppend ==
    ASSUME NEW s \in Seq(SyncRun), NEW row \in SyncRun
    PROVE  /\ Done(Append(s, row))
                = Done(s) \cup (IF row.status = "succeeded" THEN {Len(s) + 1} ELSE {})
           /\ \A i \in Done(s) : Append(s, row)[i] = s[i]
           /\ Append(s, row)[Len(s) + 1] = row
           /\ Len(s) + 1 \notin Done(s)
<1>1. /\ Len(s) \in Nat /\ Len(Append(s, row)) = Len(s) + 1
      /\ \A i \in 1..Len(s) : Append(s, row)[i] = s[i]
      /\ Append(s, row)[Len(s) + 1] = row
    OBVIOUS
<1> QED BY <1>1 DEF Done

\* The steps that touch sync_runs: a deletion, a failure's record, a commit.
LEMMA RecordEffect ==
    ASSUME Base, [Next]_vars
    PROVE  \/ UNCHANGED <<broker, lastSynced, syncRuns>>
           \/ \E u \in Users :
                /\ broker' = [broker EXCEPT ![u] = {}]
                /\ lastSynced' = [lastSynced EXCEPT ![u] = None]
                /\ syncRuns' = [syncRuns EXCEPT ![u] = <<>>]
           \/ \E u \in Users, row \in SyncRun :
                /\ row.status = "failed"
                /\ syncRuns' = [syncRuns EXCEPT ![u] = Append(syncRuns[u], row)]
                /\ UNCHANGED <<broker, lastSynced>>
           \/ \E w \in Workers, u \in Users, row \in SyncRun :
                /\ u = run[w].user /\ run[w].pc = "fetching"
                /\ row.status = "succeeded"
                /\ row.startedAt = run[w].startedAt /\ row.brokerLanded = run[w].broker
                /\ broker' = [broker EXCEPT ![u] = broker[u] \cup run[w].broker]
                /\ lastSynced' = [lastSynced EXCEPT ![u] = run[w].startedAt]
                /\ syncRuns' = [syncRuns EXCEPT ![u] = Append(syncRuns[u], row)]
<1>1. ASSUME NEW u \in Users, DeleteAccount(u)
      PROVE  /\ broker' = [broker EXCEPT ![u] = {}]
             /\ lastSynced' = [lastSynced EXCEPT ![u] = None]
             /\ syncRuns' = [syncRuns EXCEPT ![u] = <<>>]
    BY <1>1 DEF DeleteAccount
<1>2. ASSUME NEW w \in Workers, RecordFailure(w)
      PROVE  \/ UNCHANGED <<broker, lastSynced, syncRuns>>
             \/ \E u \in Users, row \in SyncRun :
                  /\ row.status = "failed"
                  /\ syncRuns' = [syncRuns EXCEPT ![u] = Append(syncRuns[u], row)]
                  /\ UNCHANGED <<broker, lastSynced>>
    <2> DEFINE r == run[w]
               row == [startedAt |-> r.startedAt, status |-> "failed",
                       brokerLanded |-> None, fillsLanded |-> None, error |-> r.error]
    <2>1. r \in Run /\ r.user \in Users
        BY <1>2 DEF Base, TypeOK, HasUser, RecordFailure
    <2>2. r.startedAt \in Int /\ r.error \in SyncErrors \cup {None}
        BY <2>1 DEF Run
    <2>3. row \in SyncRun /\ row.status = "failed"
        BY <2>2 DEF SyncRun
    <2>4. syncRuns' = RunsTableAfter(r.user, row) /\ UNCHANGED <<broker, lastSynced>>
        BY <1>2 DEF RecordFailure
    <2> HIDE DEF row
    <2> QED BY <2>1, <2>3, <2>4 DEF RunsTableAfter
<1>3. ASSUME NEW w \in Workers, CommitRun(w)
      PROVE  \E u \in Users, row \in SyncRun :
                /\ u = run[w].user /\ run[w].pc = "fetching"
                /\ row.status = "succeeded"
                /\ row.startedAt = run[w].startedAt /\ row.brokerLanded = run[w].broker
                /\ broker' = [broker EXCEPT ![u] = broker[u] \cup run[w].broker]
                /\ lastSynced' = [lastSynced EXCEPT ![u] = run[w].startedAt]
                /\ syncRuns' = [syncRuns EXCEPT ![u] = Append(syncRuns[u], row)]
    <2> DEFINE r == run[w]
               row == [startedAt |-> r.startedAt, status |-> "succeeded",
                       brokerLanded |-> r.broker, fillsLanded |-> r.fills, error |-> None]
    <2>1. /\ r \in Run /\ r.user \in Users /\ r.user \in users
          /\ broker' = [broker EXCEPT ![r.user] = broker[r.user] \cup r.broker]
          /\ lastSynced' = [lastSynced EXCEPT ![r.user] = r.startedAt]
        BY <1>3, CommitEffect
    <2>2. r.startedAt \in Int /\ r.broker \in SUBSET Activities /\ r.fills \in SUBSET Fills
        BY <2>1 DEF Run
    <2>3. /\ row \in SyncRun /\ row.status = "succeeded"
          /\ row.startedAt = r.startedAt /\ row.brokerLanded = r.broker
        BY <2>2 DEF SyncRun
    <2>4. syncRuns' = RunsTableAfter(r.user, row) /\ r.pc = "fetching"
        BY <1>3 DEF CommitRun
    <2> HIDE DEF row
    <2> QED BY <2>1, <2>3, <2>4 DEF RunsTableAfter
<1>4. \/ \E u \in Users : DeleteAccount(u)
      \/ \E w \in Workers : RecordFailure(w) \/ CommitRun(w)
      \/ UNCHANGED <<broker, lastSynced, syncRuns>>
    BY ZenonT(60) DEF Next, vars, tables, Tick, Post, Callback, WorkerStep, StartJob, AcquireLock,
        ReadConnection, OpenClient, NoConnection, FetchWindow, FetchForDeletedUser,
        VendorError, Raise, CommitRefused, Abort, ManualSync,
        FanOutDefer, FanOutRead, FanOutAbort
<1> QED BY <1>1, <1>2, <1>3, <1>4

\* Every row is landed by the one run that counts it, and every watermark is left by
\* a run on record.
LEMMA NextRecords == IInv /\ Records /\ [Next]_vars => Records'
<1> SUFFICES ASSUME IInv, Records, [Next]_vars, NEW x \in Users
             PROVE  /\ broker'[x] = UNION {syncRuns'[x][i].brokerLanded : i \in Done(syncRuns'[x])}
                    /\ \A i, j \in Done(syncRuns'[x]) : i # j =>
                          syncRuns'[x][i].brokerLanded \cap syncRuns'[x][j].brokerLanded = {}
                    /\ lastSynced'[x] # None =>
                          \E i \in Done(syncRuns'[x]) : syncRuns'[x][i].startedAt = lastSynced'[x]
    BY NextNewRows DEF Records, RunsAccountForRows, WatermarkHasRun, Succeeded, Done
<1> DEFINE s == syncRuns[x]
           t == syncRuns'[x]
           Goal == /\ broker'[x] = UNION {t[i].brokerLanded : i \in Done(t)}
                   /\ \A i, j \in Done(t) : i # j =>
                         t[i].brokerLanded \cap t[j].brokerLanded = {}
                   /\ lastSynced'[x] # None =>
                         \E i \in Done(t) : t[i].startedAt = lastSynced'[x]
<1> SUFFICES Goal
    OBVIOUS
<1>0. /\ broker \in [Users -> SUBSET Activities] /\ syncRuns \in [Users -> Seq(SyncRun)]
      /\ lastSynced \in [Users -> Int \cup {None}] /\ Base
    BY DEF IInv, Base, TypeOK
<1>1. /\ s \in Seq(SyncRun)
      /\ broker[x] = UNION {s[i].brokerLanded : i \in Done(s)}
      /\ \A i, j \in Done(s) : i # j => s[i].brokerLanded \cap s[j].brokerLanded = {}
      /\ lastSynced[x] # None => \E i \in Done(s) : s[i].startedAt = lastSynced[x]
    BY <1>0 DEF Records, RunsAccountForRows, WatermarkHasRun, Succeeded, Done
<1>2. CASE broker'[x] = broker[x] /\ lastSynced'[x] = lastSynced[x] /\ t = s
    BY <1>1, <1>2
<1>3. CASE broker'[x] = {} /\ lastSynced'[x] = None /\ t = <<>>
    <2>1. Done(<<>>) = {}
        BY DEF Done
    <2> QED BY <1>3, <2>1
<1>4. ASSUME NEW row \in SyncRun, row.status = "failed", t = Append(s, row),
             broker'[x] = broker[x], lastSynced'[x] = lastSynced[x]
      PROVE  Goal
    <2> HIDE DEF s, t
    <2>1. Done(t) = Done(s) /\ \A i \in Done(s) : t[i] = s[i]
        <3>1. PICK c \in Seq(SyncRun) : c = s
            BY <1>1
        <3>2. PICK d : d = t
            OBVIOUS
        <3>3. d = Append(c, row)
            BY <1>4, <3>1, <3>2
        <3>4. Done(c) \cup (IF row.status = "succeeded" THEN {Len(c) + 1} ELSE {}) = Done(c)
            BY <1>4
        <3>5. /\ Done(Append(c, row)) = Done(c)
              /\ \A i \in Done(c) : Append(c, row)[i] = c[i]
            BY <3>4, DoneAppend
        <3>6. Done(d) = Done(c) /\ \A i \in Done(c) : d[i] = c[i]
            BY <3>3, <3>5
        <3> QED BY <3>1, <3>2, <3>6 DEF Done
    <2>2. {t[i].brokerLanded : i \in Done(t)} = {s[i].brokerLanded : i \in Done(s)}
        BY <2>1
    <2>3. broker'[x] = UNION {t[i].brokerLanded : i \in Done(t)}
        BY <1>1, <1>4, <2>2
    <2>4. /\ \A i, j \in Done(t) : i # j => t[i].brokerLanded \cap t[j].brokerLanded = {}
          /\ lastSynced'[x] # None => \E i \in Done(t) : t[i].startedAt = lastSynced'[x]
        BY <1>1, <1>4, <2>1
    <2> QED BY <2>3, <2>4
<1>5. ASSUME NEW w \in Workers, x = run[w].user, run[w].pc = "fetching",
             NEW row \in SyncRun, row.status = "succeeded", row.startedAt = run[w].startedAt,
             row.brokerLanded = run[w].broker, t = Append(s, row),
             broker'[x] = broker[x] \cup run[w].broker, lastSynced'[x] = run[w].startedAt
      PROVE  Goal
    <2> DEFINE n == Len(s) + 1
    <2> HIDE DEF s, t
    <2>1. /\ Done(t) = Done(s) \cup {n} /\ n \notin Done(s)
          /\ t[n] = row /\ \A i \in Done(s) : t[i] = s[i]
        <3>1. PICK c \in Seq(SyncRun) : c = s
            BY <1>1
        <3>2. PICK d : d = t
            OBVIOUS
        <3>3. d = Append(c, row)
            BY <1>5, <3>1, <3>2
        <3>4. /\ Done(d) = Done(c) \cup {Len(c) + 1} /\ Len(c) + 1 \notin Done(c)
              /\ d[Len(c) + 1] = row /\ \A i \in Done(c) : d[i] = c[i]
            BY <1>5, <3>3, DoneAppend
        <3> QED BY <3>1, <3>2, <3>4 DEF Done
    <2> HIDE DEF n
    <2>2. run[w].broker \cap broker[x] = {}
        BY <1>5 DEF Records, NewRows
    <2>3. {t[i].brokerLanded : i \in Done(t)}
            = {s[i].brokerLanded : i \in Done(s)} \cup {run[w].broker}
        <3>1. t[n].brokerLanded = run[w].broker
            BY <1>5, <2>1
        <3>2. ASSUME NEW i \in Done(t)
              PROVE  t[i].brokerLanded \in {s[j].brokerLanded : j \in Done(s)} \cup {run[w].broker}
            BY <2>1, <3>1
        <3>3. ASSUME NEW i \in Done(s)
              PROVE  s[i].brokerLanded \in {t[j].brokerLanded : j \in Done(t)}
            BY <2>1
        <3>4. run[w].broker \in {t[j].brokerLanded : j \in Done(t)}
            BY <2>1, <3>1
        <3> QED BY <3>2, <3>3, <3>4
    <2>4. broker'[x] = UNION {t[i].brokerLanded : i \in Done(t)}
        BY <1>1, <1>5, <2>3
    <2>5. \A i \in Done(s) : s[i].brokerLanded \cap run[w].broker = {}
        BY <1>1, <2>2
    <2>6. \A i, j \in Done(t) : i # j => t[i].brokerLanded \cap t[j].brokerLanded = {}
        <3>1. t[n].brokerLanded = run[w].broker
            BY <1>5, <2>1
        <3>2. \A i, j \in Done(s) : i # j => s[i].brokerLanded \cap s[j].brokerLanded = {}
            BY <1>1
        <3> QED BY <2>1, <2>5, <3>1, <3>2
    <2>7. \E i \in Done(t) : t[i].startedAt = lastSynced'[x]
        BY <1>5, <2>1
    <2> QED BY <2>4, <2>6, <2>7
<1> HIDE DEF Goal
<1>6. CASE UNCHANGED <<broker, lastSynced, syncRuns>>
    BY <1>2, <1>6
<1>7. ASSUME NEW u \in Users,
             broker' = [broker EXCEPT ![u] = {}],
             lastSynced' = [lastSynced EXCEPT ![u] = None],
             syncRuns' = [syncRuns EXCEPT ![u] = <<>>]
      PROVE  Goal
    <2>1. CASE x = u
        BY <1>0, <1>3, <1>7, <2>1
    <2>2. CASE x # u
        BY <1>0, <1>2, <1>7, <2>2
    <2> QED BY <2>1, <2>2
<1>8. ASSUME NEW u \in Users, NEW row \in SyncRun, row.status = "failed",
             syncRuns' = [syncRuns EXCEPT ![u] = Append(syncRuns[u], row)],
             UNCHANGED <<broker, lastSynced>>
      PROVE  Goal
    <2>1. CASE x = u
        BY <1>0, <1>4, <1>8, <2>1
    <2>2. CASE x # u
        BY <1>0, <1>2, <1>8, <2>2
    <2> QED BY <2>1, <2>2
<1>9. ASSUME NEW w \in Workers, NEW u \in Users, NEW row \in SyncRun,
             u = run[w].user, run[w].pc = "fetching", row.status = "succeeded",
             row.startedAt = run[w].startedAt, row.brokerLanded = run[w].broker,
             broker' = [broker EXCEPT ![u] = broker[u] \cup run[w].broker],
             lastSynced' = [lastSynced EXCEPT ![u] = run[w].startedAt],
             syncRuns' = [syncRuns EXCEPT ![u] = Append(syncRuns[u], row)]
      PROVE  Goal
    <2>1. CASE x = u
        <3>1. /\ broker'[x] = broker[x] \cup run[w].broker
              /\ lastSynced'[x] = run[w].startedAt /\ t = Append(s, row)
            BY <1>0, <1>9, <2>1
        <3> QED BY <1>5, <1>9, <2>1, <3>1
    <2>2. CASE x # u
        BY <1>0, <1>2, <1>9, <2>2
    <2> QED BY <2>1, <2>2
<1> HIDE DEF s, t
<1>10. CASE \E u \in Users :
                /\ broker' = [broker EXCEPT ![u] = {}]
                /\ lastSynced' = [lastSynced EXCEPT ![u] = None]
                /\ syncRuns' = [syncRuns EXCEPT ![u] = <<>>]
    BY <1>7, <1>10
<1>11. CASE \E u \in Users, row \in SyncRun :
                /\ row.status = "failed"
                /\ syncRuns' = [syncRuns EXCEPT ![u] = Append(syncRuns[u], row)]
                /\ UNCHANGED <<broker, lastSynced>>
    BY <1>8, <1>11
<1>12. CASE \E w \in Workers, u \in Users, row \in SyncRun :
                /\ u = run[w].user /\ run[w].pc = "fetching"
                /\ row.status = "succeeded"
                /\ row.startedAt = run[w].startedAt /\ row.brokerLanded = run[w].broker
                /\ broker' = [broker EXCEPT ![u] = broker[u] \cup run[w].broker]
                /\ lastSynced' = [lastSynced EXCEPT ![u] = run[w].startedAt]
                /\ syncRuns' = [syncRuns EXCEPT ![u] = Append(syncRuns[u], row)]
    BY <1>9, <1>12
<1> QED BY Zenon, <1>0, <1>6, <1>10, <1>11, <1>12, RecordEffect

\* The records of the runs agree with the tables throughout.
LEMMA RecordsInvariance == Spec => []Records
<1>1. Init => Records
    <2> SUFFICES ASSUME Init PROVE Records
        OBVIOUS
    <2>1. NewRows
        BY DEF Init, NewRows, IdleRun
    <2>2. \A u \in Users : Succeeded(u) = {} /\ broker[u] = {} /\ lastSynced[u] = None
        BY DEF Init, Succeeded
    <2> QED BY <2>1, <2>2 DEF Records, RunsAccountForRows, WatermarkHasRun
<1> QED BY <1>1, NextRecords, Invariance, PTL DEF Spec

\* INGEST-06, NN-5: with any number of workers and overlapping windows, each row of
\* broker_transactions is counted by one succeeded run, and by no other.
THEOREM SpecRunsAccountForRows == Spec => []RunsAccountForRows
<1>1. Records => RunsAccountForRows
    BY DEF Records
<1> QED BY <1>1, RecordsInvariance, PTL

\* sync_user_task: last_synced_at is always the start of a run on record as
\* succeeded.
THEOREM SpecWatermarkHasRun == Spec => []WatermarkHasRun
<1>1. Records => WatermarkHasRun
    BY DEF Records
<1> QED BY <1>1, RecordsInvariance, PTL

--------------------------------------------------------------------------------
(* The ingest path implements the abstract ledger.                         *)

\* A database without connections is an empty ledger.
LEMMA InitLedger == Init => Ledger!Init
BY DEF Init, Ledger!Init

\* A commit is one instantaneous sync up to the run's start.
LEMMA CommitIsSync ==
    ASSUME IInv, [Next]_vars, NEW w \in Workers, CommitRun(w)
    PROVE  Ledger!Next
<1> DEFINE r == run[w]
           u == run[w].user
           s == run[w].startedAt
<1>1. /\ u \in Users /\ u \in users /\ r \in Run /\ ~(r.cursor < s)
      /\ AccountHeld(w) /\ StartHeld(w) /\ Covered(w) /\ InRange(w) /\ FillsFollow(w)
      /\ TypeOK /\ fills[u] = UNION {FillsOf[a] : a \in broker[u]}
    BY CommitEffect DEF IInv, RunInv, Base, FillsMatchBroker
<1>2. /\ s \in Int /\ r.cursor \in Int /\ r.start \in Int /\ 0 <= s /\ s <= clock
      /\ clock \in Nat /\ r.account \in Accounts /\ r.broker \subseteq Activities
      /\ execAt \in [Activities -> Int] /\ PostDelay \in Nat
    BY <1>1, IngestAssumption
    DEF AccountHeld, Run, TypeOK, IInv, StartedPast, CommitRun
<1>3. s \in 0..clock
    BY <1>2
<1>4. Ledger!May(u, r.account, s)
        = {a \in Activities : AccountOf[a] = r.account /\ r.start <= execAt[a]
                                /\ execAt[a] <= s}
    BY <1>1 DEF StartHeld, WindowsStart, Ledger!May
<1>5. r.broker \in SUBSET Ledger!May(u, r.account, s)
    BY <1>1, <1>2, <1>4 DEF InRange
<1>6. Ledger!Must(u, r.account, s) \subseteq broker[u] \cup r.broker
    <2> SUFFICES ASSUME NEW a \in Activities, AccountOf[a] = r.account,
                        r.start <= execAt[a], execAt[a] + PostDelay < s
                 PROVE  a \in broker[u] \cup r.broker
        BY <1>4 DEF Ledger!Must
    <2>1. execAt[a] < r.cursor
        BY <1>1, <1>2
    <2> QED BY <1>1, <2>1 DEF Covered
<1>7. fills[u] \cup r.fills = fills[u] \cup UNION {FillsOf[a] : a \in r.broker}
    <2>1. fills[u] \cup r.fills = UNION {FillsOf[a] : a \in broker[u] \cup r.broker}
        BY <1>1 DEF FillsFollow
    <2>2. UNION {FillsOf[a] : a \in broker[u] \cup r.broker}
            = (UNION {FillsOf[a] : a \in broker[u]})
                 \cup (UNION {FillsOf[a] : a \in r.broker})
        OBVIOUS
    <2> QED BY <1>1, <2>1, <2>2
<1>8. /\ broker' = [broker EXCEPT ![u] = @ \cup r.broker]
      /\ fills' = [fills EXCEPT ![u] = @ \cup UNION {FillsOf[a] : a \in r.broker}]
      /\ lastSynced' = [lastSynced EXCEPT ![u] = s]
      /\ users' = users /\ account' = account
    BY <1>7, CommitEffect DEF IInv
<1>9. clock' = clock /\ execAt' = execAt
    BY DEF CommitRun, vendor
<1>10. account[u] # None
    BY <1>1 DEF AccountHeld
<1>11. Ledger!Sync(u, r.account, s)
    BY <1>1, <1>2, <1>5, <1>6, <1>8, <1>9, <1>10 DEF Ledger!Sync
<1> QED BY <1>1, <1>2, <1>3, <1>11 DEF Ledger!Next

\* Every step of the system is one of the ledger, or leaves it alone.
LEMMA NextLedger == IInv /\ [Next]_vars => [Ledger!Next]_(Ledger!vars)
<1> SUFFICES ASSUME IInv, [Next]_vars PROVE [Ledger!Next]_(Ledger!vars)
    OBVIOUS
<1>1. CASE Tick
    BY <1>1 DEF Tick, vendor, tables, Ledger!Next, Ledger!Pass
<1>2. ASSUME NEW u \in Users, NEW acct \in Accounts, Callback(u, acct)
      PROVE  Ledger!Next
    BY <1>2 DEF Callback, vendor, Ledger!Next, Ledger!Connect
<1>3. ASSUME NEW u \in Users, DeleteAccount(u) PROVE Ledger!Next
    BY <1>3 DEF DeleteAccount, vendor, Ledger!Next, Ledger!Delete
<1>4. ASSUME NEW w \in Workers, CommitRun(w) PROVE Ledger!Next
    BY <1>4, CommitIsSync
<1>5. CASE UNCHANGED <<users, account, lastSynced, broker, fills, floor>> /\ ~Tick
    BY <1>5, VendorEffect DEF Post, Ledger!vars
<1> QED BY <1>1, <1>2, <1>3, <1>4, <1>5, TableEffect

\* Every behaviour of the ingest path is one of the abstract ledger: however the
\* jobs, locks and windows interleave, each commit is one sync at one instant.
THEOREM SpecImplementsLedger == Spec => ImplementsLedger
BY InitLedger, NextLedger, Invariance, PTL DEF Spec, ImplementsLedger, Ledger!Spec
================================================================================
