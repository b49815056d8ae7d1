-------------------------------- MODULE JobQueue --------------------------------
(***************************************************************************)
(* The Procrastinate job table as migration 0002 installs it: its tables,  *)
(* unique indexes, triggers and plpgsql functions, called by the web       *)
(* process (api/job_queue.py), by worker processes (worker/app.py, started *)
(* with concurrency 1), and by an operator.  Each function is one          *)
(* statement of its caller and commits by itself, except that the row lock *)
(* procrastinate_fetch_job_v2 takes is visible to other fetches before its *)
(* update is.  What the worker library does around these functions is not  *)
(* under src and is marked external.                                       *)
(***************************************************************************)
EXTENDS Integers, Sequences, FiniteSets

CONSTANTS
    Workers,     \* worker processes alive at a time: old and new of a redeploy
    WorkerIds,   \* ids of procrastinate_workers
    Tasks,       \* the tasks registered with app.periodic
    Deferrals,   \* what callers defer: [lock, queueing, priority]
    None,
    MaxJobs, MaxTick, MaxFaults   \* bounds of the model

JobIds == 1..MaxJobs
Ticks == 0..MaxTick
Statuses == {"todo", "doing", "succeeded", "failed", "cancelled", "aborted"}
EventTypes == {"deferred", "started", "deferred_for_retry", "failed", "succeeded",
               "cancelled", "abort_requested", "aborted", "scheduled", "retried"}

ASSUME JobQueueAssumption ==
    /\ MaxJobs \in Nat /\ MaxTick \in Nat /\ MaxFaults \in Nat
    /\ WorkerIds \subseteq Nat
    /\ None \notin Workers \cup WorkerIds \cup Nat \cup (Tasks \X Ticks)
    /\ \A d \in Deferrals : d.priority \in Int

VARIABLES
    clock,    \* minutes, the granularity of the cron expressions
    jobs,     \* procrastinate_jobs
    events,   \* procrastinate_events, per job in id order
    defers,   \* procrastinate_periodic_defers
    workers,  \* procrastinate_workers: is last_heartbeat within the timeout
    proc,     \* the worker processes
    faults    \* number of stalls, kills, stops and acts of the operator so far

vars == <<clock, jobs, events, defers, workers, proc, faults>>

--------------------------------------------------------------------------------
\* A row of procrastinate_jobs, with its task_name and args["timestamp"] as one
\* tick for periodic jobs.  "absent" is no row yet, "deleted" a row that is gone.
Job == [status : Statuses \cup {"absent", "deleted"},
        lock : {d.lock : d \in Deferrals} \cup {None},
        queueing : {d.queueing : d \in Deferrals} \cup {None},
        priority : Int, scheduled : Nat \cup {None}, attempts : Nat,
        abort : BOOLEAN, worker : WorkerIds \cup {None},
        tick : (Tasks \X Ticks) \cup {None}]

NoRow == [status |-> "absent", lock |-> None, queueing |-> None, priority |-> 0,
          scheduled |-> None, attempts |-> 0, abort |-> FALSE, worker |-> None,
          tick |-> None]

\* The local state of a worker process: its row id, the tick its deferrer last
\* woke for, ticks it has still to defer, the row its fetch has locked, the job
\* it runs.
Dead == [id |-> None, seen |-> None, due |-> {}, fetching |-> None, job |-> None]
Process == [id : WorkerIds \cup {None}, seen : Ticks \cup {None},
            due : SUBSET (Tasks \X Ticks), fetching : JobIds \cup {None},
            job : JobIds \cup {None}]

TypeOK ==
    /\ clock \in Ticks
    /\ jobs \in [JobIds -> Job]
    /\ events \in [JobIds -> Seq(EventTypes)]
    /\ defers \subseteq [task : Tasks, at : Ticks, job : JobIds \cup {None}]
    /\ workers \in [WorkerIds -> {"none", "fresh", "stalled"}]
    /\ proc \in [Workers -> Process]
    /\ faults \in Nat

Init ==
    /\ clock = 0
    /\ jobs = [j \in JobIds |-> NoRow]
    /\ events = [j \in JobIds |-> <<>>]
    /\ defers = {}
    /\ workers = [i \in WorkerIds |-> "none"]
    /\ proc = [w \in Workers |-> Dead]
    /\ faults = 0

--------------------------------------------------------------------------------
(* Triggers and indexes.                                                   *)

\* Mutant of StatusEvent: no event for a failed job that is retried.
StatusEventNoRetry(old, new) ==
    CASE old = "todo" /\ new = "doing" -> <<"started">>
      [] old = "doing" /\ new = "todo" -> <<"deferred_for_retry">>
      [] old = "doing" /\ new \in {"failed", "succeeded", "aborted"} -> <<new>>
      [] old = "todo" /\ new \in {"cancelled", "failed", "succeeded"} -> <<"cancelled">>
      [] OTHER -> <<>>

\* procrastinate_trigger_function_status_events_update_v1.
StatusEvent(old, new) ==
    CASE old = "todo" /\ new = "doing" -> <<"started">>
      [] old = "doing" /\ new = "todo" -> <<"deferred_for_retry">>
      [] old = "doing" /\ new \in {"failed", "succeeded", "aborted"} -> <<new>>
      [] old = "todo" /\ new \in {"cancelled", "failed", "succeeded"} -> <<"cancelled">>
      [] old = "failed" /\ new = "todo" -> <<"retried">>
      [] OTHER -> <<>>

\* procrastinate_trigger_scheduled_events_v1.
ScheduledEvent(row) ==
    IF row.scheduled # None /\ row.status = "todo" THEN <<"scheduled">> ELSE <<>>

\* An UPDATE of one row and its triggers, in the order of their names.
UpdateRow(j, row, abortEvent) ==
    /\ jobs' = [jobs EXCEPT ![j] = row]
    /\ events' = [events EXCEPT ![j] =
          @ \o abortEvent \o ScheduledEvent(row) \o StatusEvent(jobs[j].status, row.status)]

\* procrastinate_jobs_queueing_lock_idx_v1 and procrastinate_jobs_lock_idx_v1: may a
\* row with these values be in status todo, in status doing.
TodoUnique(q) == q = None \/ \A j \in JobIds : ~(jobs[j].status = "todo" /\ jobs[j].queueing = q)
DoingUnique(l) == l = None \/ \A j \in JobIds : ~(jobs[j].status = "doing" /\ jobs[j].lock = l)

\* An UPDATE or DELETE of a row waits for the transaction that has locked it.
Unlocked(j) == \A w \in Workers : proc[w].fetching # j

--------------------------------------------------------------------------------
(* Deferring.                                                              *)

Absent == {j \in JobIds : jobs[j].status = "absent"}

\* procrastinate_defer_jobs_v1 for one job, and the insert triggers: the next id of
\* the sequence.
DeferJob(d, tick) ==
    LET j == CHOOSE j \in Absent : \A k \in Absent : j <= k IN
    /\ Absent # {}
    /\ TodoUnique(d.queueing)
    /\ jobs' = [jobs EXCEPT ![j] = [NoRow EXCEPT !.status = "todo", !.lock = d.lock,
                                                 !.queueing = d.queueing,
                                                 !.priority = d.priority,
                                                 !.tick = tick]]
    /\ events' = [events EXCEPT ![j] = <<"deferred">>]

\* defer_manual_sync, or one defer_async of the fan-out.
Defer(d) ==
    /\ DeferJob(d, None)
    /\ UNCHANGED <<clock, defers, workers, proc, faults>>

Plain == [lock |-> None, queueing |-> None, priority |-> 0]

\* Mutant of DeferPeriodicJob: without ON CONFLICT DO NOTHING on the unique tick.
DeferPeriodicJobAlways(w, task, t) ==
    /\ <<task, t>> \in proc[w].due
    /\ proc' = [proc EXCEPT ![w].due = @ \ {<<task, t>>}]
    /\ DeferJob(Plain, <<task, t>>)
    /\ UNCHANGED <<clock, defers, workers, faults>>

\* procrastinate_defer_periodic_job_v2 for a tick the worker has read: nothing if
\* the tick has a row, else the row, its job, and the rows of earlier ticks go.
DeferPeriodicJob(w, task, t) ==
    /\ <<task, t>> \in proc[w].due
    /\ proc' = [proc EXCEPT ![w].due = @ \ {<<task, t>>}]
    /\ IF \E d \in defers : d.task = task /\ d.at = t
       THEN UNCHANGED <<jobs, events, defers>>
       ELSE /\ DeferJob(Plain, <<task, t>>)
            /\ LET new == [task |-> task, at |-> t,
                           job |-> CHOOSE j \in Absent : j \notin {k \in JobIds : jobs'[k].status = "absent"}]
               IN defers' = {d \in defers \cup {new} : ~(d.task = task /\ d.at < t)}
    /\ UNCHANGED <<clock, workers, faults>>

--------------------------------------------------------------------------------
(* The life of a worker process.                                           *)

Alive(w) == proc[w].id # None

\* What the runs bound: a stall, a kill, a stop or an act of the operator.
Disturb == faults < MaxFaults /\ faults' = faults + 1

RowOf(w) == workers[proc[w].id]

\* procrastinate_register_worker_v1: an id no row and no process has.
RegisterWorker(w) ==
    /\ ~Alive(w)
    /\ \E i \in WorkerIds :
         /\ workers[i] = "none"
         /\ \A x \in Workers : proc[x].id # i
         /\ \A k \in WorkerIds : k < i => workers[k] # "none" \/ \E x \in Workers : proc[x].id = k
         /\ workers' = [workers EXCEPT ![i] = "fresh"]
         /\ proc' = [proc EXCEPT ![w] = [Dead EXCEPT !.id = i]]
    /\ UNCHANGED <<clock, jobs, events, defers, faults>>

\* Rows of procrastinate_workers are deleted; jobs.worker_id is ON DELETE SET NULL.
DeleteWorkers(gone) ==
    /\ workers' = [i \in WorkerIds |-> IF i \in gone THEN "none" ELSE workers[i]]
    /\ jobs' = [j \in JobIds |-> IF jobs[j].worker \in gone
                                 THEN [jobs[j] EXCEPT !.worker = None] ELSE jobs[j]]

\* A clean stop between jobs: procrastinate_unregister_worker_v1.
UnregisterWorker(w) ==
    /\ Alive(w) /\ proc[w].job = None /\ proc[w].fetching = None
    /\ Disturb
    /\ DeleteWorkers({proc[w].id})
    /\ proc' = [proc EXCEPT ![w] = Dead]
    /\ UNCHANGED <<clock, events, defers>>

\* The process is killed: its transaction, its deferrer and its job are gone, its
\* row and the status of its job stay.
Kill(w) ==
    /\ Alive(w)
    /\ Disturb
    /\ proc' = [proc EXCEPT ![w] = Dead]
    /\ UNCHANGED <<clock, jobs, events, defers, workers>>

\* A heartbeat grows older than the timeout: its process is dead, or stalls.
Lapse(i) ==
    /\ workers[i] = "fresh"
    /\ workers' = [workers EXCEPT ![i] = "stalled"]
    /\ IF \E w \in Workers : proc[w].id = i
       THEN Disturb
       ELSE UNCHANGED faults
    /\ UNCHANGED <<clock, jobs, events, defers, proc>>

\* procrastinate_update_heartbeat_v1; it finds no row where the worker was pruned.
UpdateHeartbeat(w) ==
    /\ Alive(w)
    /\ RowOf(w) = "stalled"
    /\ workers' = [workers EXCEPT ![proc[w].id] = "fresh"]
    /\ UNCHANGED <<clock, jobs, events, defers, proc, faults>>

\* procrastinate_prune_stalled_workers_v1, called by a worker beside its heartbeat.
PruneStalledWorkers(w) ==
    LET stalled == {i \in WorkerIds : workers[i] = "stalled"} IN
    /\ Alive(w)
    /\ stalled # {}
    /\ DeleteWorkers(stalled)
    /\ UNCHANGED <<clock, events, defers, proc, faults>>

Tick ==
    /\ clock < MaxTick
    /\ clock' = clock + 1
    /\ UNCHANGED <<jobs, events, defers, workers, proc, faults>>

\* The periodic deferrer of a worker wakes: the last tick for a new process, every
\* tick since the last it woke for otherwise.
Wake(w) ==
    LET first == IF proc[w].seen = None THEN clock ELSE proc[w].seen + 1 IN
    /\ Alive(w) /\ Tasks # {}
    /\ proc[w].seen # clock
    /\ proc' = [proc EXCEPT ![w].seen = clock,
                            ![w].due = @ \cup (Tasks \X (first..clock))]
    /\ UNCHANGED <<clock, jobs, events, defers, workers, faults>>

--------------------------------------------------------------------------------
(* Running jobs.                                                           *)

Before(j, k) ==
    \/ jobs[j].priority > jobs[k].priority
    \/ jobs[j].priority = jobs[k].priority /\ j < k

\* Mutant of Candidates: two jobs without a lock count as having the same lock.
CandidatesNullLocks ==
    {j \in JobIds :
        /\ jobs[j].status = "todo"
        /\ jobs[j].scheduled = None \/ jobs[j].scheduled <= clock
        /\ ~\E k \in JobIds :
              /\ jobs[k].lock = jobs[j].lock
              /\ jobs[k].status = "doing" \/ (jobs[k].status = "todo" /\ Before(k, j))}

\* The candidates of procrastinate_fetch_job_v2, on committed rows.
Candidates ==
    {j \in JobIds :
        /\ jobs[j].status = "todo"
        /\ jobs[j].scheduled = None \/ jobs[j].scheduled <= clock
        /\ ~\E k \in JobIds :
              /\ jobs[j].lock # None /\ jobs[k].lock = jobs[j].lock
              /\ jobs[k].status = "doing" \/ (jobs[k].status = "todo" /\ Before(k, j))}

\* Mutant of FetchLock: a row another fetch has locked is taken as well.
FetchLockShared(w) ==
    /\ Alive(w) /\ proc[w].job = None /\ proc[w].fetching = None
    /\ \E j \in Candidates :
         /\ \A k \in Candidates \ {j} : Before(j, k)
         /\ proc' = [proc EXCEPT ![w].fetching = j]
    /\ UNCHANGED <<clock, jobs, events, defers, workers, faults>>

\* Its SELECT ... LIMIT 1 FOR UPDATE SKIP LOCKED.
FetchLock(w) ==
    LET free == {j \in Candidates : Unlocked(j)} IN
    /\ Alive(w) /\ proc[w].job = None /\ proc[w].fetching = None
    /\ \E j \in free :
         /\ \A k \in free \ {j} : Before(j, k)
         /\ proc' = [proc EXCEPT ![w].fetching = j]
    /\ UNCHANGED <<clock, jobs, events, defers, workers, faults>>

\* The update passes the foreign key of worker_id and the unique index on locks.
Accepted(w, j) == RowOf(w) # "none" /\ DoingUnique(jobs[j].lock)

\* Its UPDATE, and the commit.
FetchCommit(w) ==
    LET j == proc[w].fetching IN
    /\ j # None
    /\ Accepted(w, j)
    /\ UpdateRow(j, [jobs[j] EXCEPT !.status = "doing", !.worker = proc[w].id], <<>>)
    /\ proc' = [proc EXCEPT ![w].fetching = None, ![w].job = j]
    /\ UNCHANGED <<clock, defers, workers, faults>>

\* The update is refused: the fetch raises, which ends the worker process.
FetchRefused(w) ==
    /\ proc[w].fetching # None
    /\ ~Accepted(w, proc[w].fetching)
    /\ DeleteWorkers({proc[w].id})
    /\ proc' = [proc EXCEPT ![w] = Dead]
    /\ UNCHANGED <<clock, events, defers, faults>>

\* procrastinate_finish_job_v1 when the task returns or raises; a task that was
\* asked to abort may end as aborted.  The worker never asks for deletion.
FinishJob(w, end) ==
    LET j == proc[w].job IN
    /\ j # None
    /\ end = "aborted" => jobs[j].abort
    /\ jobs[j].status \in {"todo", "doing"}
    /\ UpdateRow(j, [jobs[j] EXCEPT !.status = end, !.abort = FALSE,
                        !.attempts = IF jobs[j].status = "doing" THEN @ + 1 ELSE @], <<>>)
    /\ proc' = [proc EXCEPT ![w].job = None]
    /\ UNCHANGED <<clock, defers, workers, faults>>

--------------------------------------------------------------------------------
(* The operator.                                                           *)

\* procrastinate_cancel_job_v1 with delete_job on a waiting job: the row goes, with
\* its events, and procrastinate_unlink_periodic_defers_v1 keeps the tick's row.
DeleteJob(j) ==
    /\ jobs[j].status = "todo" /\ Unlocked(j)
    /\ jobs' = [jobs EXCEPT ![j].status = "deleted"]
    /\ events' = [events EXCEPT ![j] = <<>>]
    /\ defers' = {[d EXCEPT !.job = IF @ = j THEN None ELSE @] : d \in defers}
    /\ Disturb
    /\ UNCHANGED <<clock, workers, proc>>

\* Mutant of CancelJob: a running job is cancelled like a waiting one.
CancelJobRunning(j, abort) ==
    /\ jobs[j].status \in IF abort THEN {"todo", "doing"} ELSE {"todo"}
    /\ Unlocked(j)
    /\ UpdateRow(j, [jobs[j] EXCEPT !.abort = @ \/ abort, !.status = "cancelled"],
                 IF abort THEN <<"abort_requested">> ELSE <<>>)
    /\ Disturb
    /\ UNCHANGED <<clock, defers, workers, proc>>

\* procrastinate_cancel_job_v1 without it: a waiting job is cancelled, a running one
\* is only asked to stop.
CancelJob(j, abort) ==
    /\ jobs[j].status \in IF abort THEN {"todo", "doing"} ELSE {"todo"}
    /\ Unlocked(j)
    /\ UpdateRow(j, [jobs[j] EXCEPT !.abort = @ \/ abort,
                        !.status = IF @ = "todo" THEN "cancelled" ELSE @],
                 IF abort THEN <<"abort_requested">> ELSE <<>>)
    /\ Disturb
    /\ UNCHANGED <<clock, defers, workers, proc>>

\* procrastinate_retry_job_v2, now or for the next minute, of a job that has failed
\* or that a dead worker left in status doing.  One that was asked to abort fails
\* instead, and check_not_todo_abort_requested keeps it so.
RetryJob(j, at) ==
    /\ jobs[j].status \in {"failed", "doing"}
    /\ \A w \in Workers : proc[w].job # j
    /\ IF jobs[j].status = "doing" /\ jobs[j].abort
       THEN UpdateRow(j, [jobs[j] EXCEPT !.status = "failed"], <<>>)
       ELSE /\ ~jobs[j].abort
            /\ TodoUnique(jobs[j].queueing)
            /\ UpdateRow(j, [jobs[j] EXCEPT !.status = "todo", !.attempts = @ + 1,
                                            !.scheduled = at], <<>>)
    /\ Disturb
    /\ UNCHANGED <<clock, defers, workers, proc>>

--------------------------------------------------------------------------------
Run(w) == \E end \in {"succeeded", "failed", "aborted"} : FinishJob(w, end)

Next ==
    \/ Tick
    \/ \E d \in Deferrals : Defer(d)
    \/ \E i \in WorkerIds : Lapse(i)
    \/ \E w \in Workers :
         \/ RegisterWorker(w) \/ UnregisterWorker(w) \/ Kill(w)
         \/ UpdateHeartbeat(w) \/ PruneStalledWorkers(w)
         \/ Wake(w)
         \/ \E task \in Tasks, t \in Ticks : DeferPeriodicJob(w, task, t)
         \/ FetchLock(w) \/ FetchCommit(w) \/ FetchRefused(w) \/ Run(w)
    \/ \E j \in JobIds :
         \/ DeleteJob(j)
         \/ \E abort \in BOOLEAN : CancelJob(j, abort)
         \/ \E at \in {clock, clock + 1} \cap Ticks : RetryJob(j, at)

Spec == Init /\ [][Next]_vars

\* The platform restarts a worker that ended, a worker polls as long as it lives,
\* and a task returns or raises.
Fairness ==
    /\ WF_vars(Tick)
    /\ \A w \in Workers :
         /\ WF_vars(RegisterWorker(w))
         /\ WF_vars(FetchLock(w)) /\ WF_vars(FetchCommit(w) \/ FetchRefused(w))
         /\ WF_vars(Run(w))

FairSpec == Spec /\ Fairness

--------------------------------------------------------------------------------
(* Properties.                                                             *)

\* A job is run by one worker at a time, and it is in status doing then, whatever
\* fetches, cancellations, retries, prunings and deaths of workers overlap.
OneRunner ==
    \A w, x \in Workers : proc[w].job # None =>
        /\ jobs[proc[w].job].status = "doing"
        /\ w # x => proc[x].job # proc[w].job

StatusAfter(e) ==
    CASE e \in {"deferred", "deferred_for_retry", "retried"} -> "todo"
      [] e = "started" -> "doing"
      [] OTHER -> e

\* The log tells the truth: the last event of a job that is about its status names
\* the status it has.
EventsTellStatus ==
    \A j \in JobIds : jobs[j].status \notin {"absent", "deleted"} =>
        \E i \in DOMAIN events[j] :
            /\ StatusAfter(events[j][i]) = jobs[j].status
            /\ \A k \in i + 1 .. Len(events[j]) :
                  events[j][k] \in {"scheduled", "abort_requested"}

\* D6-01: a tick fires twice only where a worker defers it after another worker has
\* deferred a later one, whose job lies between the two.
DoubleFireOnlyLate ==
    \A j, k \in JobIds : j < k /\ jobs[j].tick # None /\ jobs[j].tick = jobs[k].tick =>
        \E i \in j + 1 .. k - 1 :
            /\ jobs[i].tick # None
            /\ jobs[i].tick[1] = jobs[j].tick[1]
            /\ jobs[i].tick[2] > jobs[j].tick[2]

\* A job without a lock does not wait for ever, whatever happens to the workers.
WaitingJobStarts ==
    \A j \in JobIds :
        jobs[j].status = "todo" /\ jobs[j].lock = None ~> jobs[j].status # "todo"

Phase(status) ==
    CASE status = "absent" -> "none"
      [] status = "todo" -> "waiting"
      [] status = "doing" -> "running"
      [] OTHER -> "ended"

\* The job table is a board: a fetch is one step, and heartbeats, pruning, ticks,
\* events and requests to abort are none.
Board == INSTANCE JobBoard WITH
    board <- [j \in JobIds |-> Phase(jobs[j].status)],
    hand <- [w \in Workers |-> proc[w].job]
ImplementsBoard == Board!Spec
================================================================================
