---------------------------- MODULE JobQueue_proofs -----------------------------
(***************************************************************************)
(* Proofs about the job table, for any number of workers, jobs, ticks and  *)
(* disturbances: types, one runner per job, the event log, the uniqueness  *)
(* of ticks, and that the table implements JobBoard.                       *)
(***************************************************************************)
EXTENDS JobQueue, TLAPS

\* A process that is gone has nothing, one that fetches runs nothing, a row it has
\* locked still waits, and no two fetches have locked one row.
Fetches ==
    /\ \A w \in Workers : ~Alive(w) => proc[w] = Dead
    /\ \A w \in Workers : proc[w].fetching # None =>
          proc[w].job = None /\ jobs[proc[w].fetching].status = "todo"
    /\ \A w, x \in Workers :
          proc[w].fetching # None /\ proc[w].fetching = proc[x].fetching => w = x

\* Ids are given in order, and a row that does not exist yet has no tick.
InOrder ==
    /\ \E n \in 1 .. MaxJobs + 1 : \A j \in JobIds : jobs[j].status = "absent" <=> n <= j
    /\ \A j \in JobIds : jobs[j].status = "absent" => jobs[j].tick = None

\* A tick that has fired has its row, or a later tick of its task has fired since.
FiredKept ==
    \A j \in JobIds : jobs[j].tick # None =>
        \/ \E d \in defers : d.task = jobs[j].tick[1] /\ d.at = jobs[j].tick[2]
        \/ \E i \in JobIds : /\ j < i /\ jobs[i].tick # None
                             /\ jobs[i].tick[1] = jobs[j].tick[1]
                             /\ jobs[i].tick[2] > jobs[j].tick[2]

--------------------------------------------------------------------------------
(* Values and their types.                                                 *)

LogTypes == events \in [JobIds -> Seq(EventTypes)]
RowTypes ==
    /\ clock \in Ticks
    /\ jobs \in [JobIds -> Job]
    /\ defers \subseteq [task : Tasks, at : Ticks, job : JobIds \cup {None}]
    /\ workers \in [WorkerIds -> {"none", "fresh", "stalled"}]
    /\ proc \in [Workers -> Process]
    /\ faults \in Nat

\* The type invariant without and with the event log.
LEMMA TypeParts == TypeOK <=> RowTypes /\ LogTypes
BY DEF TypeOK, RowTypes, LogTypes

\* The values that begin a row and a process, and None apart from the ids.
LEMMA Basics ==
    /\ NoRow \in Job /\ Dead \in Process
    /\ JobIds \subseteq Nat /\ Ticks \subseteq Nat
    /\ None \notin JobIds /\ None \notin WorkerIds /\ None \notin Ticks
BY JobQueueAssumption DEF NoRow, Job, Dead, Process, JobIds, Ticks, Statuses

\* What a caller may put into a row.
Caller(d) ==
    /\ d.lock \in {e.lock : e \in Deferrals} \cup {None}
    /\ d.queueing \in {e.queueing : e \in Deferrals} \cup {None}
    /\ d.priority \in Int

\* The row an insert creates.
NewRow(d, tick) == [NoRow EXCEPT !.status = "todo", !.lock = d.lock, !.queueing = d.queueing,
                                 !.priority = d.priority, !.tick = tick]

\* The fields of a new row.
LEMMA NewRowTyped ==
    ASSUME NEW d, Caller(d), NEW tick \in (Tasks \X Ticks) \cup {None}
    PROVE  /\ NewRow(d, tick) \in Job
           /\ NewRow(d, tick).status = "todo" /\ NewRow(d, tick).tick = tick
BY Basics DEF NewRow, NoRow, Job, Caller, Statuses

\* procrastinate_defer_jobs_v1 takes the least id that has no row yet.
LEMMA DeferFacts ==
    ASSUME InOrder, NEW d, NEW tick, DeferJob(d, tick)
    PROVE  \E j \in JobIds :
              /\ \A k \in JobIds : jobs[k].status = "absent" <=> j <= k
              /\ jobs' = [jobs EXCEPT ![j] = NewRow(d, tick)]
              /\ events' = [events EXCEPT ![j] = <<"deferred">>]
<1> DEFINE j == CHOOSE j \in Absent : \A k \in Absent : j <= k
<1>1. PICK n \in 1 .. MaxJobs + 1 : \A k \in JobIds : jobs[k].status = "absent" <=> n <= k
    BY DEF InOrder
<1>2. PICK m \in Absent : TRUE
    BY DEF DeferJob
<1>3. n \in Absent /\ \A k \in Absent : n <= k
    BY <1>1, <1>2, JobQueueAssumption DEF Absent, JobIds
<1>4. j \in Absent /\ \A k \in Absent : j <= k
    BY <1>3
<1> HIDE DEF j
<1>5. j = n
    <2>1. j \in Int /\ n \in Int /\ j <= n /\ n <= j
        BY <1>3, <1>4, Basics DEF Absent
    <2> QED BY <2>1
<1>6. /\ jobs' = [jobs EXCEPT ![j] = NewRow(d, tick)]
      /\ events' = [events EXCEPT ![j] = <<"deferred">>]
    BY DEF DeferJob, NewRow, j
<1> QED BY <1>1, <1>4, <1>5, <1>6 DEF Absent

--------------------------------------------------------------------------------
(* The event log.                                                          *)

\* Events that say nothing of a job's status.
Quiet == {"scheduled", "abort_requested"}

\* The last event that does says it is st.
Tells(s, st) ==
    \E i \in DOMAIN s : /\ StatusAfter(s[i]) = st
                        /\ \A k \in i + 1 .. Len(s) : s[k] \in Quiet

\* EventsTellStatus, row by row.
LEMMA TellsRow ==
    EventsTellStatus <=>
        \A j \in JobIds : jobs[j].status \notin {"absent", "deleted"} =>
            Tells(events[j], jobs[j].status)
BY DEF EventsTellStatus, Tells, Quiet

\* Quiet events change nothing of what a log tells.
LEMMA TellsQuiet ==
    ASSUME NEW s \in Seq(EventTypes), NEW t \in Seq(Quiet), NEW st, Tells(s, st)
    PROVE  Tells(s \o t, st)
<1>1. PICK i \in 1 .. Len(s) : /\ StatusAfter(s[i]) = st
                               /\ \A k \in i + 1 .. Len(s) : s[k] \in Quiet
    BY DEF Tells
<1>2. /\ Len(s \o t) = Len(s) + Len(t) /\ DOMAIN (s \o t) = 1 .. Len(s) + Len(t)
      /\ \A k \in 1 .. Len(s) : (s \o t)[k] = s[k]
      /\ \A k \in Len(s) + 1 .. Len(s) + Len(t) : (s \o t)[k] = t[k - Len(s)]
    OBVIOUS
<1>3. \A k \in i + 1 .. Len(s \o t) : (s \o t)[k] \in Quiet
    <2> SUFFICES ASSUME NEW k \in i + 1 .. Len(s \o t) PROVE (s \o t)[k] \in Quiet
        OBVIOUS
    <2>1. CASE k <= Len(s)
        BY <1>1, <1>2, <2>1
    <2>2. CASE k > Len(s)
        <3>1. k - Len(s) \in 1 .. Len(t) /\ (s \o t)[k] = t[k - Len(s)]
            BY <1>2, <2>2
        <3> QED BY <3>1
    <2> QED BY <2>1, <2>2
<1> QED BY <1>1, <1>2, <1>3 DEF Tells

\* The newest event, when it is about the status, tells it.
LEMMA TellsLast ==
    ASSUME NEW s \in Seq(EventTypes), NEW e \in EventTypes
    PROVE  Tells(s \o <<e>>, StatusAfter(e))
<1>1. /\ Len(s \o <<e>>) = Len(s) + 1 /\ Len(s) + 1 \in DOMAIN (s \o <<e>>)
      /\ (s \o <<e>>)[Len(s) + 1] = e
    OBVIOUS
<1>2. (Len(s) + 1) + 1 .. Len(s \o <<e>>) = {}
    BY <1>1
<1> QED BY <1>1, <1>2 DEF Tells

\* A status event is none or one, and the two quiet ones are quiet.
LEMMA EventsTyped ==
    /\ \A row : ScheduledEvent(row) \in Seq(Quiet)
    /\ <<>> \in Seq(Quiet) /\ <<"abort_requested">> \in Seq(Quiet)
    /\ <<"deferred">> \in Seq(EventTypes)
<1>1. /\ <<>> \in Seq(Quiet) /\ <<"abort_requested">> \in Seq(Quiet)
      /\ <<"scheduled">> \in Seq(Quiet) /\ <<"deferred">> \in Seq(EventTypes)
    BY DEF EventTypes, Quiet
<1>2. \A row : ScheduledEvent(row) \in Seq(Quiet)
    BY <1>1 DEF ScheduledEvent
<1> QED BY <1>1, <1>2

\* The changes of status the trigger has an event for, and that event's name.
Named(old, new) ==
    CASE old = "todo" /\ new = "doing" -> "started"
      [] old = "doing" /\ new = "todo" -> "deferred_for_retry"
      [] old = "failed" /\ new = "todo" -> "retried"
      [] OTHER -> new
Logged(old, new) ==
    \/ old = "todo" /\ new \in {"doing", "cancelled"}
    \/ old = "doing" /\ new \in {"todo", "failed", "succeeded", "aborted"}
    \/ old = "failed" /\ new = "todo"

\* The trigger's event names the status the row has got.
LEMMA NamedTells ==
    ASSUME NEW old, NEW new, Logged(old, new)
    PROVE  /\ Named(old, new) \in EventTypes
           /\ StatusEvent(old, new) = <<Named(old, new)>>
           /\ StatusAfter(Named(old, new)) = new
BY DEF Logged, Named, StatusEvent, StatusAfter, EventTypes

\* An UPDATE with its triggers keeps the log true, if the trigger knows the change
\* of status or there is none.
LEMMA UpdateTells ==
    ASSUME RowTypes, LogTypes, EventsTellStatus,
           NEW j \in JobIds, NEW row \in Job, NEW abortEvent \in Seq(Quiet),
           UpdateRow(j, row, abortEvent),
           \/ row.status = jobs[j].status
           \/ Logged(jobs[j].status, row.status)
    PROVE  LogTypes' /\ EventsTellStatus'
<1> DEFINE old == jobs[j].status
           new == row.status
           s == events[j] \o abortEvent
           t == s \o ScheduledEvent(row)
<1>1. /\ jobs' = [jobs EXCEPT ![j] = row] /\ jobs'[j] = row
      /\ \A k \in JobIds \ {j} : jobs'[k] = jobs[k]
    BY DEF UpdateRow, RowTypes
<1>2. Quiet \subseteq EventTypes
    BY DEF Quiet, EventTypes
<1>3. s \in Seq(EventTypes)
    <2>1. events[j] \in Seq(EventTypes) /\ abortEvent \in Seq(EventTypes)
        BY <1>2 DEF LogTypes
    <2> QED BY <2>1
<1>4. events' = [events EXCEPT ![j] = t \o StatusEvent(old, new)]
    BY DEF UpdateRow
<1>5. old \notin {"absent", "deleted"} => Tells(s, old)
    BY TellsQuiet, TellsRow DEF LogTypes
<1> HIDE DEF s
<1>6. t \in Seq(EventTypes)
    <2>1. ScheduledEvent(row) \in Seq(EventTypes)
        BY <1>2, EventsTyped
    <2> QED BY <1>3, <2>1
<1>7. old \notin {"absent", "deleted"} => Tells(t, old)
    BY <1>3, <1>5, TellsQuiet, EventsTyped
<1> HIDE DEF t
<1>8. events'[j] = t \o StatusEvent(old, new) /\ \A k \in JobIds \ {j} : events'[k] = events[k]
    BY <1>4 DEF LogTypes
<1>9. /\ events'[j] \in Seq(EventTypes)
      /\ new \notin {"absent", "deleted"} => Tells(events'[j], new)
    <2>1. CASE Logged(old, new)
        <3> DEFINE e == Named(old, new)
        <3>1. e \in EventTypes /\ StatusEvent(old, new) = <<e>> /\ StatusAfter(e) = new
            BY <2>1, NamedTells
        <3> HIDE DEF e, old, new
        <3>2. events'[j] = t \o <<e>>
            BY <1>8, <3>1
        <3>3. Tells(t \o <<e>>, StatusAfter(e))
            BY <1>6, <3>1, TellsLast
        <3>4. t \o <<e>> \in Seq(EventTypes)
            BY <1>6, <3>1
        <3> QED BY <3>1, <3>2, <3>3, <3>4
    <2>2. CASE new = old
        <3>1. StatusEvent(old, new) = <<>>
            BY <2>2 DEF StatusEvent
        <3>2. events'[j] = t
            BY <1>6, <1>8, <3>1
        <3> QED BY <1>6, <1>7, <2>2, <3>2
    <2> QED BY <2>1, <2>2
<1>10. \A k \in JobIds : jobs'[k].status \notin {"absent", "deleted"} =>
            Tells(events'[k], jobs'[k].status)
    BY <1>1, <1>8, <1>9, TellsRow
<1>11. EventsTellStatus'
    BY <1>10 DEF EventsTellStatus, Tells, Quiet
<1>12. LogTypes'
    BY <1>4, <1>9 DEF LogTypes
<1> QED BY <1>11, <1>12

--------------------------------------------------------------------------------
(* The inductive invariant, step by step.                                  *)

Log == LogTypes /\ EventsTellStatus
Hands == Fetches /\ OneRunner
Fired == InOrder /\ FiredKept /\ DoubleFireOnlyLate
IInv == RowTypes /\ Log /\ Hands /\ Fired

\* No row appears, no tick changes, and no row of procrastinate_periodic_defers goes.
LEMMA FiredStays ==
    ASSUME Fired,
           \A j \in JobIds : /\ jobs'[j].tick = jobs[j].tick
                             /\ jobs'[j].status = "absent" <=> jobs[j].status = "absent",
           \A d \in defers : \E e \in defers' : e.task = d.task /\ e.at = d.at
    PROVE  Fired'
<1>1. InOrder'
    BY DEF Fired, InOrder
<1>2. FiredKept'
    BY DEF Fired, FiredKept
<1>3. DoubleFireOnlyLate'
    <2>1. \A j, k \in JobIds : \A i \in j + 1 .. k - 1 : i \in JobIds
        BY JobQueueAssumption DEF JobIds
    <2> QED BY <2>1 DEF Fired, DoubleFireOnlyLate
<1> QED BY <1>1, <1>2, <1>3 DEF Fired

\* What a step does not touch keeps its part of the invariant.
LEMMA LogStays ==
    ASSUME Log, events' = events,
           \A j \in JobIds : jobs'[j].status = jobs[j].status
    PROVE  Log'
BY DEF Log, LogTypes, EventsTellStatus

\* The same for the processes' hands, when statuses and ids stay.
LEMMA HandsStay ==
    ASSUME RowTypes, Hands,
           \A j \in JobIds : jobs'[j].status = jobs[j].status,
           \A w \in Workers : /\ proc'[w].fetching = proc[w].fetching
                              /\ proc'[w].job = proc[w].job
                              /\ proc'[w].id = proc[w].id,
           \A w \in Workers : ~Alive(w) => proc'[w] = proc[w]
    PROVE  Hands'
<1>1. \A w \in Workers : /\ proc[w].fetching \in JobIds \cup {None}
                         /\ proc[w].job \in JobIds \cup {None}
    BY DEF RowTypes, Process
<1>2. Fetches'
    BY <1>1 DEF Hands, Fetches, Alive
<1>3. OneRunner'
    BY <1>1 DEF Hands, OneRunner
<1> QED BY <1>2, <1>3 DEF Hands

\* The statuses of jobs nobody has fetched or runs may change.
LEMMA LooseStep ==
    ASSUME RowTypes, Hands, NEW j \in JobIds, Unlocked(j),
           \A w \in Workers : proc[w].job # j,
           \A k \in JobIds \ {j} : jobs'[k].status = jobs[k].status,
           proc' = proc
    PROVE  Hands'
<1>1. \A w \in Workers : /\ proc[w].fetching \in JobIds \cup {None}
                         /\ proc[w].job \in JobIds \cup {None}
    BY DEF RowTypes, Process
<1>2. Fetches'
    BY <1>1 DEF Hands, Fetches, Alive, Unlocked
<1>3. OneRunner'
    BY <1>1 DEF Hands, OneRunner
<1> QED BY <1>2, <1>3 DEF Hands

\* Time, heartbeats and wake-ups.
LEMMA QuietStep ==
    ASSUME IInv,
           \/ Tick
           \/ \E i \in WorkerIds : Lapse(i)
           \/ \E w \in Workers : UpdateHeartbeat(w) \/ Wake(w)
    PROVE  IInv'
<1>1. jobs' = jobs /\ events' = events /\ defers' = defers
    BY DEF Tick, Lapse, UpdateHeartbeat, Wake
<1>2. RowTypes'
    <2>1. CASE Tick
        BY <2>1, JobQueueAssumption DEF IInv, RowTypes, Tick, Ticks
    <2>2. ASSUME NEW i \in WorkerIds, Lapse(i) PROVE RowTypes'
        BY <2>2 DEF IInv, RowTypes, Lapse, Disturb
    <2>3. ASSUME NEW w \in Workers, UpdateHeartbeat(w) PROVE RowTypes'
        BY <2>3 DEF IInv, RowTypes, UpdateHeartbeat, RowOf
    <2>4. ASSUME NEW w \in Workers, Wake(w) PROVE RowTypes'
        <3> DEFINE first == IF proc[w].seen = None THEN clock ELSE proc[w].seen + 1
        <3>1. clock \in Ticks /\ proc[w] \in Process /\ proc \in [Workers -> Process]
            BY DEF IInv, RowTypes
        <3>2. first .. clock \subseteq Ticks
            BY <3>1, JobQueueAssumption DEF Process, Ticks
        <3>3. proc' = [proc EXCEPT ![w].seen = clock,
                                   ![w].due = @ \cup (Tasks \X (first..clock))]
            BY <2>4 DEF Wake
        <3> HIDE DEF first
        <3>4. proc' \in [Workers -> Process]
            BY <3>1, <3>2, <3>3 DEF Process
        <3> QED BY <2>4, <3>4 DEF IInv, RowTypes, Wake
    <2> QED BY <2>1, <2>2, <2>3, <2>4
<1>3. Hands'
    <2>1. /\ \A w \in Workers : /\ proc'[w].fetching = proc[w].fetching
                                /\ proc'[w].job = proc[w].job
                                /\ proc'[w].id = proc[w].id
          /\ \A w \in Workers : ~Alive(w) => proc'[w] = proc[w]
        <3>1. CASE \E w \in Workers : Wake(w)
            BY <3>1 DEF Wake, IInv, RowTypes, Process, Alive
        <3>2. CASE proc' = proc
            BY <3>2
        <3> QED BY <3>1, <3>2 DEF Tick, Lapse, UpdateHeartbeat
    <2> QED BY <1>1, <2>1, HandsStay DEF IInv
<1>4. Log' /\ Fired'
    BY <1>1, LogStays, FiredStays DEF IInv
<1> QED BY <1>2, <1>3, <1>4 DEF IInv

\* Deleting rows of procrastinate_workers clears worker_id and nothing else.
LEMMA DeleteWorkersFacts ==
    ASSUME RowTypes, NEW gone, DeleteWorkers(gone)
    PROVE  /\ workers' \in [WorkerIds -> {"none", "fresh", "stalled"}]
           /\ jobs' \in [JobIds -> Job]
           /\ \A j \in JobIds : /\ jobs'[j].status = jobs[j].status
                                /\ jobs'[j].tick = jobs[j].tick
                                /\ jobs'[j].lock = jobs[j].lock
<1>1. workers' \in [WorkerIds -> {"none", "fresh", "stalled"}]
    BY DEF DeleteWorkers, RowTypes
<1>2. jobs' \in [JobIds -> Job]
    BY DEF DeleteWorkers, RowTypes, Job
<1>3. ASSUME NEW j \in JobIds
      PROVE  /\ jobs'[j].status = jobs[j].status
             /\ jobs'[j].tick = jobs[j].tick
             /\ jobs'[j].lock = jobs[j].lock
    BY DEF DeleteWorkers, RowTypes, Job
<1> QED BY <1>1, <1>2, <1>3

\* A process ends, or is not there yet: its hand is empty, the others keep theirs.
LEMMA ProcessStep ==
    ASSUME RowTypes, Hands, NEW w \in Workers, NEW p \in Process,
           proc' = [proc EXCEPT ![w] = p],
           p = Dead \/ (p.id # None /\ p.fetching = None /\ p.job = None),
           \A j \in JobIds : jobs'[j].status = jobs[j].status
    PROVE  Hands'
<1>1. \A x \in Workers : /\ proc[x].fetching \in JobIds \cup {None}
                         /\ proc[x].job \in JobIds \cup {None}
    BY DEF RowTypes, Process
<1>2. /\ proc'[w] = p /\ p.fetching = None /\ p.job = None
      /\ p = Dead \/ p.id # None
      /\ \A x \in Workers \ {w} : proc'[x] = proc[x]
    BY DEF Dead, RowTypes
<1>3. Fetches'
    BY <1>1, <1>2 DEF Hands, Fetches, Alive
<1>4. OneRunner'
    BY <1>1, <1>2 DEF Hands, OneRunner
<1> QED BY <1>3, <1>4 DEF Hands

\* Workers come, stop, die, are refused and are pruned.
LEMMA WorkerStep ==
    ASSUME IInv, NEW w \in Workers,
           \/ RegisterWorker(w) \/ UnregisterWorker(w) \/ Kill(w)
           \/ PruneStalledWorkers(w) \/ FetchRefused(w)
    PROVE  IInv'
<1>1. RowTypes /\ Log /\ Hands /\ Fired
    BY DEF IInv
<1>2. CASE RegisterWorker(w)
    <2>1. PICK i \in WorkerIds :
            /\ workers' = [workers EXCEPT ![i] = "fresh"]
            /\ proc' = [proc EXCEPT ![w] = [Dead EXCEPT !.id = i]]
        BY <1>2 DEF RegisterWorker
    <2> DEFINE p == [Dead EXCEPT !.id = i]
    <2>2. p \in Process /\ p.id # None /\ p.fetching = None /\ p.job = None
        BY Basics DEF Dead, Process
    <2> HIDE DEF p
    <2>3. jobs' = jobs /\ events' = events /\ defers' = defers /\ clock' = clock /\ faults' = faults
        BY <1>2 DEF RegisterWorker
    <2>4. RowTypes'
        BY <1>1, <2>1, <2>2, <2>3 DEF RowTypes, p
    <2>5. Hands'
        BY <1>1, <2>1, <2>2, <2>3, ProcessStep DEF p
    <2> QED BY <1>1, <2>3, <2>4, <2>5, LogStays, FiredStays DEF IInv
<1>3. CASE UnregisterWorker(w) \/ FetchRefused(w)
    <2>1. /\ DeleteWorkers({proc[w].id}) /\ proc' = [proc EXCEPT ![w] = Dead]
          /\ events' = events /\ defers' = defers /\ clock' = clock
          /\ faults' \in {faults, faults + 1}
        BY <1>3 DEF UnregisterWorker, FetchRefused, Disturb
    <2>2. RowTypes'
        BY <1>1, <2>1, DeleteWorkersFacts, Basics DEF RowTypes
    <2> QED BY <1>1, <2>1, <2>2, DeleteWorkersFacts, Basics, ProcessStep, LogStays, FiredStays
            DEF IInv
<1>4. CASE Kill(w)
    <2>1. /\ proc' = [proc EXCEPT ![w] = Dead] /\ faults' = faults + 1 /\ jobs' = jobs
          /\ events' = events /\ defers' = defers /\ clock' = clock /\ workers' = workers
        BY <1>4 DEF Kill, Disturb
    <2>2. RowTypes'
        BY <1>1, <2>1, Basics DEF RowTypes
    <2> QED BY <1>1, <2>1, <2>2, Basics, ProcessStep, LogStays, FiredStays DEF IInv
<1>5. CASE PruneStalledWorkers(w)
    <2>1. /\ DeleteWorkers({i \in WorkerIds : workers[i] = "stalled"}) /\ proc' = proc
          /\ events' = events /\ defers' = defers /\ clock' = clock /\ faults' = faults
        BY <1>5 DEF PruneStalledWorkers
    <2>2. RowTypes'
        BY <1>1, <2>1, DeleteWorkersFacts DEF RowTypes
    <2> QED BY <1>1, <2>1, <2>2, DeleteWorkersFacts, HandsStay, LogStays, FiredStays DEF IInv
<1> QED BY <1>2, <1>3, <1>4, <1>5

\* An insert: the new row is nobody's, waits, and its log says so.
LEMMA InsertStep ==
    ASSUME RowTypes, Log, Hands, InOrder, NEW d, Caller(d),
           NEW tick \in (Tasks \X Ticks) \cup {None}, DeferJob(d, tick),
           \A w \in Workers : /\ proc'[w].fetching = proc[w].fetching
                              /\ proc'[w].job = proc[w].job
                              /\ proc'[w].id = proc[w].id,
           \A w \in Workers : ~Alive(w) => proc'[w] = proc[w]
    PROVE  /\ jobs' \in [JobIds -> Job] /\ Log' /\ Hands' /\ InOrder'
           /\ \E j \in JobIds :
                 /\ jobs[j].status = "absent" /\ jobs'[j].status = "todo"
                 /\ jobs'[j].tick = tick
                 /\ \A k \in JobIds : jobs[k].status = "absent" <=> j <= k
                 /\ \A k \in JobIds \ {j} : jobs'[k] = jobs[k]
<1>1. PICK j \in JobIds :
        /\ \A k \in JobIds : jobs[k].status = "absent" <=> j <= k
        /\ jobs' = [jobs EXCEPT ![j] = NewRow(d, tick)]
        /\ events' = [events EXCEPT ![j] = <<"deferred">>]
    BY DeferFacts
<1>2. /\ jobs'[j].status = "todo" /\ jobs'[j].tick = tick /\ jobs[j].status = "absent"
      /\ \A k \in JobIds \ {j} : jobs'[k] = jobs[k]
      /\ jobs' \in [JobIds -> Job]
    BY <1>1, NewRowTyped, Basics DEF RowTypes
<1>3. Hands'
    <2>1. \A w \in Workers : /\ proc[w].fetching \in JobIds \cup {None}
                             /\ proc[w].job \in JobIds \cup {None}
        BY DEF RowTypes, Process
    <2>2. \A w \in Workers : proc[w].fetching # j /\ proc[w].job # j
        BY <1>2, Basics DEF Hands, Fetches, OneRunner
    <2>3. Fetches'
        BY <1>2, <2>1, <2>2 DEF Hands, Fetches, Alive
    <2>4. OneRunner'
        BY <1>2, <2>1, <2>2 DEF Hands, OneRunner
    <2> QED BY <2>3, <2>4 DEF Hands
<1>4. Log'
    <2>1. events'[j] = <<"deferred">> /\ \A k \in JobIds \ {j} : events'[k] = events[k]
        BY <1>1 DEF Log, LogTypes
    <2>2. LogTypes'
        BY <1>1, EventsTyped DEF Log, LogTypes
    <2>3. 1 \in DOMAIN <<"deferred">> /\ Len(<<"deferred">>) = 1 /\ 1 + 1 .. 1 = {}
          /\ StatusAfter(<<"deferred">>[1]) = "todo"
        BY DEF StatusAfter
    <2>4. \A k \in JobIds : jobs'[k].status \notin {"absent", "deleted"} =>
              Tells(events'[k], jobs'[k].status)
        BY <1>2, <2>1, <2>3, TellsRow DEF Log, Tells
    <2> QED BY <2>2, <2>4 DEF Log, EventsTellStatus, Tells, Quiet
<1>5. InOrder'
    <2>1. \A k \in JobIds : jobs'[k].status = "absent" <=> j + 1 <= k
        BY <1>1, <1>2, Basics
    <2>2. j + 1 \in 1 .. MaxJobs + 1
        BY JobQueueAssumption DEF JobIds
    <2>3. \A k \in JobIds : jobs'[k].status = "absent" => jobs'[k].tick = None
        BY <1>2 DEF InOrder
    <2> QED BY <2>1, <2>2, <2>3 DEF InOrder
<1> QED BY <1>1, <1>2, <1>3, <1>4, <1>5

\* defer_manual_sync and the fan-out.
LEMMA DeferStep ==
    ASSUME IInv, NEW d \in Deferrals, Defer(d)
    PROVE  IInv'
<1>1. Caller(d)
    BY JobQueueAssumption DEF Caller
<1>2. /\ DeferJob(d, None) /\ clock' = clock /\ defers' = defers /\ workers' = workers
      /\ proc' = proc /\ faults' = faults
    BY DEF Defer
<1>3. /\ jobs' \in [JobIds -> Job] /\ Log' /\ Hands' /\ InOrder'
      /\ \E j \in JobIds :
            /\ jobs[j].status = "absent" /\ jobs'[j].status = "todo" /\ jobs'[j].tick = None
            /\ \A k \in JobIds : jobs[k].status = "absent" <=> j <= k
            /\ \A k \in JobIds \ {j} : jobs'[k] = jobs[k]
    BY <1>1, <1>2, InsertStep DEF IInv, Fired
<1>4. \A j \in JobIds : jobs'[j].tick = jobs[j].tick
    BY <1>3 DEF IInv, Fired, InOrder
<1>5. FiredKept'
    BY <1>2, <1>4 DEF IInv, Fired, FiredKept
<1>6. DoubleFireOnlyLate'
    <2>1. \A j, k \in JobIds : \A i \in j + 1 .. k - 1 : i \in JobIds
        BY JobQueueAssumption DEF JobIds
    <2> QED BY <1>4, <2>1 DEF IInv, Fired, DoubleFireOnlyLate
<1>7. RowTypes'
    BY <1>2, <1>3 DEF IInv, RowTypes
<1> QED BY <1>3, <1>5, <1>6, <1>7 DEF IInv, Fired

\* procrastinate_defer_periodic_job_v2.  A tick with no row that has fired before has
\* lost its row to a later tick, whose job is between the two.
LEMMA PeriodicStep ==
    ASSUME IInv, NEW w \in Workers, NEW task \in Tasks, NEW t \in Ticks,
           DeferPeriodicJob(w, task, t)
    PROVE  IInv'
<1>1. /\ clock' = clock /\ workers' = workers /\ faults' = faults
      /\ proc' = [proc EXCEPT ![w].due = @ \ {<<task, t>>}]
      /\ <<task, t>> \in proc[w].due
    BY DEF DeferPeriodicJob
<1>2. /\ proc' \in [Workers -> Process]
      /\ \A x \in Workers : /\ proc'[x].fetching = proc[x].fetching
                            /\ proc'[x].job = proc[x].job
                            /\ proc'[x].id = proc[x].id
    BY <1>1 DEF IInv, RowTypes, Process
<1>3. \A x \in Workers : ~Alive(x) => proc'[x] = proc[x]
    <2>1. Dead.due = {}
        BY DEF Dead
    <2>2. Alive(w)
        BY <1>1, <2>1 DEF IInv, Hands, Fetches
    <2> QED BY <1>1, <2>2 DEF IInv, RowTypes
<1>4. CASE \E d \in defers : d.task = task /\ d.at = t
    <2>1. jobs' = jobs /\ events' = events /\ defers' = defers
        BY <1>4 DEF DeferPeriodicJob
    <2>2. RowTypes'
        BY <1>1, <1>2, <2>1 DEF IInv, RowTypes
    <2>3. Hands'
        BY <1>2, <1>3, <2>1, HandsStay DEF IInv
    <2> QED BY <2>1, <2>2, <2>3, LogStays, FiredStays DEF IInv
<1>5. CASE ~\E d \in defers : d.task = task /\ d.at = t
    <2> DEFINE n == CHOOSE j \in Absent : j \notin {k \in JobIds : jobs'[k].status = "absent"}
               new == [task |-> task, at |-> t, job |-> n]
    <2>1. /\ DeferJob(Plain, <<task, t>>)
          /\ defers' = {d \in defers \cup {new} : ~(d.task = task /\ d.at < t)}
        BY <1>5 DEF DeferPeriodicJob
    <2>2. Caller(Plain)
        BY DEF Caller, Plain
    <2>3. /\ jobs' \in [JobIds -> Job] /\ Log' /\ Hands' /\ InOrder'
          /\ \E j \in JobIds :
                /\ jobs[j].status = "absent" /\ jobs'[j].status = "todo"
                /\ jobs'[j].tick = <<task, t>>
                /\ \A k \in JobIds : jobs[k].status = "absent" <=> j <= k
                /\ \A k \in JobIds \ {j} : jobs'[k] = jobs[k]
        BY <1>2, <1>3, <2>1, <2>2, InsertStep DEF IInv, Fired
    <2>4. PICK j \in JobIds :
                /\ jobs[j].status = "absent" /\ jobs'[j].status = "todo"
                /\ jobs'[j].tick = <<task, t>>
                /\ \A k \in JobIds : jobs[k].status = "absent" <=> j <= k
                /\ \A k \in JobIds \ {j} : jobs'[k] = jobs[k]
        BY <2>3
    <2>5. n \in JobIds
        <3>1. j \in Absent /\ j \notin {k \in JobIds : jobs'[k].status = "absent"}
            BY <2>4 DEF Absent
        <3> QED BY <3>1 DEF Absent
    <2> HIDE DEF n
    <2>6. new \in [task : Tasks, at : Ticks, job : JobIds \cup {None}]
          /\ new.task = task /\ new.at = t
        BY <2>5
    <2> HIDE DEF new
    <2>7. RowTypes'
        BY <1>1, <1>2, <2>1, <2>3, <2>6 DEF IInv, RowTypes
    <2>8. /\ j \in Nat /\ t \in Nat /\ <<task, t>> # None
          /\ \A k \in JobIds : /\ k \in Nat
                               /\ jobs[k].tick # None => /\ k < j
                                                         /\ jobs[k].tick \in Tasks \X Ticks
                                                         /\ jobs[k].tick[2] \in Nat
        <3>1. \A k \in JobIds : jobs[k].tick # None => jobs[k].status # "absent"
            BY DEF IInv, Fired, InOrder
        <3>2. \A k \in JobIds : jobs[k].tick \in (Tasks \X Ticks) \cup {None}
            BY DEF IInv, RowTypes, Job
        <3>3. <<task, t>> # None
            BY JobQueueAssumption
        <3>4. j \in Nat /\ t \in Nat /\ JobIds \subseteq Nat
            BY Basics
        <3>5. ASSUME NEW k \in JobIds, jobs[k].tick # None
              PROVE  /\ k < j /\ jobs[k].tick \in Tasks \X Ticks
                     /\ jobs[k].tick[2] \in Nat
            <4>1. ~(j <= k)
                BY <2>4, <3>1, <3>5
            <4>2. jobs[k].tick \in Tasks \X Ticks
                BY <3>2, <3>5
            <4>3. jobs[k].tick[2] \in Ticks
                BY <4>2
            <4>4. k < j
                BY <3>4, <4>1
            <4>5. jobs[k].tick[2] \in Nat
                BY <4>3, Basics
            <4> QED BY <4>2, <4>4, <4>5
        <3> QED BY <3>3, <3>4, <3>5
    <2>9. FiredKept'
        <3> SUFFICES ASSUME NEW k \in JobIds, jobs'[k].tick # None
                     PROVE  \/ \E d \in defers' : d.task = jobs'[k].tick[1] /\ d.at = jobs'[k].tick[2]
                            \/ \E i \in JobIds : /\ k < i /\ jobs'[i].tick # None
                                                 /\ jobs'[i].tick[1] = jobs'[k].tick[1]
                                                 /\ jobs'[i].tick[2] > jobs'[k].tick[2]
            BY DEF FiredKept
        <3>1. CASE k = j
            BY <2>1, <2>4, <2>6, <2>8, <3>1
        <3>2. CASE k # j
            <4>1. jobs'[k] = jobs[k] /\ k < j
                BY <2>4, <2>8, <3>2
            <4>2. CASE \E d \in defers : d.task = jobs[k].tick[1] /\ d.at = jobs[k].tick[2]
                BY <2>1, <2>4, <2>8, <4>1, <4>2
            <4>3. CASE \E i \in JobIds : /\ k < i /\ jobs[i].tick # None
                                         /\ jobs[i].tick[1] = jobs[k].tick[1]
                                         /\ jobs[i].tick[2] > jobs[k].tick[2]
                <5>1. PICK i \in JobIds : /\ k < i /\ jobs[i].tick # None
                                          /\ jobs[i].tick[1] = jobs[k].tick[1]
                                          /\ jobs[i].tick[2] > jobs[k].tick[2]
                    BY <4>3
                <5>2. i # j /\ jobs'[i] = jobs[i]
                    BY <2>4, <2>8, <5>1
                <5> QED BY <4>1, <5>1, <5>2
            <4> QED BY <4>1, <4>2, <4>3 DEF IInv, Fired, FiredKept
        <3> QED BY <3>1, <3>2
    <2>10. DoubleFireOnlyLate'
        <3> SUFFICES ASSUME NEW a \in JobIds, NEW b \in JobIds, a < b,
                            jobs'[a].tick # None, jobs'[a].tick = jobs'[b].tick
                     PROVE  \E i \in a + 1 .. b - 1 :
                              /\ jobs'[i].tick # None
                              /\ jobs'[i].tick[1] = jobs'[a].tick[1]
                              /\ jobs'[i].tick[2] > jobs'[a].tick[2]
            BY DEF DoubleFireOnlyLate
        <3>1. a # j /\ jobs'[a] = jobs[a] /\ a < j
            <4>1. CASE a = j
                <5>1. a \in Nat /\ b \in Nat /\ j \in Nat
                    BY <2>8
                <5>2. b # j
                    BY <4>1, <5>1
                <5>3. jobs'[b] = jobs[b]
                    BY <2>4, <5>2
                <5>4. jobs[b].tick # None
                    BY <5>3
                <5>5. b < j
                    BY <2>8, <5>4
                <5> QED BY <4>1, <5>1, <5>5
            <4>2. CASE a # j
                BY <2>4, <2>8, <4>2
            <4> QED BY <4>1, <4>2
        <3>2. CASE b = j
            <4>1. jobs[a].tick[1] = task /\ jobs[a].tick[2] = t
                BY <2>4, <3>1, <3>2
            <4>2. PICK i \in JobIds : /\ a < i /\ jobs[i].tick # None
                                      /\ jobs[i].tick[1] = task /\ jobs[i].tick[2] > t
                BY <1>5, <3>1, <4>1 DEF IInv, Fired, FiredKept
            <4>3. i \in a + 1 .. b - 1 /\ jobs'[i] = jobs[i]
                BY <2>4, <2>8, <3>2, <4>2
            <4> QED BY <3>1, <4>1, <4>2, <4>3
        <3>3. CASE b # j
            <4>1. jobs'[b] = jobs[b] /\ b < j
                BY <2>4, <2>8, <3>1, <3>3
            <4>2. PICK i \in a + 1 .. b - 1 :
                    /\ jobs[i].tick # None
                    /\ jobs[i].tick[1] = jobs[a].tick[1]
                    /\ jobs[i].tick[2] > jobs[a].tick[2]
                BY <3>1, <4>1 DEF IInv, Fired, DoubleFireOnlyLate
            <4>3. i \in JobIds /\ i # j
                BY <2>8, <4>1, JobQueueAssumption DEF JobIds
            <4> QED BY <2>4, <3>1, <4>2, <4>3
        <3> QED BY <3>2, <3>3
    <2> QED BY <2>3, <2>7, <2>9, <2>10 DEF IInv, Fired
<1> QED BY <1>4, <1>5

\* The rows that the functions write.
RowOfFetch(r, i) == [r EXCEPT !.status = "doing", !.worker = i]
RowOfFinish(r, st, n) == [r EXCEPT !.status = st, !.abort = FALSE, !.attempts = n]
RowOfCancel(r, b, st) == [r EXCEPT !.abort = b, !.status = st]
RowOfRetry(r, n, at) == [r EXCEPT !.status = "todo", !.attempts = n, !.scheduled = at]

\* They keep the types of their columns, and the tick.
LEMMA RowsTyped ==
    ASSUME NEW r \in Job
    PROVE  /\ \A i \in WorkerIds \cup {None} :
                /\ RowOfFetch(r, i) \in Job /\ RowOfFetch(r, i).status = "doing"
                /\ RowOfFetch(r, i).tick = r.tick
           /\ \A st \in Statuses, n \in Nat :
                /\ RowOfFinish(r, st, n) \in Job /\ RowOfFinish(r, st, n).status = st
                /\ RowOfFinish(r, st, n).tick = r.tick
           /\ \A b \in BOOLEAN, st \in Statuses :
                /\ RowOfCancel(r, b, st) \in Job /\ RowOfCancel(r, b, st).status = st
                /\ RowOfCancel(r, b, st).tick = r.tick
           /\ \A n \in Nat, at \in Nat :
                /\ RowOfRetry(r, n, at) \in Job /\ RowOfRetry(r, n, at).status = "todo"
                /\ RowOfRetry(r, n, at).tick = r.tick
<1>1. \A i \in WorkerIds \cup {None} :
        /\ RowOfFetch(r, i) \in Job /\ RowOfFetch(r, i).status = "doing"
        /\ RowOfFetch(r, i).tick = r.tick
    BY DEF RowOfFetch, Job, Statuses
<1>2. \A st \in Statuses, n \in Nat :
        /\ RowOfFinish(r, st, n) \in Job /\ RowOfFinish(r, st, n).status = st
        /\ RowOfFinish(r, st, n).tick = r.tick
    BY DEF RowOfFinish, Job
<1>3. \A b \in BOOLEAN, st \in Statuses :
        /\ RowOfCancel(r, b, st) \in Job /\ RowOfCancel(r, b, st).status = st
        /\ RowOfCancel(r, b, st).tick = r.tick
    BY DEF RowOfCancel, Job
<1>4. \A n \in Nat, at \in Nat :
        /\ RowOfRetry(r, n, at) \in Job /\ RowOfRetry(r, n, at).status = "todo"
        /\ RowOfRetry(r, n, at).tick = r.tick
    BY DEF RowOfRetry, Job, Statuses
<1> QED BY <1>1, <1>2, <1>3, <1>4

\* An UPDATE of a row that exists, in a way its trigger knows, keeps all that does
\* not concern the processes.
LEMMA UpdateStep ==
    ASSUME IInv, NEW j \in JobIds, NEW row \in Job, NEW abortEvent \in Seq(Quiet),
           UpdateRow(j, row, abortEvent),
           row.status = jobs[j].status \/ Logged(jobs[j].status, row.status),
           row.tick = jobs[j].tick, defers' = defers
    PROVE  /\ jobs' \in [JobIds -> Job] /\ Log' /\ Fired'
           /\ jobs'[j] = row /\ \A k \in JobIds \ {j} : jobs'[k] = jobs[k]
<1>1. jobs' = [jobs EXCEPT ![j] = row] /\ jobs \in [JobIds -> Job]
    BY DEF UpdateRow, IInv, RowTypes
<1>2. /\ jobs' \in [JobIds -> Job] /\ jobs'[j] = row
      /\ \A k \in JobIds \ {j} : jobs'[k] = jobs[k]
    BY <1>1
<1>3. row.status = "absent" <=> jobs[j].status = "absent"
    BY DEF Logged
<1>4. Fired'
    BY <1>2, <1>3, FiredStays DEF IInv
<1>5. Log'
    BY UpdateTells DEF IInv, Log
<1> QED BY <1>2, <1>4, <1>5

\* SELECT ... FOR UPDATE SKIP LOCKED: a waiting row nobody else has locked.
LEMMA FetchLockStep ==
    ASSUME IInv, NEW w \in Workers, FetchLock(w)
    PROVE  IInv'
<1>1. PICK j \in JobIds :
        /\ jobs[j].status = "todo" /\ Unlocked(j)
        /\ proc' = [proc EXCEPT ![w].fetching = j]
    BY DEF FetchLock, Candidates
<1>2. /\ clock' = clock /\ jobs' = jobs /\ events' = events /\ defers' = defers
      /\ workers' = workers /\ faults' = faults
      /\ Alive(w) /\ proc[w].job = None /\ proc[w].fetching = None
    BY DEF FetchLock
<1>3. /\ proc' \in [Workers -> Process]
      /\ proc'[w].fetching = j /\ proc'[w].job = None /\ proc'[w].id = proc[w].id
      /\ \A x \in Workers \ {w} : proc'[x] = proc[x]
    BY <1>1, <1>2 DEF IInv, RowTypes, Process
<1>4. RowTypes'
    BY <1>2, <1>3 DEF IInv, RowTypes
<1>5. Fetches'
    BY <1>1, <1>2, <1>3 DEF IInv, Hands, Fetches, Alive, Unlocked
<1>6. OneRunner'
    BY <1>2, <1>3 DEF IInv, Hands, OneRunner
<1> QED BY <1>2, <1>4, <1>5, <1>6, LogStays, FiredStays DEF IInv, Hands

\* The fetch's UPDATE: from todo to doing, and into the worker's hand.
LEMMA FetchCommitStep ==
    ASSUME IInv, NEW w \in Workers, FetchCommit(w)
    PROVE  IInv'
<1> DEFINE j == proc[w].fetching
           row == [jobs[j] EXCEPT !.status = "doing", !.worker = proc[w].id]
<1>1. /\ j # None /\ UpdateRow(j, row, <<>>)
      /\ proc' = [proc EXCEPT ![w].fetching = None, ![w].job = j]
      /\ clock' = clock /\ defers' = defers /\ workers' = workers /\ faults' = faults
    BY DEF FetchCommit
<1>2. /\ proc[w] \in Process /\ proc \in [Workers -> Process] /\ jobs \in [JobIds -> Job]
    BY DEF IInv, RowTypes
<1>3. j \in JobIds /\ proc[w].id \in WorkerIds \cup {None}
    BY <1>1, <1>2 DEF Process
<1>4. jobs[j].status = "todo" /\ Alive(w)
    <2>1. Dead.fetching = None
        BY DEF Dead
    <2> QED BY <1>1, <2>1 DEF IInv, Hands, Fetches
<1>5. row \in Job /\ row.status = "doing" /\ row.tick = jobs[j].tick
    <2>1. jobs[j] \in Job
        BY <1>2, <1>3
    <2>2. row = RowOfFetch(jobs[j], proc[w].id)
        BY DEF RowOfFetch
    <2> HIDE DEF row
    <2> QED BY <1>3, <2>1, <2>2, RowsTyped
<1>6. /\ proc' \in [Workers -> Process]
      /\ proc'[w].fetching = None /\ proc'[w].job = j /\ proc'[w].id = proc[w].id
      /\ \A x \in Workers \ {w} : proc'[x] = proc[x]
    BY <1>1, <1>2, <1>3 DEF Process
<1> HIDE DEF row
<1>7. /\ jobs' \in [JobIds -> Job] /\ Log' /\ Fired'
      /\ jobs'[j] = row /\ \A k \in JobIds \ {j} : jobs'[k] = jobs[k]
    <2>1. Logged(jobs[j].status, row.status)
        BY <1>4, <1>5 DEF Logged
    <2>2. <<>> \in Seq(Quiet)
        BY EventsTyped
    <2> HIDE DEF j
    <2> QED BY <1>1, <1>3, <1>5, <2>1, <2>2, UpdateStep
<1>8. RowTypes'
    BY <1>1, <1>6, <1>7 DEF IInv, RowTypes
<1>9. \A x \in Workers \ {w} : /\ proc[x].fetching \in (JobIds \ {j}) \cup {None}
                               /\ proc[x].job \in (JobIds \ {j}) \cup {None}
    <2>1. \A x \in Workers \ {w} : /\ proc[x].fetching \in JobIds \cup {None}
                                   /\ proc[x].job \in JobIds \cup {None}
        BY <1>2 DEF Process
    <2>2. \A x \in Workers \ {w} : proc[x].fetching # j
        BY <1>1 DEF IInv, Hands, Fetches
    <2>3. \A x \in Workers \ {w} : proc[x].job # j
        BY <1>1, <1>4 DEF IInv, Hands, OneRunner
    <2> QED BY <2>1, <2>2, <2>3
<1>10. Fetches'
    BY <1>4, <1>6, <1>7, <1>9 DEF IInv, Hands, Fetches, Alive
<1>11. OneRunner'
    BY <1>5, <1>6, <1>7, <1>9 DEF IInv, Hands, OneRunner
<1> QED BY <1>7, <1>8, <1>10, <1>11 DEF IInv, Hands

\* procrastinate_finish_job_v1: by then the job is in status doing, in one hand.
LEMMA FinishStep ==
    ASSUME IInv, NEW w \in Workers, NEW end \in {"succeeded", "failed", "aborted"},
           FinishJob(w, end)
    PROVE  IInv'
<1> DEFINE j == proc[w].job
           row == [jobs[j] EXCEPT !.status = end, !.abort = FALSE,
                        !.attempts = IF jobs[j].status = "doing" THEN @ + 1 ELSE @]
<1>1. /\ j # None /\ UpdateRow(j, row, <<>>)
      /\ proc' = [proc EXCEPT ![w].job = None]
      /\ clock' = clock /\ defers' = defers /\ workers' = workers /\ faults' = faults
    BY DEF FinishJob
<1>2. /\ proc[w] \in Process /\ proc \in [Workers -> Process] /\ jobs \in [JobIds -> Job]
    BY DEF IInv, RowTypes
<1>3. j \in JobIds
    BY <1>1, <1>2 DEF Process
<1>4. jobs[j].status = "doing" /\ Alive(w)
    <2>1. Dead.job = None
        BY DEF Dead
    <2> QED BY <1>1, <2>1 DEF IInv, Hands, Fetches, OneRunner
<1>5. row \in Job /\ row.status = end /\ row.tick = jobs[j].tick
    <2>1. jobs[j] \in Job /\ end \in Statuses
        BY <1>2, <1>3 DEF Statuses
    <2> DEFINE n == jobs[j].attempts + 1
    <2>2. n \in Nat
        BY <2>1 DEF Job
    <2>3. row = RowOfFinish(jobs[j], end, n)
        BY <1>4, <2>1 DEF Job, RowOfFinish
    <2> HIDE DEF row, n
    <2> QED BY <2>1, <2>2, <2>3, RowsTyped
<1>6. /\ proc' \in [Workers -> Process]
      /\ proc'[w].fetching = proc[w].fetching /\ proc'[w].job = None
      /\ proc'[w].id = proc[w].id
      /\ \A x \in Workers \ {w} : proc'[x] = proc[x]
    BY <1>1, <1>2 DEF Process
<1> HIDE DEF row
<1>7. /\ jobs' \in [JobIds -> Job] /\ Log' /\ Fired'
      /\ jobs'[j] = row /\ \A k \in JobIds \ {j} : jobs'[k] = jobs[k]
    <2>1. Logged(jobs[j].status, row.status)
        BY <1>4, <1>5 DEF Logged
    <2>2. <<>> \in Seq(Quiet)
        BY EventsTyped
    <2> HIDE DEF j
    <2> QED BY <1>1, <1>3, <1>5, <2>1, <2>2, UpdateStep
<1>8. RowTypes'
    BY <1>1, <1>6, <1>7 DEF IInv, RowTypes
<1>9. /\ proc[w].fetching = None
      /\ \A x \in Workers \ {w} : /\ proc[x].fetching \in (JobIds \ {j}) \cup {None}
                                  /\ proc[x].job \in (JobIds \ {j}) \cup {None}
    <2>1. \A x \in Workers \ {w} : /\ proc[x].fetching \in JobIds \cup {None}
                                   /\ proc[x].job \in JobIds \cup {None}
        BY <1>2 DEF Process
    <2>2. \A x \in Workers : proc[x].fetching # None => proc[x].fetching # j
        BY <1>4 DEF IInv, Hands, Fetches
    <2>3. \A x \in Workers \ {w} : proc[x].job # j
        BY <1>1 DEF IInv, Hands, OneRunner
    <2>4. proc[w].fetching = None
        BY <1>1 DEF IInv, Hands, Fetches
    <2> QED BY <1>1, <2>1, <2>2, <2>3, <2>4
<1>10. Fetches'
    BY <1>4, <1>6, <1>7, <1>9 DEF IInv, Hands, Fetches, Alive
<1>11. OneRunner'
    BY <1>6, <1>7, <1>9 DEF IInv, Hands, OneRunner
<1> QED BY <1>7, <1>8, <1>10, <1>11 DEF IInv, Hands

\* procrastinate_cancel_job_v1 without deletion.
LEMMA CancelStep ==
    ASSUME IInv, NEW j \in JobIds, NEW abort \in BOOLEAN, CancelJob(j, abort)
    PROVE  IInv'
<1> DEFINE row == [jobs[j] EXCEPT !.abort = @ \/ abort,
                        !.status = IF @ = "todo" THEN "cancelled" ELSE @]
           ev == IF abort THEN <<"abort_requested">> ELSE <<>>
<1>1. /\ jobs[j].status \in {"todo", "doing"} /\ Unlocked(j) /\ UpdateRow(j, row, ev)
      /\ clock' = clock /\ defers' = defers /\ workers' = workers /\ proc' = proc
      /\ faults' = faults + 1
    BY DEF CancelJob, Disturb
<1>2. jobs[j] \in Job
    BY DEF IInv, RowTypes
<1>3. /\ row \in Job /\ row.tick = jobs[j].tick /\ ev \in Seq(Quiet)
      /\ row.status = IF jobs[j].status = "todo" THEN "cancelled" ELSE jobs[j].status
    <2>1. ev \in Seq(Quiet)
        BY EventsTyped
    <2> DEFINE st == IF jobs[j].status = "todo" THEN "cancelled" ELSE jobs[j].status
               b == jobs[j].abort \/ abort
    <2>2. st \in Statuses /\ b \in BOOLEAN
        BY <1>1 DEF Statuses
    <2>3. row = RowOfCancel(jobs[j], b, st)
        BY <1>2 DEF Job, RowOfCancel
    <2> HIDE DEF row, st, b
    <2>4. row \in Job /\ row.status = st /\ row.tick = jobs[j].tick
        BY <1>2, <2>2, <2>3, RowsTyped
    <2> QED BY <2>1, <2>4 DEF st
<1> HIDE DEF row, ev
<1>4. /\ jobs' \in [JobIds -> Job] /\ Log' /\ Fired'
      /\ jobs'[j] = row /\ \A k \in JobIds \ {j} : jobs'[k] = jobs[k]
    <2>1. row.status = jobs[j].status \/ Logged(jobs[j].status, row.status)
        BY <1>1, <1>3 DEF Logged
    <2> QED BY <1>1, <1>3, <2>1, UpdateStep
<1>5. RowTypes'
    BY <1>1, <1>4 DEF IInv, RowTypes
<1>6. CASE jobs[j].status = "todo"
    <2>1. \A w \in Workers : proc[w].job # j
        BY <1>6, Basics DEF IInv, Hands, OneRunner
    <2>2. Hands'
        BY <1>1, <1>4, <2>1, LooseStep DEF IInv
    <2> QED BY <1>4, <1>5, <2>2 DEF IInv
<1>7. CASE jobs[j].status = "doing"
    <2>1. Hands'
        BY <1>1, <1>3, <1>4, <1>7, HandsStay DEF IInv
    <2> QED BY <1>4, <1>5, <2>1 DEF IInv
<1> QED BY <1>1, <1>6, <1>7

\* procrastinate_retry_job_v2.
LEMMA RetryStep ==
    ASSUME IInv, NEW j \in JobIds, NEW at \in Ticks, RetryJob(j, at)
    PROVE  IInv'
<1>1. /\ jobs[j].status \in {"failed", "doing"} /\ \A w \in Workers : proc[w].job # j
      /\ clock' = clock /\ defers' = defers /\ workers' = workers /\ proc' = proc
      /\ faults' = faults + 1
    BY DEF RetryJob, Disturb
<1>2. PICK row \in Job : /\ UpdateRow(j, row, <<>>) /\ row.tick = jobs[j].tick
                         /\ Logged(jobs[j].status, row.status)
    <2>1. jobs[j] \in Job /\ at \in Nat
        BY Basics DEF IInv, RowTypes
    <2>2. CASE jobs[j].status = "doing" /\ jobs[j].abort
        <3> DEFINE row == [jobs[j] EXCEPT !.status = "failed"]
        <3>1. row \in Job /\ row.tick = jobs[j].tick /\ row.status = "failed"
            BY <2>1 DEF Job, Statuses
        <3>2. UpdateRow(j, row, <<>>)
            BY <2>2 DEF RetryJob
        <3> QED BY <2>2, <3>1, <3>2 DEF Logged
    <2>3. CASE ~(jobs[j].status = "doing" /\ jobs[j].abort)
        <3> DEFINE row == [jobs[j] EXCEPT !.status = "todo", !.attempts = @ + 1, !.scheduled = at]
        <3>1. row \in Job /\ row.tick = jobs[j].tick /\ row.status = "todo"
            <4> DEFINE n == jobs[j].attempts + 1
            <4>1. n \in Nat
                BY <2>1 DEF Job
            <4>2. row = RowOfRetry(jobs[j], n, at)
                BY <2>1 DEF Job, RowOfRetry
            <4> HIDE DEF row, n
            <4> QED BY <2>1, <4>1, <4>2, RowsTyped
        <3>2. UpdateRow(j, row, <<>>)
            BY <2>3 DEF RetryJob
        <3> QED BY <1>1, <3>1, <3>2 DEF Logged
    <2> QED BY <2>2, <2>3
<1>3. /\ jobs' \in [JobIds -> Job] /\ Log' /\ Fired'
      /\ jobs'[j] = row /\ \A k \in JobIds \ {j} : jobs'[k] = jobs[k]
    <2>1. <<>> \in Seq(Quiet)
        BY EventsTyped
    <2> QED BY <1>1, <1>2, <2>1, UpdateStep
<1>4. RowTypes'
    BY <1>1, <1>3 DEF IInv, RowTypes
<1>5. Unlocked(j)
    BY <1>1, Basics DEF IInv, Hands, Fetches, Unlocked
<1>6. Hands'
    BY <1>1, <1>3, <1>5, LooseStep DEF IInv
<1> QED BY <1>3, <1>4, <1>6 DEF IInv

\* procrastinate_cancel_job_v1 with deletion: the row's tick keeps its row.
LEMMA DeleteStep ==
    ASSUME IInv, NEW j \in JobIds, DeleteJob(j)
    PROVE  IInv'
<1>1. /\ jobs[j].status = "todo" /\ Unlocked(j)
      /\ jobs' = [jobs EXCEPT ![j].status = "deleted"]
      /\ events' = [events EXCEPT ![j] = <<>>]
      /\ defers' = {[d EXCEPT !.job = IF @ = j THEN None ELSE @] : d \in defers}
      /\ clock' = clock /\ workers' = workers /\ proc' = proc /\ faults' = faults + 1
    BY DEF DeleteJob, Disturb
<1>2. /\ jobs' \in [JobIds -> Job]
      /\ jobs'[j].status = "deleted" /\ jobs'[j].tick = jobs[j].tick
      /\ \A k \in JobIds \ {j} : jobs'[k] = jobs[k]
    <2> DEFINE row == [jobs[j] EXCEPT !.status = "deleted"]
    <2>1. jobs[j] \in Job /\ jobs \in [JobIds -> Job]
        BY DEF IInv, RowTypes
    <2>2. row \in Job /\ row.status = "deleted" /\ row.tick = jobs[j].tick
        BY <2>1 DEF Job
    <2>3. jobs' = [jobs EXCEPT ![j] = row]
        BY <1>1
    <2> HIDE DEF row
    <2> QED BY <2>1, <2>2, <2>3
<1>3. /\ defers' \subseteq [task : Tasks, at : Ticks, job : JobIds \cup {None}]
      /\ \A d \in defers : \E e \in defers' : e.task = d.task /\ e.at = d.at
    <2> DEFINE f(d) == [d EXCEPT !.job = IF @ = j THEN None ELSE @]
               D == [task : Tasks, at : Ticks, job : JobIds \cup {None}]
    <2>1. \A d \in D : f(d) \in D /\ f(d).task = d.task /\ f(d).at = d.at
        OBVIOUS
    <2>2. defers' = {f(d) : d \in defers} /\ defers \subseteq D
        BY <1>1 DEF IInv, RowTypes
    <2> HIDE DEF f, D
    <2>3. defers' \subseteq D /\ \A d \in defers : \E e \in defers' : e.task = d.task /\ e.at = d.at
        BY <2>1, <2>2
    <2> QED BY <2>3 DEF D
<1>4. RowTypes'
    BY <1>1, <1>2, <1>3 DEF IInv, RowTypes
<1>5. Fired'
    BY <1>1, <1>2, <1>3, FiredStays DEF IInv
<1>6. \A w \in Workers : proc[w].job # j
    BY <1>1, Basics DEF IInv, Hands, OneRunner
<1>7. Hands'
    BY <1>1, <1>2, <1>6, LooseStep DEF IInv
<1>8. Log'
    <2>1. /\ events' \in [JobIds -> Seq(EventTypes)]
          /\ \A k \in JobIds \ {j} : events'[k] = events[k]
        BY <1>1, EventsTyped DEF IInv, Log, LogTypes, Quiet
    <2>2. \A k \in JobIds : jobs'[k].status \notin {"absent", "deleted"} =>
              Tells(events'[k], jobs'[k].status)
        BY <1>2, <2>1, TellsRow DEF IInv, Log
    <2> QED BY <2>1, <2>2 DEF Log, LogTypes, EventsTellStatus, Tells, Quiet
<1> QED BY <1>4, <1>5, <1>7, <1>8 DEF IInv

\* A state in which nothing happened yet satisfies the invariant.
LEMMA IInvInit == Init => IInv
<1> SUFFICES ASSUME Init PROVE IInv
    OBVIOUS
<1> USE DEF Init
<1>1. NoRow.status = "absent" /\ NoRow.tick = None
    BY DEF NoRow
<1>2. Dead.fetching = None /\ Dead.job = None /\ Dead.id = None
    BY DEF Dead
<1>3. RowTypes
    <2>1. clock \in Ticks /\ faults \in Nat
        BY JobQueueAssumption DEF Ticks
    <2> QED BY <2>1, Basics DEF RowTypes
<1>4. Log
    <2>1. <<>> \in Seq(EventTypes)
        OBVIOUS
    <2> QED BY <1>1, <2>1 DEF Log, LogTypes, EventsTellStatus
<1>5. Hands
    BY <1>2 DEF Hands, Fetches, OneRunner, Alive
<1>6. Fired
    <2>1. InOrder
        <3>1. 1 \in 1 .. MaxJobs + 1 /\ \A j \in JobIds : 1 <= j
            BY JobQueueAssumption DEF JobIds
        <3> QED BY <1>1, <3>1 DEF InOrder
    <2> QED BY <1>1, <2>1 DEF Fired, FiredKept, DoubleFireOnlyLate
<1> QED BY <1>3, <1>4, <1>5, <1>6 DEF IInv

\* Every step keeps it.
LEMMA IInvNext == IInv /\ [Next]_vars => IInv'
<1> SUFFICES ASSUME IInv, [Next]_vars PROVE IInv'
    OBVIOUS
<1>1. CASE Tick \/ \E i \in WorkerIds : Lapse(i)
    BY <1>1, QuietStep
<1>2. ASSUME NEW d \in Deferrals, Defer(d) PROVE IInv'
    BY <1>2, DeferStep
<1>3. ASSUME NEW w \in Workers,
             \/ RegisterWorker(w) \/ UnregisterWorker(w) \/ Kill(w)
             \/ PruneStalledWorkers(w) \/ FetchRefused(w)
      PROVE  IInv'
    BY <1>3, WorkerStep
<1>4. ASSUME NEW w \in Workers, UpdateHeartbeat(w) \/ Wake(w) PROVE IInv'
    BY <1>4, QuietStep
<1>5. ASSUME NEW w \in Workers, NEW task \in Tasks, NEW t \in Ticks, DeferPeriodicJob(w, task, t)
      PROVE  IInv'
    BY <1>5, PeriodicStep
<1>6. ASSUME NEW w \in Workers, FetchLock(w) \/ FetchCommit(w) PROVE IInv'
    BY <1>6, FetchLockStep, FetchCommitStep
<1>7. ASSUME NEW w \in Workers, Run(w) PROVE IInv'
    BY <1>7, FinishStep DEF Run
<1>8. ASSUME NEW j \in JobIds, DeleteJob(j) PROVE IInv'
    BY <1>8, DeleteStep
<1>9. ASSUME NEW j \in JobIds, NEW abort \in BOOLEAN, CancelJob(j, abort) PROVE IInv'
    BY <1>9, CancelStep
<1>10. ASSUME NEW j \in JobIds, NEW at \in Ticks, RetryJob(j, at) PROVE IInv'
    BY <1>10, RetryStep
<1>11. CASE UNCHANGED vars
    BY <1>11 DEF vars, IInv, RowTypes, Log, LogTypes, EventsTellStatus, Hands, Fetches, Alive,
        OneRunner, Fired, InOrder, FiredKept, DoubleFireOnlyLate
<1> QED BY <1>1, <1>2, <1>3, <1>4, <1>5, <1>6, <1>7, <1>8, <1>9, <1>10, <1>11 DEF Next

--------------------------------------------------------------------------------
(* Theorems.                                                               *)

\* The inductive invariant holds in every state of the job table.
THEOREM SpecIInv == Spec => []IInv
BY IInvInit, IInvNext, PTL DEF Spec

\* Rows, events, ticks, heartbeats and processes keep their types (migration 0002).
THEOREM SpecTypeOK == Spec => []TypeOK
<1>1. IInv => TypeOK
    BY TypeParts DEF IInv, Log
<1> QED BY <1>1, SpecIInv, PTL

\* FOR UPDATE SKIP LOCKED and the status checks of the functions: a job is run by
\* one worker at a time, in status doing, whatever overlaps with its run.
THEOREM SpecOneRunner == Spec => []OneRunner
<1>1. IInv => OneRunner
    BY DEF IInv, Hands
<1> QED BY <1>1, SpecIInv, PTL

\* The status trigger: the last event of a job that names a status names its status.
THEOREM SpecEventsTellStatus == Spec => []EventsTellStatus
<1>1. IInv => EventsTellStatus
    BY DEF IInv, Log
<1> QED BY <1>1, SpecIInv, PTL

\* The unique tick of procrastinate_periodic_defers: a tick fires twice only with a
\* later tick of its task fired in between.
THEOREM SpecDoubleFireOnlyLate == Spec => []DoubleFireOnlyLate
<1>1. IInv => DoubleFireOnlyLate
    BY DEF IInv, Fired
<1> QED BY <1>1, SpecIInv, PTL

--------------------------------------------------------------------------------
(* The job table implements the board.                                     *)

\* The refinement mapping.
OnBoard == [j \in JobIds |-> Phase(jobs[j].status)]
InHand == [w \in Workers |-> proc[w].job]

\* The mapping after a step that changes the status of j at most.
LEMMA BoardMoves ==
    ASSUME NEW j \in JobIds, NEW st, jobs'[j].status = st,
           \A k \in JobIds \ {j} : jobs'[k].status = jobs[k].status
    PROVE  /\ OnBoard' = [OnBoard EXCEPT ![j] = Phase(st)]
           /\ OnBoard[j] = Phase(jobs[j].status)
BY DEF OnBoard

\* The mapping after a step that changes the hand of w at most.
LEMMA HandMoves ==
    ASSUME NEW w \in Workers, NEW h, proc'[w].job = h,
           \A x \in Workers \ {w} : proc'[x].job = proc[x].job
    PROVE  /\ InHand' = [InHand EXCEPT ![w] = h]
           /\ InHand[w] = proc[w].job
BY DEF InHand

\* The phases of the statuses.
LEMMA Phases ==
    /\ Phase("absent") = "none" /\ Phase("todo") = "waiting" /\ Phase("doing") = "running"
    /\ Phase("cancelled") = "ended" /\ Phase("deleted") = "ended" /\ Phase("failed") = "ended"
    /\ Phase("succeeded") = "ended" /\ Phase("aborted") = "ended"
BY DEF Phase

\* A step that changes no status and no hand is none of the board's.
LEMMA BoardStutters ==
    ASSUME \A j \in JobIds : jobs'[j].status = jobs[j].status,
           \A w \in Workers : proc'[w].job = proc[w].job
    PROVE  UNCHANGED Board!vars
BY DEF Board!vars

\* An insert posts its job.
LEMMA InsertPosts ==
    ASSUME RowTypes, InOrder, NEW d, Caller(d), NEW tick \in (Tasks \X Ticks) \cup {None},
           DeferJob(d, tick), \A w \in Workers : proc'[w].job = proc[w].job
    PROVE  \E j \in JobIds : Board!Post(j)
<1>1. PICK j \in JobIds :
        /\ \A k \in JobIds : jobs[k].status = "absent" <=> j <= k
        /\ jobs' = [jobs EXCEPT ![j] = NewRow(d, tick)]
    BY DeferFacts
<1>2. /\ jobs'[j].status = "todo" /\ jobs[j].status = "absent"
      /\ \A k \in JobIds \ {j} : jobs'[k].status = jobs[k].status
    BY <1>1, NewRowTyped, Basics DEF RowTypes
<1>3. OnBoard' = [OnBoard EXCEPT ![j] = "waiting"] /\ OnBoard[j] = "none"
    BY <1>2, BoardMoves, Phases
<1>4. InHand' = InHand
    BY DEF InHand
<1>5. Board!Post(j)
    BY <1>3, <1>4 DEF Board!Post, Board!Move, OnBoard, InHand
<1> QED BY <1>5

\* What an UPDATE of a row's columns does to the statuses.
LEMMA UpdateStatus ==
    ASSUME RowTypes, NEW j \in JobIds, NEW row, NEW abortEvent, UpdateRow(j, row, abortEvent)
    PROVE  /\ jobs'[j].status = row.status
           /\ \A k \in JobIds \ {j} : jobs'[k].status = jobs[k].status
BY DEF UpdateRow, RowTypes

\* Workers come, go and beat: at most a hand is emptied by a death.
LEMMA WorkerOnBoard ==
    ASSUME IInv, NEW w \in Workers,
           \/ RegisterWorker(w) \/ UnregisterWorker(w) \/ Kill(w) \/ FetchRefused(w)
    PROVE  [Board!Next]_Board!vars
<1>1. RowTypes /\ Dead.job = None
    BY DEF IInv, Dead
<1>2. CASE Kill(w)
    <2>1. jobs' = jobs /\ proc'[w].job = None /\ \A x \in Workers \ {w} : proc'[x].job = proc[x].job
        BY <1>1, <1>2 DEF Kill, RowTypes
    <2>2. OnBoard' = OnBoard /\ InHand' = [InHand EXCEPT ![w] = None]
        BY <2>1, HandMoves DEF OnBoard
    <2>3. Board!Die(w)
        BY <2>2 DEF Board!Die, OnBoard, InHand
    <2> QED BY <2>3 DEF Board!Next
<1>3. CASE RegisterWorker(w)
    <2>1. PICK i \in WorkerIds : proc' = [proc EXCEPT ![w] = [Dead EXCEPT !.id = i]]
        BY <1>3 DEF RegisterWorker
    <2>2. [Dead EXCEPT !.id = i].job = None
        BY DEF Dead
    <2>3. proc[w].job = None /\ jobs' = jobs
        BY <1>1, <1>3 DEF IInv, Hands, Fetches, RegisterWorker
    <2>4. \A x \in Workers : proc'[x].job = proc[x].job
        BY <1>1, <2>1, <2>2, <2>3 DEF RowTypes
    <2> QED BY <2>3, <2>4, BoardStutters
<1>4. CASE UnregisterWorker(w) \/ FetchRefused(w)
    <2>1. DeleteWorkers({proc[w].id}) /\ proc' = [proc EXCEPT ![w] = Dead]
        BY <1>4 DEF UnregisterWorker, FetchRefused
    <2>2. proc[w].job = None
        BY <1>4 DEF UnregisterWorker, FetchRefused, IInv, Hands, Fetches
    <2>3. \A x \in Workers : proc'[x].job = proc[x].job
        BY <1>1, <2>1, <2>2 DEF RowTypes
    <2> QED BY <1>1, <2>1, <2>3, DeleteWorkersFacts, BoardStutters
<1> QED BY <1>2, <1>3, <1>4

\* Time, heartbeats, pruning, wake-ups and row locks are not on the board.
LEMMA UnseenOnBoard ==
    ASSUME IInv,
           \/ Tick
           \/ \E i \in WorkerIds : Lapse(i)
           \/ \E w \in Workers : UpdateHeartbeat(w) \/ PruneStalledWorkers(w) \/ Wake(w) \/ FetchLock(w)
    PROVE  UNCHANGED Board!vars
<1>1. \A j \in JobIds : jobs'[j].status = jobs[j].status
    <2>1. CASE \E w \in Workers : PruneStalledWorkers(w)
        BY <2>1, DeleteWorkersFacts DEF PruneStalledWorkers, IInv
    <2>2. CASE jobs' = jobs
        BY <2>2
    <2> QED BY <2>1, <2>2 DEF Tick, Lapse, UpdateHeartbeat, Wake, FetchLock
<1>2. \A x \in Workers : proc'[x].job = proc[x].job
    <2>1. CASE proc' = proc
        BY <2>1
    <2>2. ASSUME NEW w \in Workers, Wake(w) PROVE \A x \in Workers : proc'[x].job = proc[x].job
        BY <2>2 DEF Wake, IInv, RowTypes, Process
    <2>3. ASSUME NEW w \in Workers, FetchLock(w) PROVE \A x \in Workers : proc'[x].job = proc[x].job
        <3>1. PICK j \in JobIds : proc' = [proc EXCEPT ![w].fetching = j]
            BY <2>3 DEF FetchLock, Candidates
        <3> QED BY <3>1 DEF IInv, RowTypes, Process
    <2> QED BY <2>1, <2>2, <2>3 DEF Tick, Lapse, UpdateHeartbeat, PruneStalledWorkers
<1> QED BY <1>1, <1>2, BoardStutters

\* Deferring posts a job; a periodic tick that has its row posts none.
LEMMA DeferOnBoard ==
    ASSUME IInv,
           \/ \E d \in Deferrals : Defer(d)
           \/ \E w \in Workers, task \in Tasks, t \in Ticks : DeferPeriodicJob(w, task, t)
    PROVE  [Board!Next]_Board!vars
<1>1. RowTypes /\ InOrder
    BY DEF IInv, Fired
<1>2. ASSUME NEW d \in Deferrals, Defer(d) PROVE [Board!Next]_Board!vars
    <2>1. Caller(d) /\ DeferJob(d, None) /\ proc' = proc
        BY <1>2, JobQueueAssumption DEF Caller, Defer
    <2>2. \E j \in JobIds : Board!Post(j)
        BY <1>1, <2>1, InsertPosts
    <2> QED BY <2>2 DEF Board!Next
<1>3. ASSUME NEW w \in Workers, NEW task \in Tasks, NEW t \in Ticks, DeferPeriodicJob(w, task, t)
      PROVE  [Board!Next]_Board!vars
    <2>1. \A x \in Workers : proc'[x].job = proc[x].job
        <3>1. proc' = [proc EXCEPT ![w].due = @ \ {<<task, t>>}]
            BY <1>3 DEF DeferPeriodicJob
        <3> QED BY <1>1, <3>1 DEF RowTypes, Process
    <2>2. CASE jobs' = jobs
        BY <2>1, <2>2, BoardStutters
    <2>3. CASE DeferJob(Plain, <<task, t>>)
        <3>1. Caller(Plain) /\ <<task, t>> \in (Tasks \X Ticks) \cup {None}
            BY DEF Caller, Plain
        <3>2. \E j \in JobIds : Board!Post(j)
            BY <1>1, <2>1, <2>3, <3>1, InsertPosts
        <3> QED BY <3>2 DEF Board!Next
    <2> QED BY <1>3, <2>2, <2>3 DEF DeferPeriodicJob
<1> QED BY <1>2, <1>3

\* The commit of a fetch takes the job, and its end ends it.
LEMMA RunOnBoard ==
    ASSUME IInv, NEW w \in Workers, FetchCommit(w) \/ Run(w)
    PROVE  Board!Next
<1>1. RowTypes /\ proc[w] \in Process /\ proc \in [Workers -> Process] /\ jobs \in [JobIds -> Job]
    BY DEF IInv, RowTypes
<1>2. CASE FetchCommit(w)
    <2> DEFINE j == proc[w].fetching
               row == [jobs[j] EXCEPT !.status = "doing", !.worker = proc[w].id]
    <2>1. /\ j # None /\ UpdateRow(j, row, <<>>)
          /\ proc' = [proc EXCEPT ![w].fetching = None, ![w].job = j]
        BY <1>2 DEF FetchCommit
    <2>2. j \in JobIds /\ proc[w].id \in WorkerIds \cup {None}
        BY <1>1, <2>1 DEF Process
    <2>3. jobs[j].status = "todo" /\ proc[w].job = None
        BY <2>1 DEF IInv, Hands, Fetches
    <2>4. row.status = "doing"
        <3>1. row = RowOfFetch(jobs[j], proc[w].id) /\ jobs[j] \in Job
            BY <1>1, <2>2 DEF RowOfFetch
        <3> HIDE DEF row
        <3> QED BY <2>2, <3>1, RowsTyped
    <2>5. proc'[w].job = j /\ \A x \in Workers \ {w} : proc'[x].job = proc[x].job
        BY <1>1, <2>1 DEF Process
    <2> HIDE DEF row, j
    <2>6. PICK k \in JobIds : k = j
        BY <2>2
    <2>7. OnBoard' = [OnBoard EXCEPT ![k] = "running"] /\ OnBoard[k] = "waiting"
        BY <1>1, <2>1, <2>3, <2>4, <2>6, UpdateStatus, BoardMoves, Phases
    <2>8. InHand' = [InHand EXCEPT ![w] = k] /\ InHand[w] = None
        BY <2>3, <2>5, <2>6, HandMoves
    <2>9. Board!Take(w, k)
        BY <2>7, <2>8 DEF Board!Take, Board!Move, OnBoard, InHand
    <2> QED BY <2>9 DEF Board!Next
<1>3. ASSUME NEW end \in {"succeeded", "failed", "aborted"}, FinishJob(w, end) PROVE Board!Next
    <2> DEFINE j == proc[w].job
               row == [jobs[j] EXCEPT !.status = end, !.abort = FALSE,
                            !.attempts = IF jobs[j].status = "doing" THEN @ + 1 ELSE @]
    <2>1. j # None /\ UpdateRow(j, row, <<>>) /\ proc' = [proc EXCEPT ![w].job = None]
        BY <1>3 DEF FinishJob
    <2>2. j \in JobIds
        BY <1>1, <2>1 DEF Process
    <2>3. jobs[j].status = "doing"
        BY <2>1 DEF IInv, Hands, OneRunner
    <2>4. row.status = end
        BY <1>1, <2>2 DEF Job
    <2>5. proc'[w].job = None /\ \A x \in Workers \ {w} : proc'[x].job = proc[x].job
        BY <1>1, <2>1 DEF Process
    <2>6. InHand[w] = j
        BY DEF InHand
    <2> HIDE DEF row, j
    <2>7. Phase(end) = "ended"
        BY Phases
    <2>8. OnBoard' = [OnBoard EXCEPT ![j] = "ended"] /\ OnBoard[j] = "running"
        BY <1>1, <2>1, <2>2, <2>3, <2>4, <2>7, UpdateStatus, BoardMoves, Phases
    <2>9. InHand' = [InHand EXCEPT ![w] = None]
        BY <2>5, HandMoves
    <2>10. Board!End(w)
        BY <2>1, <2>6, <2>8, <2>9 DEF Board!End, Board!Move, OnBoard, InHand
    <2> QED BY <2>10 DEF Board!Next
<1> QED BY <1>2, <1>3 DEF Run

\* The operator withdraws, puts back or gives up a job in nobody's hand; a request to
\* abort a running one is not on the board.
LEMMA OperatorOnBoard ==
    ASSUME IInv, NEW j \in JobIds,
           \/ DeleteJob(j)
           \/ \E abort \in BOOLEAN : CancelJob(j, abort)
           \/ \E at \in Ticks : RetryJob(j, at)
    PROVE  [Board!Next]_Board!vars
<1>1. RowTypes /\ jobs[j] \in Job /\ jobs \in [JobIds -> Job]
    BY DEF IInv, RowTypes
<1>2. proc' = proc /\ InHand' = InHand
    BY DEF DeleteJob, CancelJob, RetryJob, InHand
<1>3. CASE DeleteJob(j)
    <2>1. /\ jobs[j].status = "todo" /\ jobs'[j].status = "deleted"
          /\ \A k \in JobIds \ {j} : jobs'[k].status = jobs[k].status
        BY <1>1, <1>3 DEF DeleteJob, Job
    <2>2. OnBoard' = [OnBoard EXCEPT ![j] = "ended"] /\ OnBoard[j] = "waiting"
        BY <2>1, BoardMoves, Phases
    <2>3. Board!Withdraw(j)
        BY <1>2, <2>2 DEF Board!Withdraw, Board!Move, OnBoard, InHand
    <2> QED BY <2>3 DEF Board!Next
<1>4. ASSUME NEW abort \in BOOLEAN, CancelJob(j, abort) PROVE [Board!Next]_Board!vars
    <2> DEFINE row == [jobs[j] EXCEPT !.abort = @ \/ abort,
                            !.status = IF @ = "todo" THEN "cancelled" ELSE @]
    <2>1. /\ jobs[j].status \in {"todo", "doing"}
          /\ UpdateRow(j, row, IF abort THEN <<"abort_requested">> ELSE <<>>)
        BY <1>4 DEF CancelJob
    <2>2. row.status = IF jobs[j].status = "todo" THEN "cancelled" ELSE jobs[j].status
        BY <1>1 DEF Job
    <2> HIDE DEF row
    <2>3. /\ jobs'[j].status = row.status
          /\ \A k \in JobIds \ {j} : jobs'[k].status = jobs[k].status
        BY <1>1, <2>1, UpdateStatus
    <2>4. CASE jobs[j].status = "doing"
        <3>1. \A k \in JobIds : jobs'[k].status = jobs[k].status
            BY <2>2, <2>3, <2>4
        <3> QED BY <1>2, <3>1, BoardStutters
    <2>5. CASE jobs[j].status = "todo"
        <3>1. jobs'[j].status = "cancelled"
            BY <2>2, <2>3, <2>5
        <3>2. OnBoard' = [OnBoard EXCEPT ![j] = "ended"] /\ OnBoard[j] = "waiting"
            BY <2>3, <2>5, <3>1, BoardMoves, Phases
        <3>3. Board!Withdraw(j)
            BY <1>2, <3>2 DEF Board!Withdraw, Board!Move, OnBoard, InHand
        <3> QED BY <3>3 DEF Board!Next
    <2> QED BY <2>1, <2>4, <2>5
<1>5. ASSUME NEW at \in Ticks, RetryJob(j, at) PROVE [Board!Next]_Board!vars
    <2>1. Board!Loose(j)
        BY <1>5 DEF RetryJob, Board!Loose
    <2>2. jobs[j].status \in {"failed", "doing"}
        BY <1>5 DEF RetryJob
    <2>3. CASE jobs[j].status = "doing" /\ jobs[j].abort
        <3> DEFINE row == [jobs[j] EXCEPT !.status = "failed"]
        <3>1. UpdateRow(j, row, <<>>)
            BY <1>5, <2>3 DEF RetryJob
        <3>2. row.status = "failed"
            BY <1>1 DEF Job
        <3> HIDE DEF row
        <3>3. OnBoard' = [OnBoard EXCEPT ![j] = "ended"] /\ OnBoard[j] = "running"
            BY <1>1, <2>3, <3>1, <3>2, UpdateStatus, BoardMoves, Phases
        <3>4. Board!GiveUp(j)
            BY <1>2, <2>1, <3>3 DEF Board!GiveUp, Board!Move, OnBoard, InHand
        <3> QED BY <3>4 DEF Board!Next
    <2>4. CASE ~(jobs[j].status = "doing" /\ jobs[j].abort)
        <3> DEFINE row == [jobs[j] EXCEPT !.status = "todo", !.attempts = @ + 1, !.scheduled = at]
        <3>1. UpdateRow(j, row, <<>>)
            BY <1>5, <2>4 DEF RetryJob
        <3>2. row.status = "todo"
            <4> DEFINE n == jobs[j].attempts + 1
            <4>1. n \in Nat /\ at \in Nat
                BY <1>1, Basics DEF Job
            <4>2. row = RowOfRetry(jobs[j], n, at)
                BY <1>1 DEF Job, RowOfRetry
            <4> HIDE DEF row, n
            <4> QED BY <1>1, <4>1, <4>2, RowsTyped
        <3> HIDE DEF row
        <3>3. /\ OnBoard' = [OnBoard EXCEPT ![j] = "waiting"]
              /\ OnBoard[j] = "ended" \/ OnBoard[j] = "running"
            BY <1>1, <2>2, <3>1, <3>2, UpdateStatus, BoardMoves, Phases
        <3>4. Board!PutBack(j)
            BY <1>2, <2>1, <3>3 DEF Board!PutBack, Board!Move, OnBoard, InHand
        <3> QED BY <3>4 DEF Board!Next
    <2> QED BY <2>3, <2>4
<1> QED BY <1>3, <1>4, <1>5

\* Every step of the job table is a step of the board, or none.
LEMMA BoardStep == IInv /\ [Next]_vars => [Board!Next]_Board!vars
<1> SUFFICES ASSUME IInv, [Next]_vars PROVE [Board!Next]_Board!vars
    OBVIOUS
<1>1. CASE UNCHANGED vars
    BY <1>1, BoardStutters DEF vars
<1>2. CASE \/ Tick \/ \E i \in WorkerIds : Lapse(i)
           \/ \E w \in Workers : UpdateHeartbeat(w) \/ PruneStalledWorkers(w) \/ Wake(w) \/ FetchLock(w)
    BY <1>2, UnseenOnBoard
<1>3. CASE \/ \E d \in Deferrals : Defer(d)
           \/ \E w \in Workers, task \in Tasks, t \in Ticks : DeferPeriodicJob(w, task, t)
    BY <1>3, DeferOnBoard
<1>4. ASSUME NEW w \in Workers,
             RegisterWorker(w) \/ UnregisterWorker(w) \/ Kill(w) \/ FetchRefused(w)
      PROVE  [Board!Next]_Board!vars
    BY <1>4, WorkerOnBoard
<1>5. ASSUME NEW w \in Workers, FetchCommit(w) \/ Run(w) PROVE Board!Next
    BY <1>5, RunOnBoard
<1>6. ASSUME NEW j \in JobIds,
             \/ DeleteJob(j)
             \/ \E abort \in BOOLEAN : CancelJob(j, abort)
             \/ \E at \in {clock, clock + 1} \cap Ticks : RetryJob(j, at)
      PROVE  [Board!Next]_Board!vars
    BY <1>6, OperatorOnBoard
<1> QED BY <1>1, <1>2, <1>3, <1>4, <1>5, <1>6 DEF Next

\* The job table is a board (JobBoard): posted once, taken by one worker, ended in its
\* hand, put back or given up only from nobody's.
THEOREM SpecImplementsBoard == Spec => ImplementsBoard
<1>1. Init => Board!Init
    <2> SUFFICES ASSUME Init PROVE Board!Init
        OBVIOUS
    <2>1. NoRow.status = "absent" /\ Dead.job = None
        BY DEF NoRow, Dead
    <2> QED BY <2>1, Phases DEF Init, Board!Init
<1> QED BY <1>1, BoardStep, SpecIInv, PTL DEF Spec, ImplementsBoard, Board!Spec
================================================================================
