----------------------------- MODULE JobRuntime -----------------------------
(***************************************************************************)
(* The durable job runtime: the PostgreSQL jobs table, the Redis wake-up    *)
(* queue, the worker processes, the scheduler and the transactional outbox *)
(* (runtime/repositories.py, worker.py, scheduler.py, transport.py,        *)
(* handlers.py).                                                           *)
(*                                                                         *)
(* A worker handles a job in up to three database transactions (claim,     *)
(* handle, record failure) and the scheduler runs one long transaction;    *)
(* every other process may act between any two of their steps.  A          *)
(* transaction loads a row into its session and, at commit, SQLAlchemy     *)
(* writes the columns whose value it changed to the row as it is then:     *)
(* nothing re-checks what was loaded (operator Flush).                     *)
(*                                                                         *)
(* Time is abstracted to what the code compares with now(): a lease is     *)
(* "live" or "expired", a job is "due" or available "later", and the clock *)
(* may move any of them at any moment.                                     *)
(***************************************************************************)
EXTENDS Naturals, FiniteSets

CONSTANTS
  Workers,      \* the worker processes
  WorkerId,     \* the lease_owner string each of them writes
  NoOwner,      \* lease_owner IS NULL
  NoJob,        \* a worker that holds no job
  Direct,       \* jobs created by a service or a handler
  Events,       \* outbox events, numbered by created_at; event e's dispatch
                \* job (idempotency key outbox:{e}) is also called e
  MaxAttempts,  \* max_attempts of each job
  BatchSize,    \* the scheduler's batch_size
  QueueCap,     \* bound: copies of one job id kept in the Redis list
  MaxFaults     \* bounds: [crash, stall, loss], faults that may still happen

Jobs == Direct \cup Events

ASSUME JobsAssumption ==
  /\ Events \subseteq Nat
  /\ Direct \cap Events = {}
  /\ NoJob \notin Jobs

ASSUME WorkersAssumption ==
  WorkerId \in [Workers -> {WorkerId[w] : w \in Workers} \ {NoOwner}]

ASSUME BoundsAssumption ==
  /\ MaxAttempts \in [Jobs -> Nat \ {0}]
  /\ BatchSize \in Nat \ {0}
  /\ QueueCap \in Nat \ {0}
  /\ MaxFaults \in [crash : Nat, stall : Nat, loss : Nat]

VARIABLES
  jobs,     \* the jobs table: one row per idempotency key
  outbox,   \* the outbox_events table: status of each event
  queue,    \* the Redis list: copies of each job id in it
  worker,   \* what each worker process is doing
  sched,    \* what the scheduler process is doing
  faults,   \* faults that may still happen
  lapsed    \* history: jobs whose lease has expired at least once

vars == <<jobs, outbox, queue, worker, sched, faults, lapsed>>

Owners == {WorkerId[w] : w \in Workers} \cup {NoOwner}

\* ABSENT: no row.  UNCOMMITTED: inserted by a transaction still open, seen by
\* nobody else.  The other five are the table's check constraint.
Statuses == {"ABSENT", "UNCOMMITTED", "QUEUED", "RUNNING", "RETRY_WAIT",
             "SUCCEEDED", "FAILED"}

Row == [status : Statuses, attempt : Nat, owner : Owners,
        lease : {"none", "live", "expired"}, avail : {"due", "later"}]

NoRow == [status |-> "ABSENT", attempt |-> 0, owner |-> NoOwner,
          lease |-> "none", avail |-> "due"]

\* idle; popped: holds an id from Redis; claimed: claim committed; handling:
\* inside the handler's transaction; failed: that was rolled back; recording:
\* inside the failure transaction.
WorkerState == [pc : {"idle", "popped", "claimed", "handling", "failed", "recording"},
                job : Jobs \cup {NoJob}, loaded : Row, retry : BOOLEAN]

At(pc, j, loaded, retry) == [pc |-> pc, job |-> j, loaded |-> loaded, retry |-> retry]

Idle == At("idle", NoJob, NoRow, FALSE)

\* Where run_once is, the expired rows it loaded and the dispatch jobs it
\* inserted.
SchedState == [pc : {"idle", "recovered", "outbox", "due"}, expired : SUBSET Jobs,
               loaded : [Jobs -> Row], created : SUBSET Events]

Waiting == [pc |-> "idle", expired |-> {}, loaded |-> [j \in Jobs |-> NoRow],
            created |-> {}]

-----------------------------------------------------------------------------
(* Rows and the session's unit of work.                                    *)

Terminal(j) == jobs[j].status \in {"SUCCEEDED", "FAILED"}

Committed(j) == jobs[j].status \notin {"ABSENT", "UNCOMMITTED"}

\* A row create_job inserts: no caller asks for a later available_at.
Queued == [NoRow EXCEPT !.status = "QUEUED"]

\* The value a column has after a commit that assigned it.
Column(current, loaded, assigned) == IF assigned = loaded THEN current ELSE assigned

\* The row after the commit of a session that loaded it as "loaded", assigned
\* the status and available_at of upd, and cleared lease_owner and
\* lease_expires_at.  A new timestamp always differs from the loaded one.
Flush(row, loaded, upd) ==
  [status  |-> Column(row.status, loaded.status, upd.status),
   attempt |-> row.attempt,
   owner   |-> Column(row.owner, loaded.owner, NoOwner),
   lease   |-> Column(row.lease, loaded.lease, "none"),
   avail   |-> IF upd.avail = "keep" THEN row.avail ELSE upd.avail]

mark_job_succeeded == [status |-> "SUCCEEDED", avail |-> "keep"]

\* Mutants: one attempt too many; a status the table does not know.
RetriesOnceMore(j, loaded, retry) ==
  IF retry /\ loaded.attempt <= MaxAttempts[j]
  THEN [status |-> "RETRY_WAIT", avail |-> "later"]
  ELSE [status |-> "FAILED", avail |-> "keep"]

FailsAsError(j, loaded, retry) == [status |-> "ERROR", avail |-> "keep"]

mark_job_failed_or_retrying(j, loaded, retry) ==
  IF retry /\ loaded.attempt < MaxAttempts[j]
  THEN [status |-> "RETRY_WAIT", avail |-> "later"]
  ELSE [status |-> "FAILED", avail |-> "keep"]

recover_expired_lease(j, loaded) ==
  IF loaded.attempt >= MaxAttempts[j]
  THEN [status |-> "FAILED", avail |-> "keep"]
  ELSE [status |-> "RETRY_WAIT", avail |-> "due"]

\* Mutants: a retry is never due; a terminal status does not stop a claim.
DueFirstTimeOnly(row) == row.status = "QUEUED" /\ row.avail = "due"

DueAfterFailure(row) ==
  row.status \in {"QUEUED", "RETRY_WAIT", "FAILED"} /\ row.avail = "due"

Due(row) == row.status \in {"QUEUED", "RETRY_WAIT"} /\ row.avail = "due"

LeaseExpired(row) == row.status = "RUNNING" /\ row.lease = "expired"

\* Mutant: RUNNING is claimed without looking at lease_expires_at.
ClaimableWhileLeased(row) == Due(row) \/ row.status = "RUNNING"

Claimable(row) == Due(row) \/ LeaseExpired(row)

\* RPUSH of the ids in S (a full list keeps QueueCap copies).
Push(S) == [j \in Jobs |-> IF j \in S /\ queue[j] < QueueCap
                           THEN queue[j] + 1 ELSE queue[j]]

\* run_once has flushed its session (an insert of create_job does): the expired
\* rows it updated are locked until it ends.
Flushed == sched.pc \in {"outbox", "due"} /\ sched.created # {}

Locked(j) == Flushed /\ j \in sched.expired

-----------------------------------------------------------------------------
Init ==
  /\ jobs = [j \in Jobs |-> NoRow]
  /\ outbox = [e \in Events |-> "NONE"]
  /\ queue = [j \in Jobs |-> 0]
  /\ worker = [w \in Workers |-> Idle]
  /\ sched = Waiting
  /\ faults = MaxFaults
  /\ lapsed = {}

-----------------------------------------------------------------------------
(* Clients: services and handlers that create jobs and outbox events.      *)

\* create_job inserts and flushes, queue.enqueue pushes; the commit comes later.
SubmitNew(j) ==
  /\ jobs[j].status = "ABSENT"
  /\ jobs' = [jobs EXCEPT ![j].status = "UNCOMMITTED"]
  /\ queue' = Push({j})
  /\ UNCHANGED <<outbox, worker, sched, faults, lapsed>>

SubmitCommit(j) ==
  /\ jobs[j].status = "UNCOMMITTED"
  /\ jobs' = [jobs EXCEPT ![j] = Queued]
  /\ UNCHANGED <<outbox, queue, worker, sched, faults, lapsed>>

SubmitRollback(j) ==
  /\ jobs[j].status = "UNCOMMITTED"
  /\ jobs' = [jobs EXCEPT ![j] = NoRow]
  /\ UNCHANGED <<outbox, queue, worker, sched, faults, lapsed>>

\* create_job finds the row of this idempotency key; its id is pushed again.
SubmitExisting(j) ==
  /\ Committed(j)
  /\ queue' = Push({j})
  /\ UNCHANGED <<jobs, outbox, worker, sched, faults, lapsed>>

\* A business transaction commits an outbox event.
EmitEvent(e) ==
  /\ outbox[e] = "NONE"
  /\ \A f \in Events : f < e => outbox[f] # "NONE"
  /\ outbox' = [outbox EXCEPT ![e] = "PENDING"]
  /\ UNCHANGED <<jobs, queue, worker, sched, faults, lapsed>>

-----------------------------------------------------------------------------
(* Workers.                                                                *)

\* process_one_from_queue: BLPOP removes the id for good.
Dequeue(w, j) ==
  /\ worker[w].pc = "idle"
  /\ queue[j] > 0
  /\ queue' = [queue EXCEPT ![j] = @ - 1]
  /\ worker' = [worker EXCEPT ![w] = At("popped", j, NoRow, FALSE)]
  /\ UNCHANGED <<jobs, outbox, sched, faults, lapsed>>

\* Mutant: the claim sets no lease_expires_at.
ClaimedUnleased(w, row) ==
  [status |-> "RUNNING", attempt |-> row.attempt + 1, owner |-> WorkerId[w],
   lease |-> "none", avail |-> row.avail]

\* claim_job: one conditional UPDATE, committed at once.
ClaimedRow(w, row) ==
  [status |-> "RUNNING", attempt |-> row.attempt + 1, owner |-> WorkerId[w],
   lease |-> "live", avail |-> row.avail]

Claim(w) ==
  LET j == worker[w].job IN
  /\ worker[w].pc = "popped"
  /\ ~Locked(j)
  /\ \/ /\ Claimable(jobs[j])
        /\ jobs' = [jobs EXCEPT ![j] = ClaimedRow(w, jobs[j])]
        /\ worker' = [worker EXCEPT ![w] = At("claimed", j, NoRow, FALSE)]
     \/ /\ ~Claimable(jobs[j])
        /\ worker' = [worker EXCEPT ![w] = Idle]
        /\ UNCHANGED jobs
  /\ UNCHANGED <<outbox, queue, sched, faults, lapsed>>

\* Mutant: lease_owner is not compared.
StillRunning(w, row) == row.status = "RUNNING"

\* The second transaction loads the row and goes on only if it is RUNNING
\* under this worker's id.
StillClaimed(w, row) == row.status = "RUNNING" /\ row.owner = WorkerId[w]

BeginHandling(w) ==
  LET j == worker[w].job IN
  /\ worker[w].pc = "claimed"
  /\ worker' = [worker EXCEPT ![w] =
                  IF StillClaimed(w, jobs[j])
                  THEN At("handling", j, jobs[j], FALSE)
                  ELSE Idle]
  /\ UNCHANGED <<jobs, outbox, queue, sched, faults, lapsed>>

\* Mutant: the dispatch handler leaves the event as it is.
DispatchedNothing(j) == outbox

\* OutboxDispatchHandler: its effect is the event's status.
Dispatched(j) == [outbox EXCEPT ![j] = "PUBLISHED"]

\* The handler returns: its effects and the job's success commit together.
HandlerSucceeds(w) ==
  LET j == worker[w].job IN
  /\ worker[w].pc = "handling"
  /\ ~Locked(j)
  /\ jobs' = [jobs EXCEPT ![j] = Flush(@, worker[w].loaded, mark_job_succeeded)]
  /\ outbox' = IF j \in Events THEN Dispatched(j) ELSE outbox
  /\ worker' = [worker EXCEPT ![w] = Idle]
  /\ UNCHANGED <<queue, sched, faults, lapsed>>

\* It raises a TransientJobError (retry) or anything else: rollback.
HandlerRaises(w, retry) ==
  /\ worker[w].pc = "handling"
  /\ worker' = [worker EXCEPT ![w] = At("failed", worker[w].job, NoRow, retry)]
  /\ UNCHANGED <<jobs, outbox, queue, sched, faults, lapsed>>

\* _record_failure: a new transaction loads the row as it is now ...
LoadForFailure(w) ==
  LET j == worker[w].job IN
  /\ worker[w].pc = "failed"
  /\ worker' = [worker EXCEPT ![w] = At("recording", j, jobs[j], worker[w].retry)]
  /\ UNCHANGED <<jobs, outbox, queue, sched, faults, lapsed>>

\* ... and commits the failure, whatever the row has become.
RecordFailure(w) ==
  LET j == worker[w].job
      upd == mark_job_failed_or_retrying(j, worker[w].loaded, worker[w].retry) IN
  /\ worker[w].pc = "recording"
  /\ ~Locked(j)
  /\ jobs' = [jobs EXCEPT ![j] = Flush(@, worker[w].loaded, upd)]
  /\ worker' = [worker EXCEPT ![w] = Idle]
  /\ UNCHANGED <<outbox, queue, sched, faults, lapsed>>

-----------------------------------------------------------------------------
(* The scheduler: run_once is one transaction of four steps.               *)

\* recover_expired_leases loads the expired rows and changes them in the session.
SchedRecover ==
  /\ sched.pc = "idle"
  /\ LET expired == {j \in Jobs : LeaseExpired(jobs[j])} IN
     sched' = [pc |-> "recovered", expired |-> expired, created |-> {},
               loaded |-> [j \in Jobs |-> IF j \in expired THEN jobs[j] ELSE NoRow]]
  /\ UNCHANGED <<jobs, outbox, queue, worker, faults, lapsed>>

\* Mutant: the batch is one short.
OldestPendingButOne ==
  LET pending == {e \in Events : outbox[e] = "PENDING"} IN
  {e \in pending : Cardinality({f \in pending : f < e}) < BatchSize - 1}

\* enqueue_pending_outbox: the oldest PENDING events; create_job inserts the
\* dispatch jobs that have no row yet, and every id is pushed.
OldestPending ==
  LET pending == {e \in Events : outbox[e] = "PENDING"} IN
  {e \in pending : Cardinality({f \in pending : f < e}) < BatchSize}

SchedOutbox ==
  /\ sched.pc = "recovered"
  /\ sched' = [pc |-> "outbox", expired |-> sched.expired, loaded |-> sched.loaded,
               created |-> {e \in OldestPending : jobs[e].status = "ABSENT"}]
  /\ queue' = Push(OldestPending)
  /\ UNCHANGED <<jobs, outbox, worker, faults, lapsed>>

\* What the scheduler's own transaction reads: its changes only once flushed
\* (autoflush is off).
Visible(j) ==
  CASE Flushed /\ j \in sched.expired ->
         Flush(jobs[j], sched.loaded[j], recover_expired_lease(j, sched.loaded[j]))
    [] Flushed /\ j \in sched.created -> Queued
    [] OTHER -> jobs[j]

\* enqueue_due_jobs: at most BatchSize due rows, the longest due first; the
\* model leaves open which ones those are.
SchedDue ==
  LET due == {j \in Jobs : Due(Visible(j))} IN
  /\ sched.pc = "outbox"
  /\ \E batch \in SUBSET due :
       /\ Cardinality(batch) = IF Cardinality(due) < BatchSize
                               THEN Cardinality(due) ELSE BatchSize
       /\ queue' = Push(batch)
  /\ sched' = [sched EXCEPT !.pc = "due"]
  /\ UNCHANGED <<jobs, outbox, worker, faults, lapsed>>

\* The transaction commits, after its messages were sent.
SchedCommit ==
  /\ sched.pc = "due"
  /\ jobs' = [j \in Jobs |->
       IF j \in sched.expired
       THEN Flush(jobs[j], sched.loaded[j], recover_expired_lease(j, sched.loaded[j]))
       ELSE IF j \in sched.created THEN Queued ELSE jobs[j]]
  /\ sched' = Waiting
  /\ UNCHANGED <<outbox, queue, worker, faults, lapsed>>

-----------------------------------------------------------------------------
(* Time and faults.                                                        *)

\* Worker w has claimed j and not yet finished with it.
Engaged(w, j) ==
  /\ worker[w].pc \in {"claimed", "handling", "failed", "recording"}
  /\ worker[w].job = j

\* A lease runs out ...
ExpireLease(j) ==
  /\ jobs[j].lease = "live"
  /\ jobs' = [jobs EXCEPT ![j].lease = "expired"]
  /\ lapsed' = lapsed \cup {j}

\* ... after the worker that held it died ...
OrphanLeaseExpires(j) ==
  /\ \A w \in Workers : ~Engaged(w, j)
  /\ ExpireLease(j)
  /\ UNCHANGED <<outbox, queue, worker, sched, faults>>

\* ... or while a worker is slower than lease_seconds.
LeaseExpiresUnderWorker(j) ==
  /\ faults.stall > 0
  /\ \E w \in Workers : Engaged(w, j)
  /\ ExpireLease(j)
  /\ faults' = [faults EXCEPT !.stall = @ - 1]
  /\ UNCHANGED <<outbox, queue, worker, sched>>

\* retry_backoff has passed.
BackoffElapses(j) ==
  /\ jobs[j].avail = "later"
  /\ jobs' = [jobs EXCEPT ![j].avail = "due"]
  /\ UNCHANGED <<outbox, queue, worker, sched, faults, lapsed>>

\* Redis loses a message.
LoseMessage(j) ==
  /\ faults.loss > 0
  /\ queue[j] > 0
  /\ queue' = [queue EXCEPT ![j] = @ - 1]
  /\ faults' = [faults EXCEPT !.loss = @ - 1]
  /\ UNCHANGED <<jobs, outbox, worker, sched, lapsed>>

\* A worker dies and is restarted: its open transaction is rolled back.
CrashWorker(w) ==
  /\ faults.crash > 0
  /\ worker[w].pc # "idle"
  /\ worker' = [worker EXCEPT ![w] = Idle]
  /\ faults' = [faults EXCEPT !.crash = @ - 1]
  /\ UNCHANGED <<jobs, outbox, queue, sched, lapsed>>

\* So does the scheduler: the messages it sent stay in Redis.
CrashScheduler ==
  /\ faults.crash > 0
  /\ sched.pc # "idle"
  /\ sched' = Waiting
  /\ faults' = [faults EXCEPT !.crash = @ - 1]
  /\ UNCHANGED <<jobs, outbox, queue, worker, lapsed>>

-----------------------------------------------------------------------------
Client ==
  \/ \E j \in Direct : SubmitNew(j) \/ SubmitCommit(j) \/ SubmitRollback(j)
                       \/ SubmitExisting(j)
  \/ \E e \in Events : EmitEvent(e)

WorkerStep(w) ==
  \/ Claim(w) \/ BeginHandling(w)
  \/ HandlerSucceeds(w) \/ (\E retry \in BOOLEAN : HandlerRaises(w, retry))
  \/ LoadForFailure(w) \/ RecordFailure(w)

Scheduler == SchedRecover \/ SchedOutbox \/ SchedDue \/ SchedCommit

Clock(j) == OrphanLeaseExpires(j) \/ LeaseExpiresUnderWorker(j) \/ BackoffElapses(j)

Fault ==
  \/ \E j \in Jobs : LoseMessage(j)
  \/ \E w \in Workers : CrashWorker(w)
  \/ CrashScheduler

Next ==
  \/ Client
  \/ \E w \in Workers : WorkerStep(w) \/ \E j \in Jobs : Dequeue(w, j)
  \/ Scheduler
  \/ \E j \in Jobs : Clock(j)
  \/ Fault

Spec == Init /\ [][Next]_vars

\* Workers and scheduler loop for ever and are restarted after a crash; every
\* handler ends (its provider calls have timeouts); each id of the FIFO list is
\* popped in the end; clocks advance; an open transaction ends.  Nobody is
\* obliged to submit anything, and no fault has to happen.
Fairness ==
  /\ \A w \in Workers : WF_vars(WorkerStep(w))
  /\ \A j \in Jobs : SF_vars(\E w \in Workers : Dequeue(w, j))
  /\ WF_vars(Scheduler)
  /\ \A j \in Jobs : WF_vars(OrphanLeaseExpires(j)) /\ WF_vars(BackoffElapses(j))
  /\ \A j \in Direct : WF_vars(SubmitCommit(j) \/ SubmitRollback(j))

FairSpec == Spec /\ Fairness

-----------------------------------------------------------------------------
(* Correctness.                                                            *)

\* The variables have the shape the tables, the queue and the processes have.
TypeOK ==
  /\ jobs \in [Jobs -> Row]
  /\ outbox \in [Events -> {"NONE", "PENDING", "PUBLISHED"}]
  /\ queue \in [Jobs -> 0 .. QueueCap]
  /\ worker \in [Workers -> WorkerState]
  /\ \A w \in Workers : worker[w].pc # "idle" => worker[w].job \in Jobs
  /\ sched \in SchedState
  /\ faults \in [crash : Nat, stall : Nat, loss : Nat]
  /\ lapsed \subseteq Jobs

\* Every worker process writes a lease_owner of its own.
DistinctIds == \A v, w \in Workers : WorkerId[v] = WorkerId[w] => v = w

\* Two workers are never inside the handler for the same attempt of a job: the
\* lease_owner check of process_job_id keeps a worker whose claim was taken over
\* out of the new attempt.  It needs DistinctIds.
ExclusiveAttempt ==
  \A v, w \in Workers :
    (/\ worker[v].pc = "handling" /\ worker[w].pc = "handling"
     /\ worker[v].job = worker[w].job
     /\ worker[v].loaded.attempt = worker[w].loaded.attempt) => v = w

\* As long as the lease of a job has never expired, claim_job lets at most one
\* worker past it, whatever Redis duplicates, and counts no attempt beyond
\* max_attempts.
LeaseGuardsJob ==
  \A j \in Jobs \ lapsed :
    /\ \A v, w \in Workers : Engaged(v, j) /\ Engaged(w, j) => v = w
    /\ jobs[j].attempt <= MaxAttempts[j]

\* Why ExclusiveAttempt holds (with DistinctIds): a worker inside the handler
\* loaded a row that carried its id, and as long as attempt_count is still the
\* loaded one no other id has been written.
AttemptOwned ==
  \A w \in Workers : worker[w].pc = "handling" =>
    LET row == jobs[worker[w].job]
        loaded == worker[w].loaded IN
    /\ loaded.owner = WorkerId[w]
    /\ loaded.attempt <= row.attempt
    /\ loaded.attempt = row.attempt => row.owner \in {WorkerId[w], NoOwner}

\* Why LeaseGuardsJob holds: the row of a job whose lease never expired is
\* consistent, the one worker engaged with it has loaded the row as it is, and
\* the scheduler holds neither a stale copy of it nor a duplicate.
RowInOrder(j) ==
  /\ jobs[j].lease = IF jobs[j].status = "RUNNING" THEN "live" ELSE "none"
  /\ jobs[j].status = "RUNNING" => jobs[j].avail = "due"
  /\ ~Committed(j) => jobs[j].attempt = 0
  /\ jobs[j].status \in {"QUEUED", "RETRY_WAIT"} => jobs[j].attempt < MaxAttempts[j]
  /\ jobs[j].attempt <= MaxAttempts[j]

HolderInOrder(j) ==
  /\ \A w \in Workers : Engaged(w, j) =>
       /\ jobs[j].status = "RUNNING"
       /\ worker[w].pc \in {"handling", "recording"} => worker[w].loaded = jobs[j]
  /\ \A v, w \in Workers : Engaged(v, j) /\ Engaged(w, j) => v = w

LeaseInv ==
  /\ \A j \in Jobs \ lapsed : RowInOrder(j) /\ HolderInOrder(j)
  /\ \A j \in lapsed : Committed(j)
  /\ sched.expired \subseteq lapsed
  /\ \A e \in sched.created : jobs[e].status = "ABSENT"

\* A RUNNING row has a lease, so claim_job or recover_expired_leases can take
\* it over once the worker is gone.
RunningIsLeased ==
  \A j \in Jobs : jobs[j].status = "RUNNING" => jobs[j].lease # "none"

\* A dispatch job that succeeded has published its event, and only its handler
\* publishes: no event is published while its job has never been claimed.
DispatchPublishes ==
  \A e \in Events :
    /\ jobs[e].status = "SUCCEEDED" => outbox[e] = "PUBLISHED"
    /\ outbox[e] = "PUBLISHED" => jobs[e].attempt > 0

\* Every job that was committed stops in the end: crashed workers, lost and
\* duplicated messages, expired leases and retries never leave it waiting or
\* RUNNING for ever.
JobsSettle == \A j \in Jobs : <>[](Committed(j) => Terminal(j))

\* Every pending outbox event is published unless its dispatch job failed.
EventsDispatched ==
  \A e \in Events : outbox[e] = "PENDING" ~> (outbox[e] = "PUBLISHED" \/ jobs[e].status = "FAILED")

\* The job as its lifecycle sees it; a job whose lease expired is not tracked.
Phase(status) ==
  CASE status \in {"ABSENT", "UNCOMMITTED"}  -> "none"
    [] status \in {"QUEUED", "RETRY_WAIT"}   -> "waiting"
    [] status = "RUNNING"                    -> "running"
    [] status = "SUCCEEDED"                  -> "succeeded"
    [] status = "FAILED"                     -> "failed"

LifeOf ==
  [j \in Jobs |-> IF j \in lapsed THEN [phase |-> "untracked", attempt |-> 0]
                  ELSE [phase |-> Phase(jobs[j].status), attempt |-> jobs[j].attempt]]

Lifecycle == INSTANCE JobLifecycle WITH life <- LifeOf

\* Until its lease expires a job goes through the lifecycle JobLifecycle
\* states: one attempt at a time, none after a terminal status.
ImplementsLifecycle == Lifecycle!LifeSpec

=============================================================================
