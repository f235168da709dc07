# Launch OS v11 in TLA+

This directory is the verification development of Launch OS v11: TLA+ modules
translated from the Python source, TLC configurations that check them on small
instances, and TLAPS proofs of the results that hold for every value of the
constants.  All paths below are relative to `src/src/launch_os_v11/`.

## The system

Launch OS v11 takes a business from a snapshot of its state to a decision, from
the decision to content, from the content to a Telegram post, and from the post
to a lesson.  Every step is a job in a PostgreSQL table that worker processes
run; Redis only says which job ids are worth a look.

| Component | State | Operations | Talks to |
| --- | --- | --- | --- |
| Job runtime (`runtime/`) | `jobs`, `outbox_events`, the Redis list | `create_job`, `claim_job`, `Worker.process_job_id`, `_record_failure`, `RuntimeScheduler.run_once` (recover leases, enqueue outbox, enqueue due jobs) | runs every handler below |
| Telegram execution (`execution/`) | actions, executions, external references, publications, connector accounts, global controls, experiments | `create_action_proposal`, `approve_action_proposal`, `set_global_execution_controls`, `probe_and_register_telegram_connector`, `TelegramExecutionHandler.handle` | the runtime (one job per execution), the Telegram API |
| Agent runtime (`ai_runtime/`) | agent runs and definitions | `create_agent_run`, `AgentRunJobHandler.handle`, `record_attempt_failure` | the runtime (one job per run), model providers |
| Decision workflow (`application/decision_workflow.py`, `decision_governance.py`, `phase6.py`) | workflow status, revision count, contributions, candidates, controller reviews, the final decision, its approval | `start_decision_workflow`, the advance handler, `approve_decision_for_production` | agent runs, advance jobs |
| Production workflow (`production/`, `application/production_workflow.py`) | production status, briefs, asset versions, reviews | `start_production_workflow`, the advance handler; `persist_decision` of a successor stops it | agent runs, advance jobs that poll by raising `TransientJobError`, the decision's successor |
| Observation, metrics, learning (`analytics/`, `connectors/telegram_observation.py`) | observation cursor and coverage per account, observations and events, metric versions, results, learnings | `configure_telegram_observation`, `TelegramObservationHandler`, `CalculateMetricVersionHandler`, `InterpretCheckpointHandler`, `GovernedLearningHandler` | the runtime, publications, Telegram's update queue |
| Persistence (`persistence/`) | tenant-scoped SQLAlchemy sessions | commit, rollback, unique constraints | everything |

### What is hard here

* A worker handles a job in up to three transactions, and the scheduler in one
  long one; the other processes act in between.  Sessions are created with
  `autoflush=False, expire_on_commit=False` and no version counter, so a commit
  writes the columns that the session changed over whatever the row has become.
* Redis may lose and duplicate ids.  Callers push an id before they commit the
  row.  Workers crash and stall beyond their lease.
* Telegram is not transactional: the message is there although the transaction
  that recorded it is rolled back, and a timeout leaves it open.
* Telegram's update queue forgets: what lies below the offset of a poll is gone,
  what is older than a day too, one queue serves all accounts of a bot token, and one
  answer holds at most 100 updates.
* The workflows poll: an advance job creates the next advance job under an
  idempotency key, and a key that is already taken yields the old job.

### What makes each part correct

* Job runtime: one worker per attempt, never more attempts than allowed, no job
  lost or left RUNNING, no event undelivered.
* Execution: at most one message per action, and records that say what happened.
* Agent runs: a run says what its job says, one model call per attempt, and a
  SUCCEEDED run has an output for the workflow that waits.
* Decision workflow: a decision only of a candidate that every controller let
  pass, one decision, bounded revisions, verdicts that stand, an end.
* Production: what is handed on is the latest asset version, reviewed as it is by
  every controller; nothing more once the decision is superseded, and
  nothing less before; bounded revisions, an end.
* Learning: no update lost unnoticed, each counted once, COMPLETE only of what was
  seen as a whole, verdicts that are true of what happened, one result and one
  learning.

The hazards, each at its line, are listed in `PROJECT.json`.

## Modules

| Module | Models | Notes |
| --- | --- | --- |
| `JobLifecycle` | what ADR 0005 promises about one job | the abstract specification |
| `JobRuntime` | `runtime/repositories.py`, `worker.py`, `scheduler.py`, `transport.py`, `handlers.py` | refines `JobLifecycle` |
| `TelegramExecution` | `execution/service.py`, `governance.py`, `telegram.py` | extends `JobRuntime`: the execution handler replaces its abstract handler |
| `AgentRuns` | `ai_runtime/service.py`, `job_handler.py`, `adapters/openai.py` | extends `JobRuntime`: the agent run's handler, and its failure record, replace the abstract ones |
| `DecisionWorkflow` | `application/decision_workflow.py`, `decision_governance.py`, the advance handler of `phase6.py`; agent runs of `ai_runtime/` as the workflow sees them | takes the job runtime at the promise of `JobLifecycle` |
| `ProductionWorkflow` | `application/production_workflow.py`, `production/`; agent runs as the workflow sees them | takes the job runtime at the promise of `JobLifecycle` |
| `LearningLoop` | `analytics/phase6.py`, `contracts.py`, `connectors/telegram_observation.py` | takes the job runtime at the promise of `JobLifecycle`, and publication from `TelegramExecution` as two steps |
| `MCJobRuntime`, `MCTelegramExecution`, `MCAgentRuns`, `MCDecisionWorkflow`, `MCProductionWorkflow`, `MCLearningLoop` | constants for TLC | |
| `JobRuntimeProofs`, `TelegramExecutionProofs`, `AgentRunsProofs`, `DecisionWorkflowProofs`, `ProductionWorkflowProofs`, `LearningLoopProofs`, `LearningOutcomeProofs`, `LearningCountProofs` | theorems | |

### JobRuntime

`jobs[j]` is the row of the job with idempotency key `j`.  `ABSENT` means no
row; `UNCOMMITTED` a row that a client's open transaction has inserted, whose id
may already be in Redis.  Times are abstracted to what the code compares with
`now()`: the lease is `live` or `expired`, `available_at` is `due` or `later`.
`queue[j]` counts the copies of the id in the Redis list.  `worker[w]` is the
program counter of a worker, the row as its session has loaded it, and whether
the exception was a transient one.  `sched` is the same for the scheduler: the
expired rows it has loaded and the dispatch jobs it has inserted.  `lapsed` is a
history variable, the jobs whose lease has expired at least once.

`Flush` is the heart of the model: a commit writes a column only if the session
assigned it a value that differs from the loaded one, and it writes it to the
row as it is then.  Worker: `Dequeue` (BLPOP), `Claim` (the conditional UPDATE),
`BeginHandling` (the check of status and `lease_owner` in a second transaction),
`HandlerSucceeds` or `HandlerRaises`, `LoadForFailure`, `RecordFailure`.
Scheduler: `SchedRecover`, `SchedOutbox`, `SchedDue`, `SchedCommit`, one
transaction; once an insert has flushed it, the rows it updated are locked
(`Locked`).  Clients: `SubmitNew`, `SubmitCommit`, `SubmitRollback`,
`SubmitExisting`, `EmitEvent`.  Environment: `OrphanLeaseExpires`,
`LeaseExpiresUnderWorker`, `BackoffElapses`, `LoseMessage`, `CrashWorker`,
`CrashScheduler`.

### TelegramExecution

An action, its execution (key `execution:{action}`) and its job (key
`telegram-execution:{execution}`) share their name.  `handler[w]` says where
`TelegramExecutionHandler.handle` is in worker `w` and which action and
execution status its session has read.  The provider call is a step of its own,
between `MarkRunning` (the flush of RUNNING, which waits for the row lock of
another worker) and the end; it accepts, rejects, or leaves it open whether the
message was sent.  A rejection is what `_write_call` takes for one: any HTTP error,
behind which a gateway may have lost the answer to a message that was sent, so
`ProviderRejects` may deliver as well as `ProviderAmbiguous`.  `FinishCommits` writes all that the handler writes, together
with the job's success; `FinishConflicts` and `DbFails` roll it all back.  What
never changes after it is stored (binding to the production workflow, permission
grant, reviews, approval, payload hash) is not checked again in the model.

### AgentRuns

A run and its job (key `agent_run:{run}`) share their name.  `run[r]` is the
`agent_runs` row: its status, and the output, named after the attempt that made
it.  RUNNING is flushed but never committed by itself, so the row never has it;
the flush is `MarkRunning`, which waits for the row lock of another worker and
reads nothing again.  `agent[w]` says where `AgentRunJobHandler.handle`, or
`record_attempt_failure`, is in worker `w` and which row its session has read.
The model call ends in `Answer` (an output, a refusal, something unusable) or in
`Raise`: a contract, definition, context or route that does not fit is permanent,
a provider failure is permanent or transient.  `Persist` commits the result
together with the job's success; `RecordAttempt` writes run and job in the one
failure transaction.  `calls` is history.  `create_agent_run` with a key that is
taken returns the run that is there and pushes nothing, so it is no step.

### DecisionWorkflow

`workflow` is the row of one decision workflow; its status passes through
SPECIALISTS_READY, DECISION_CANDIDATE_READY, REVISION_REQUIRED,
CANDIDATE_ACCEPTED and FINAL_DECISION_MATERIALIZED only inside a transaction, so
the model has no such states.  `jobs` are the advance jobs by the suffix of their
idempotency key (`start`, `after-...` with a candidate version and the generation
of a retry, or a status and revision count for a resumption); a key that is taken
yields the old job, whatever has become of it.  `runs[r]` counts the agent runs
of a role for what it works on now, and holds what the last one left: an output,
nothing usable, or nothing yet.  An orphaned run is one whose job the scheduler
failed without telling the run.

An advance is one transaction in two steps.  `Begin` reads and makes the plan:
`_advance_workflow` is an operator from the loaded row to the row, runs, job,
candidate and decision that it will write, with one operator per status.
`Commit` writes the plan: the changed columns over the row as it is then, and
inserts.  `Conflicts` is the plan whose inserts meet a unique key that another
transaction has taken since (agent runs, jobs, candidates, contributions);
controller reviews and decisions have no such key.  `Raises` is a plan that ends
in a `PermanentJobError`.  Nothing in an advance raises a `TransientJobError`, so
a failed job is FAILED at once.  A candidate is one of four kinds and a review
one of five verdicts: what the detectors, the evidence checks and the outcome
tell apart.  Reads that fall between another transaction's statements are taken
to happen at `Begin`; of the earlier candidates, which no advance reads, none is
kept.  The owner's start, resumption and approval are single steps.

### ProductionWorkflow

`workflow` is the row of one production workflow.  CONTENT_STRATEGY_READY,
BRIEF_READY, ASSET_VERSION_READY, REVISION_REQUIRED and PRODUCTION_READY are
statuses that a transaction passes through, so the model has no such states.
`jobs` are the advance jobs by the suffix of their key, `runs` the agent runs by
theirs, `assets` the asset versions in order, `reviews` the verdicts on each.  A
draft is of the kind that `governed_asset_outcome` tells apart, a review one of
its verdicts.

An advance is one transaction in two steps.  `Begin` claims the job, loads the
row and checks the decision (`_assert_decision_binding`); what the runs say is
read when it ends.  It ends in `Commit`; in `Waits`, when the first run that is
not usable is unfinished: that is a `TransientJobError`, and the same job is
tried again up to `max_attempts`; in `Raises`, a `PermanentJobError`; or in
`Crash`.  The attempts of a job that succeeded are forgotten, because nobody
reads them.  An agent run ends with an output or with nothing usable, or never:
the run whose job the scheduler failed.

Different from the decision workflow, an insert never meets a taken unique key:
`OneAdvance` shows that advances do not overlap, so there is no action for such a
conflict.  Nothing alters an approved decision, so a successor is all that
`_assert_decision_binding` can see.  `successor` is its row: `persist_decision`
stores one at any time, and the owner approves it, `approve_decision_for_production`,
in the workflow that was started for it.  That workflow needs a learning, the
learning a publication, and the publication a production that is ready, so an
approved successor only ever meets a production that has ended; what stops one that
has not is always a row nobody has approved.

### LearningLoop

Telegram is modelled from how the code uses it: `updates` is all that ever
happened to the bot, `queue` what `getUpdates` would still deliver; a poll removes
everything below its offset, and `Tick` what has grown older than `Retention`.
`get_updates` is called once and without a limit, so `Answer(r, n)` holds the
earliest `n` updates, and Telegram chooses how many up to `BatchLimit` (100 in
Telegram's API) they are.  `dropped`, `unwatched`, `skipped` and `behind` are history:
they say why an update is not stored, the last that some answer had no room for it;
`left` is what a metric version missed for that reason.  `row[a]` is the `connector_observation_states` row of an account, with
`last_update_id`, `last_successful_ingest_at`, `coverage_started_at`, the gap flag
and the update types; `observations` are the stored updates with their normalized
event, `metrics` the versions with the events they count, `results` and
`learnings` what follows from them.  Jobs are kept by idempotency key.

A handler is one transaction whose steps are where it reads: `ObserveBegin` reads
the row and polls, `ObserveCommit` stores the batch, moves the cursor and creates
the metric job, `ObserveConflicts` meets an update that an overlapping cycle has
stored; `MetricBegin` reads the coverage, `MetricCalculate` the events and the
latest version, `MetricCommit` inserts the next number or fails on it;
`InterpretBegin` and `InterpretCommit`, `LearnBegin` and `LearnCommit` in the same
way.  `Send` and `Record` are the publication of `TelegramExecution`: the time is
taken, the rows are committed later.

The checks of a publication's lineage and checkpoint are left out, since neither
changes.  The lookups of an earlier result or learning find nothing, because the
job key already names the version or the result.  An update is a reaction to the
publication, or one that cannot be ingested; types matter only in whether
reactions are asked for.  Which kinds happen is the constant `Kinds`: a run has either
malformed or other ones beside the reactions.  `NormalizeConnectorObservationHandler` changes nothing
that is stored with its link, and nothing creates its job.

## Runs

`pass` runs finish without error; a `violation` run checks one statement of the
repository's documents that the code does not meet.

| Run | Instance | Shows |
| --- | --- | --- |
| `runtime_liveness` | the deployed setup: 1 worker, 1 scheduler; 1 job, 1 event, a crash, a stall, a loss | `TypeOK`, `RunningIsLeased`, `DispatchPublishes`, `JobsSettle`, `EventsDispatched` |
| `runtime_shared_id` | 2 workers named `runtime-worker`, 1 stall | violation: both are inside the handler for one attempt |
| `execution_safety` | 2 workers, 1 action, a crash, a stall, a failing database, a pause switch | `LeasedSendsOnce`, `OutcomeRecorded`, `ReferencesReal` |
| `execution_resend` | 2 workers, 1 stall | violation: a completed execution is sent again |
| `execution_misrecorded` | 1 worker, 1 action, no fault | violation: a message that was sent is recorded as FAILED |
| `agent_runs` | 2 workers with ids of their own, 1 run, 2 attempts, a stall, a crash | `RunFollowsJob`, `OneCallPerAttempt`, `SuccessHasOutput` of the run; `ExclusiveAttempt`, `LeaseGuardsJob` and the refinement of `JobLifecycle` of the job |
| `decision_review` | 2 workers, every kind and verdict, 2 outputs per role, 1 revision; either a crash, an orphaned run and 3 setbacks, or a resumption and 1 setback | `DecidedAfterReview`, also under overlapping advances; `RevisionsBounded`, `StallExplained`, `OneDecision` and `VerdictStands` where they do not overlap |
| `decision_stall` | 1 worker, nothing goes wrong | violation: the workflow stops although every agent run is finished |
| `production_governed` | 2 workers, 2 controllers, every draft and verdict, 1 revision round, 2 attempts, a crash, a successor stored at any time and perhaps approved, runs that may never end | `ReadyIsReviewed`, `RevisionsCounted`, `OneAdvance`, `SupersededStops`, `ProductionSettles` |
| `production_superseded` | 1 worker, 1 controller, no revision | violation: a successor nobody has approved fails the prior decision's production |
| `learning_loop` | 2 workers, 2 accounts of one bot token, 2 cycles and 1, answers of 1 or 2 updates, 2 checkpoints, 1 disturbance | `CompleteCountsAll`, `NeverInflated`, `NothingConfirmedUnseen`, `VerdictTrue`, `NoLateResult`, `InterpretFailureExplained`, `MeasuredInTheEnd`, `LearnedInTheEnd` |
| `learning_backlog` | 1 worker, 1 account, answers of 1 update, other updates beside reactions | violation: a metric claims a count of zero while a reaction waits in Telegram's queue |

### Bounds

`QueueCap` bounds the copies of an id in the list: with two copies two workers
can hold the same id at once, which is all that duplication can do here, since a
worker drops an id it cannot claim.  `MaxFaults` bounds crashes, stalls and
losses.  One stall puts two workers on a job; in `agent_runs` the crash after it
lets the takeover itself be taken over.  Each `max_attempts` is 1 or 2 (3 in the
code), so that the last attempt, a retry and the exhausted retry all occur.  With
`QueueCap` 1 an id that was popped can be pushed again, so two workers still can
hold it at once.

In `DecisionWorkflow`, `MaxVersions` exceeds `MaxRounds + 1`, so a candidate too
many is in reach; `MaxOutputs` 2 gives a retry and an exhausted retry; one
specialist and the two controllers that have rules of their own stand for those
of the code, which treats the others alike; one resumption is what makes two
advances overlap.  A behaviour draws one of the `Budgets` at the start: failures,
or a resumption, not both, because the overlap needs no failure to happen.  `CHECK_DEADLOCK FALSE` there, because a workflow that is
decided, blocked, escalated or stalled does nothing more.

In `ProductionWorkflow` one round gives a first version, a revised one and the
escalation, two attempts a retry and an exhausted poll (20 in the code), two
controllers an order in which their runs are looked at.  It does not check deadlock
either, since a workflow at rest does nothing more.

In `LearningLoop` all times are one tick but `Retention`, which is two, and the
clock stops at three: the window closes, the grace period passes, a cycle comes
too late, and Telegram drops what was not polled.  `MaxDisturbances` bounds
together the further updates, late configurations, narrowed types, cycles of the
other account, lost polls and crashes: one of them beside two overlapping cycles
of the publishing account.  `BatchLimit` is 2 (100 at Telegram): an answer of one leaves
the other in the queue, which is what any limit does.  Only the transaction of a cycle, which waits for the
network, stays open over a tick (`Span`).  The owner has versions interpreted when the cycles are
over (`Settled`): an interpretation reads nothing that cycles or metric jobs write
later, so it could as well have come earlier; and the experiment it completes is
read by interpretations only.

Bounds sit in the guards; no run uses a state constraint.

### Fairness

Workers and the scheduler are loops that the deployment restarts, so their
enabled steps are weakly fair (per worker, and for the scheduler).  The Redis
list is FIFO: each id that is again and again at hand is popped in the end, which
is strong fairness of `Dequeue` per id.  Provider calls have timeouts, so a
handler returns or raises.  Clocks advance: backoffs elapse, and the lease of a
worker that is gone expires.  In `DecisionWorkflow` agent runs end, because
their jobs settle (`JobsSettle`); in `ProductionWorkflow` not even that is assumed,
only that workers go on.  An open transaction of a client ends.  Nothing is
assumed about submissions, faults, the owner, or a slow worker's lease.

## Proofs

37 theorems in eight modules hold for every value of the constants: any workers,
jobs, runs, roles, accounts, limits and times, and any number of crashes, expired
leases and other disturbances.  Every safety invariant and action property of the
passing runs has its theorem.  Each invariant named below was checked by TLC on the instance of the
run before it was proved.

### The job runtime (`JobRuntimeProofs`)

* `TypeCorrect`: `Spec => []TypeOK`.
* `LeaseProtects`: `Spec => []LeaseGuardsJob`.  The inductive invariant is
  `TypeOK /\ LeaseInv`: the row of a job whose lease has never expired is
  consistent (leased exactly while RUNNING, an attempt left while it waits), the
  one worker engaged with it has loaded exactly the row as it is (so a `Flush`
  cannot mix two attempts), and the scheduler holds no copy of it.
  `LeaseGuardsJob` alone is not inductive because a stale copy in a session
  breaks it one step later.
* `AttemptIsExclusive`: with distinct worker ids, `[]ExclusiveAttempt`, through
  `AttemptOwned`: the attempt counter grows with each claim, and as long as it is
  the loaded one nobody else's id is in the row.
* `DispatchIsPublished`: `Spec => []DispatchPublishes`, expired leases included.
  The invariant adds `EngagedCounts`: whoever works on a job has been counted in
  its `attempt_count`, so nobody publishes before the first claim.
* `OneWorkerKeepsLease`: with one worker, `Spec => []RunningIsLeased`.  `LeasePaired`
  says that rows and the copies in sessions have owner and lease together, and that
  a copy that is not RUNNING any more is of a row that is not RUNNING either; with
  a second worker the last part fails (see the findings).
* `RuntimeImplementsLifecycle`: `Spec => Lifecycle!LifeSpec`.  Initial states map
  to initial states, and under `LeaseInv` every step maps to a step of
  `JobLifecycle` or to a stutter; a job whose lease expired maps to `untracked`.

### Execution (`TelegramExecutionProofs`)

`EngineUsesRuntime` proves that `ExecSpec` implements the runtime's `Spec`, so the
results above hold of the composed system; `ExecTypeCorrect` proves the types.

* `PublishedOnce`: `[]LeasedSendsOnce`, from `SendInv` on top of `LeaseInv`.
* `OutcomeIsRecorded`: `[]OutcomeRecorded`.  `OutcomeInv` says, until the lease
  expires, that the rows of an action are in step with its job (`RowsInStep`) and
  that the handler has read them as they are and, where it says PUBLISHED, has really
  sent (`HandlerReady`); the commit, several steps after the call, relies on it.  Of
  FAILED and UNKNOWN it says that they leave no reference, not that nothing was sent.
* `RecordsAreReal`: `[]ReferencesReal`, expired leases and overwrites included.
  `HandlerHonest` keeps what a handler brings back from the provider apart from
  what others have recorded.
* `OneWorkerOnePublication`: with one worker, `[]OnePublicationPerExperiment`.
  `ExperimentGuarded` says that from the preflight to the commit the experiment is
  still unpublished.  With two workers both may have seen it DRAFT.

### Agent runs (`AgentRunsProofs`)

`AgentsUseRuntime` proves that `AgentSpec` implements the runtime's `Spec`;
`AgentTypeCorrect` proves the types.

* `RunAgreesWithJob`: `[]RunFollowsJob`.  The inductive invariant is `RunInv` on top
  of `LeaseInv`: while the lease has not expired, the one worker engaged with the
  job has read the run as it is (`Knows`), so its commit cannot mix two results, and
  it calls no model for a run that is over.  `RunFollowsJob` alone is not inductive:
  a recorder that read the run before another commit would break it.
* `ModelCalledOncePerAttempt`: `[]OneCallPerAttempt`, however leases expire and even
  if ids collide.  `CallsCounted` weighs the calls made plus the workers that may
  still call (`Callers`) against the attempts; a claim adds one to both sides, a
  call moves one worker from one summand to the other.
* `SucceededRunHasOutput`: `[]SuccessHasOutput`, also when workers overwrite each
  other, from `HandlesAttempt`: a handler works for an attempt that was counted.

### The decision workflow (`DecisionWorkflowProofs`)

* `DecisionTypes`: `[]DecisionTypeOK`.
* `DecisionIsUnique` (`[]OneDecision`) and `VerdictIsFinal` (`VerdictStands`), both
  from the inductive invariant `DecisionInv` (lemma `DecisionInvariant`).  `AdvanceGood` shows of every plan
  `_advance_workflow` can make that it is a `GoodPlan`: it takes back no decision
  and no revision, decides only where the row has no decision, and leaves a row at
  rest alone.  `DecisionInv` adds that, while advances have not overlapped, at most
  one is open, the row it loaded is the row that is there (but for an approval in
  between), and the row's `final_decision_id` counts the decisions.  `OneDecision`
  alone is not inductive: a transaction that read an older row breaks it when it
  commits.
* `DecidedOnReviews`: `[]DecidedAfterReview`, also when advances overlap; only that the
  approval is of the final decision needs that they have not.
  `ReviewInv` says it of the plan in every open transaction too, and that no commit
  takes the final decision away that a transaction has read.
* `RevisionsAreBounded`: `[]RevisionsBounded`.  The candidate's version is not a
  function of `revision_count`: it runs one ahead once the chief has answered.
  `Rounds` is that measure of a row, and `RoundsInv` says that it bounds the version,
  and that every open plan raises it when it writes a candidate.
* `StallsAreExplained`: `[]StallExplained`, an unfinished workflow has an advance job
  coming unless one failed or its poll is spent.  `PollInv` says that every job was
  made for a stage the workflow has reached (`JobsBehind`), that an unfinished
  workflow has its next job while no advance is open, and that the plan of an open
  advance ends the workflow, waits for the poll of the runs there will be, or makes
  a first job of the next stage that is new (`Foreseen`).  `create_job` returns an
  old job for a key it knows, so the proof has to show that the key of a poll that
  starts runs is fresh.  The key contains the sum of the attempts over the current
  runs: `TotalAdds` and `TotalGrows` show that the sum exists for every finite set of
  runs and grows with each new one, by the least counterexample over cardinalities
  (the library's induction rule cannot be instantiated here).

### The production workflow (`ProductionWorkflowProofs`)

* `AdvancesFormAChain` (`[]OneAdvance`), `RevisionsAreCounted` (`[]RevisionsCounted`)
  and `SupersededProducesNothing` (`SupersededStops`).  The inductive invariant
  `ProductionInv` adds to the two invariants that the rows have their types, that
  every open transaction belongs to a job that is RUNNING, and `JobsInOrder`: every
  job ranks at or below the current one in the only order in which jobs are made
  (`Rank`: start, after-content-strategy, then after-writer and
  after-asset-controllers for each version).  The order is what makes `OneAdvance`
  inductive: the successor job of an advance ranks above all others, so its key is
  fresh, and `create_job` cannot hand back an old job in its place.
* `ProductionTypes` (`[]ProductionTypeOK`) and `ReadyWasReviewed`
  (`[]ReadyIsReviewed`), on top of `ProductionInv`: since the only open transaction
  has loaded the current row, the version that becomes final is the one reviewed.

### Observation, metrics and learning

`LearningLoopProofs` proves `ConfirmedIsStored` (`[]NothingConfirmedUnseen`) and
`ResultsComeFirst` (`[]NoLateResult`).  Both rest on `JobInv`: an open transaction
handles a RUNNING job, and no two handle the same one.  `CursorInv` says of each
update, by the cursor of each account and of each open transaction, that what lies
at or below it is accounted for (stored, dropped or not asked for), and that a batch
in hand leaves nothing out between its cursor and its greatest update
(`AnswerIsPrefix`: what an answer had no room for lies above what it holds); the cursor
may go back, when an older cycle commits last, so no monotony helps.  `ResultInv`
says that open interpretations began before the first result and that the job of
each result's version is over; without the latter two results of one version could
not be excluded.

`LearningOutcomeProofs` builds the inductive invariant `LearnInv` on these: the types
of jobs, transactions and rows, what the key of each job refers to (`KeysRefer`),
that versions only grow (`VersionsInv`), that a result has the class of its version
(`ClassInv`), and that a learning job has succeeded exactly when its result has its
one learning (`LearnedInv`).  From it follow

* `LearningTypes`: `[]LearningTypeOK`;
* `ResultsAreLearned`: `[]LearnedInTheEnd`.

`LearningCountProofs` proves what the numbers mean, on top of `LearnInv`:

* `CountsAreReal`: `[]NeverInflated`; an account stores an update once, so the events
  of a version inject into the reactions there were.
* `CompleteIsComplete`: `[]CompleteCountsAll`, for every `BatchLimit`.  The inductive
  invariant `CountInv` follows what Telegram dropped that is neither stored nor left
  behind by a full answer (`Missing`): the connector's row then has the gap flag or is
  older than the retention limit of the code (`RowInv`), and an open cycle either will
  write the gap or has all of it in its batch (`CycleInv`); so `metric_coverage` says
  AVAILABLE only when nothing in time is missing but what full answers left
  (`CompleteInv`, also of the calculations that read the coverage before the events).
  The proof needs that a transaction is open no longer than `Span` and that the code's
  limit plus `Span` lies within Telegram's retention.
* `VerdictsAreTrue`: `[]VerdictTrue`, from the two above and `ClassInv`.
* `InterpretationFailures`: `[]InterpretFailureExplained`; the reason of a failure stays
  true, because versions and results are never taken back (`FailureInv`).
* `StoredIsMeasured`: `[]MeasuredInTheEnd`.  `MeasuredInv` says of every stored
  reaction that it is in the latest version or that some metric job or transaction
  still stands for it; the version a calculation replaces is never larger, because
  the loser of two overlapping ones fails.

### Assumptions, and what is only model-checked

The assumptions are the named ASSUMEs of the modules: job names are disjoint,
every worker writes a non-NULL id, bounds are positive, execution jobs have one
attempt, agent runs come without outbox events, the constitutional and the
anti-paralysis controller are two roles, and a cycle that finds no gap has
polled within Telegram's retention.  Distinct worker ids are a hypothesis of
`AttemptIsExclusive` only, because `worker_main.py` does not establish them; a single
worker is a hypothesis of the two `OneWorker` theorems only, because nothing limits
their number.

The strengthenings (`LeaseInv`, `SendInv`, `OutcomeInv`, `RunInv`, `PollInv`,
`ProductionInv`, `LearnInv`, `CountInv` and so on) are listed by no run, since the theorems cover them
for every instance.

Only model-checked are

* the liveness properties `JobsSettle`, `EventsDispatched` and `ProductionSettles`:
  fairness and ENABLED are outside of the prover.  That an execution gets an outcome
  has no run of its own: its job stops (`JobsSettle`), and a job that succeeded has
  settled it (`OutcomeRecorded`);
* the properties of the violation runs, which do not hold.

## Findings

Each violation run has its finding, with the quoted line, in `PROJECT.json`:
processes that share a lease owner, a completed execution that is sent again, a
message that was sent and is recorded as FAILED, a decision workflow that stops
polling, a successor that stops production before anybody approved it, and a count
of zero that the coverage does not prove.  Reading the code for the
models showed more, which no run of its own states:

* With two workers a row may stay RUNNING for ever: when a slow attempt's failure
  record lands after another worker's claim, it clears `lease_expires_at` while the
  status stays RUNNING, and `claim_job` and `recover_expired_leases` both require a
  lease (ADR 0005:29 says that expired leases are recovered).
* `external_references` is unique per account, but Telegram numbers messages per chat,
  and an account may be pointed at another chat: the insert for a message whose id is
  taken fails after it was published, and the execution stays PENDING (ADR 0009:44
  promises a record of each successful answer).
* The dispatch job of an outbox event is found by its key even when it is FAILED,
  so its event stays PENDING; `batch_size` such events fill every batch.
* `claim_job` does not compare `attempt_count` with `max_attempts`: only the
  failure record and the lease recovery do.
* An execution whose worker died, or whose commit failed, stays PENDING: the job
  is FAILED and a second approval finds that job.
* A worker that takes a job over after its lease expired may write BLOCKED over
  SUCCEEDED, because the experiment is RUNNING by then.  An unknown outcome leaves
  the experiment DRAFT.  A pause between preflight and send has no effect, and
  two workers can both find the experiment DRAFT.
* Two advances of one decision workflow that overlap (a resumption beside a poll)
  can both materialize a decision; the row keeps the later one, and an approval
  that came in between is overwritten.  `decision_review` reaches these states,
  and `OneDecision` and `VerdictStands` exclude them by `overlapped`.
* A violation of human worth that only the governed detector sees, with a
  constitutional review other than BLOCK, fails every advance: the workflow stays
  in CONTROLLERS_RUNNING.
* A run whose job the scheduler fails stays QUEUED or RETRY_WAIT, and its workflow
  waits for it for ever.
* After a lease expired, the worker that took the job over may have waited for the
  run's row with an old copy of it.  It calls the model again and writes over the
  committed result: a SUCCEEDED run becomes REFUSED, RETRY_WAIT or FAILED, its
  output may stay on a REFUSED run, and the job may be SUCCEEDED next to a FAILED
  run.  ADR 0006:95 only speaks of a second call after a crash.
* A production workflow whose advance job has polled 20 times stays in a *_RUNNING
  status, and a second start returns the start job, which has long succeeded:
  nothing resumes it.
* Execution does not look for a successor decision at all, so it publishes for a
  decision whose successor is approved.
* A metric can be COMPLETE although reactions are missing (`Excused` lists the
  reasons the model has): accounts of one bot token share Telegram's queue and
  each takes updates from the others; the owner narrowed the update types; a
  reaction was normalized before the publication's rows were committed, and is
  never linked; the first cycle after a pause longer than Telegram's retention has
  no earlier one to compare with.  `last_successful_ingest_at` is taken after the
  poll, so a reaction that arrives between the two needs a grace period longer
  than the transaction (`InTime`).
* The gap flag is never reset: one pause makes every later metric of the account
  PARTIAL.  One update that cannot be ingested fails every cycle until Telegram
  drops it, and then the gap is there.
* A count between zero and the weak threshold fails the interpretation for good,
  and the experiment stays RUNNING.  Interpreting a PARTIAL version completes it
  as INSUFFICIENT_DATA, and the complete version that follows cannot be
  interpreted any more.
* Overlapping interpretations of two versions commit two results, where ADR
  0010:272 speaks of one; of two overlapping metric jobs one fails and is not
  retried.
* In `governed_asset_outcome` an unsupported claim or incomplete rights come before
  the controllers' verdicts, so a BLOCK of such a draft becomes a revision.

## Not modelled, and why

* Prompt and context assembly, JSON schemas and the agent registry of
  `ai_runtime/`: data without a protocol; that they do not fit is one way in which
  the handler raises, and a model call is a choice of outcome.
* Starting the successor workflow from a learning: it is `start_decision_workflow`
  with one more reference; the successor's row and its approval are actions of
  `ProductionWorkflow`.
* The HTTP API, configuration and wiring: no state of their own.
* Tenant scoping: every query carries the tenant, and the models have one tenant.
* Migrations: the constraints that matter are taken from the models.
* `domain/entities.py` and the command layer: validated records; the operations
  that the workflows use are part of their models.
* Audit records and event payloads: written beside the state and read by nobody.

## Plan

1. The abstract agent run of the two workflows as what `AgentRuns` implements.
2. Runs of their own for the unleased row and the unrecorded message.
3. Larger instances: two disturbances in `learning_loop`, two runs in
   `agent_runs`.
