-------------------------- MODULE DecisionWorkflow --------------------------
(***************************************************************************)
(* One governed decision workflow (application/decision_workflow.py,       *)
(* decision_governance.py, phase6.py) with the agent runs it waits for     *)
(* (ai_runtime/): the workflow.advance jobs that workers handle, and the   *)
(* owner who starts, resumes and approves.                                 *)
(*                                                                         *)
(* The job runtime is taken at its promise (JobLifecycle): a queued job is *)
(* handled by one worker at a time, and is queued again after a crash.     *)
(* An advance is one transaction in two steps: it reads and plans, and it  *)
(* commits the plan or fails.  In between other transactions commit.       *)
(*                                                                         *)
(* An advance looks only at the chief's runs for the next version and at   *)
(* the latest candidate with its runs and reviews.  Earlier candidates are *)
(* never read or written again, and the model does not keep them.          *)
(***************************************************************************)
EXTENDS Naturals, Sequences, FiniteSets, FiniteSetsExt

CONSTANTS
  Workers,
  Specialists,     \* SPECIALIST_CONTRACT_KEYS
  Chief,           \* CHIEF_GROWTH_PRODUCER_CONTRACT_KEY
  Controllers,     \* REQUIRED_CONTROLLER_CONTRACT_KEYS, among them:
  Constitutional,
  AntiParalysis,
  ChiefOutputs,    \* the kinds of candidate the chief may write
  Opinions,        \* the verdicts the controllers may give
  MaxOutputs,      \* _MAX_SPECIALIST/CHIEF/CONTROLLER_OUTPUT_ATTEMPTS
  MaxRounds,       \* max_revision_rounds
  Checkpoint,      \* whether a Phase 6 checkpoint intent is registered
  MaxVersions,     \* bound: candidates of the workflow
  Budgets          \* bounds: how many of each of the events below there are

\* A chief's output: an unobjectionable candidate; one with a human-worth
\* violation, which both detectors or only the governed one sees; one whose
\* experiment does not fit the registered checkpoint.
Kinds == {"clean", "worth", "worthUnnoticed", "noCheckpoint"}

\* A controller's output.  CONDITIONS: PASS_WITH_CONDITIONS with a mandatory
\* condition (without one it counts as PASS).  WAIVED: a BLOCK or REVISE of the
\* anti-paralysis controller that only misses information, on a low-risk
\* reversible candidate.
Verdicts == {"PASS", "CONDITIONS", "REVISE", "BLOCK", "WAIVED"}

ASSUME DecisionAssumption ==
  /\ Constitutional \in Controllers /\ AntiParalysis \in Controllers \ {Constitutional}
  /\ Chief \notin Specialists \cup Controllers /\ Specialists \cap Controllers = {}
  /\ IsFiniteSet(Specialists) /\ IsFiniteSet(Controllers)
  /\ ChiefOutputs \subseteq Kinds /\ Opinions \subseteq Verdicts
  /\ MaxOutputs \in Nat \ {0} /\ MaxRounds \in Nat /\ Checkpoint \in BOOLEAN
  /\ MaxVersions \in Nat \ {0}
  /\ Budgets \subseteq [crash : Nat, orphan : Nat, resume : Nat, setback : Nat]

VARIABLES
  workflow,    \* the decision_workflows row; status "NONE" before it starts
  jobs,        \* the workflow.advance jobs by idempotency key
  runs,        \* each role's agent runs for what it works on now: how many,
               \* and what the last one is
  contributed, \* whether the specialists' contributions are materialized
  candidate,   \* the latest decision candidate; version 0 if there is none
  decisions,   \* the decisions, each with the candidate it was made from
  tx,          \* the advance transaction each worker has open
  events,      \* bound: the crashes, orphaned runs, resumptions and setbacks (outputs
               \* that are unusable or object) that may still happen
  overlapped   \* history: two advance transactions were open at the same time

decisionVars == <<workflow, jobs, runs, contributed, candidate, decisions, tx, events,
                  overlapped>>

Status == {"NONE", "SNAPSHOT_READY", "SPECIALISTS_RUNNING", "CHIEF_RUNNING",
           "CONTROLLERS_RUNNING", "BLOCKED", "ESCALATED", "AWAITING_DECISION_APPROVAL",
           "APPROVED_FOR_PRODUCTION"}

\* The ones an advance moves on from.
RunningStatus == {"SNAPSHOT_READY", "SPECIALISTS_RUNNING", "CHIEF_RUNNING", "CONTROLLERS_RUNNING"}

CandidateStatus == {"NONE", "UNDER_REVIEW", "REVISION_REQUIRED", "BLOCKED", "ACCEPTED",
                    "MATERIALIZED"}

Roles == Specialists \cup {Chief} \cup Controllers

\* What an agent run leaves behind that _*_run_can_materialize may accept.
Outputs(role) ==
  CASE role \in Specialists   -> {"contribution"}
    [] role = Chief           -> ChiefOutputs
    [] role = AntiParalysis   -> Opinions
    [] OTHER                  -> Opinions \ {"WAIVED"}

\* orphaned: the run's job is FAILED but the AgentRun was never told.
Pending == {"pending", "orphaned"}

NoRun == [n |-> 0, last |-> "none"]

\* The suffix of an advance job's key: "start"; after-{stage}; the same with the
\* generation g of a retry; resume:{status}:{revision_count}.
Key(at, v, g) == [at |-> at, v |-> v, g |-> g]

\* An open advance transaction has its job, the workflow row it has loaded, and
\* the plan it made of it.
NoTx == [open |-> FALSE]

DecisionInit ==
  /\ workflow = [status |-> "NONE", rev |-> 0, final |-> 0, approval |-> 0]
  /\ jobs = << >>
  /\ runs = [r \in Roles |-> NoRun]
  /\ contributed = FALSE
  /\ candidate = [version |-> 0, status |-> "NONE", kind |-> "clean"]
  /\ decisions = << >>
  /\ tx = [w \in Workers |-> NoTx]
  /\ events \in Budgets
  /\ overlapped = FALSE

-----------------------------------------------------------------------------
(* Agent runs.                                                             *)

_next_candidate_version == candidate.version + 1

\* _specialist_, _chief_ and _controller_run_can_materialize, of the last run:
\* no run is created after one that can.
CanMaterialize(r) ==
  /\ runs[r].last \in Outputs(r)
  /\ r = Constitutional /\ candidate.kind = "worth" => runs[r].last = "BLOCK"

\* _specialist_run_state, _chief_run_state, _controller_run_state.
RunState(r) ==
  IF runs[r].last \in Pending THEN "pending"
  ELSE IF CanMaterialize(r) THEN "ready"
  ELSE IF runs[r].n >= MaxOutputs THEN "exhausted"
  ELSE "create"

\* What _ensure_*_runs does for the roles R: it raises, or it creates the
\* missing runs and tells whether all are ready.
Exhausted(R) == \E r \in R : RunState(r) = "exhausted"
Missing(R) == {r \in R : RunState(r) = "create"}
AllReady(R) == \A r \in R : RunState(r) = "ready"

SumRuns(R) == MapThenSumSet(LAMBDA r : runs[r].n, R)

\* _*_run_generation: the number of runs, the ones just created included.
Generation(R) == SumRuns(R) + Cardinality(Missing(R))

\* Bound.
Uses(event) == events[event] > 0 /\ events' = [events EXCEPT ![event] = @ - 1]

\* AgentRunJobHandler ends the run (_persist_model_result), or its last attempt
\* fails (record_attempt_failure): an output, or nothing usable: refused,
\* invalid, failed, references it may not make.  A transient failure leaves the
\* run as pending as it was.
RunEnds(r, result) ==
  /\ runs[r].last = "pending"
  /\ runs' = [runs EXCEPT ![r] = [n |-> runs[r].n, last |-> result]]
  /\ IF result = "unusable" \/ (r \in Controllers /\ result # "PASS")
     THEN Uses("setback") ELSE UNCHANGED events
  /\ UNCHANGED <<workflow, jobs, contributed, candidate, decisions, tx, overlapped>>

\* recover_expired_leases fails the run's job without telling the AgentRun.
RunOrphaned(r) ==
  /\ Uses("orphan")
  /\ runs[r].last = "pending"
  /\ runs' = [runs EXCEPT ![r] = [n |-> runs[r].n, last |-> "orphaned"]]
  /\ UNCHANGED <<workflow, jobs, contributed, candidate, decisions, tx, overlapped>>

-----------------------------------------------------------------------------
(* The owner.                                                              *)

\* create_job: a key that is taken yields the old job, whatever its status.
WithJobs(K) == [k \in DOMAIN jobs \cup K |-> IF k \in DOMAIN jobs THEN jobs[k] ELSE "QUEUED"]

start_decision_workflow ==
  /\ workflow.status = "NONE"
  /\ workflow' = [workflow EXCEPT !.status = "SNAPSHOT_READY"]
  /\ jobs' = WithJobs({Key("start", 0, 0)})
  /\ UNCHANGED <<runs, contributed, candidate, decisions, tx, events, overlapped>>

\* start_decision_workflow for the same snapshot.
Resume ==
  /\ workflow.status # "NONE"
  /\ Uses("resume")
  /\ jobs' = WithJobs({Key(workflow.status, workflow.rev, 0)})
  /\ UNCHANGED <<workflow, runs, contributed, candidate, decisions, tx, overlapped>>

\* The final decision; one that has its approval is left alone.
approve_decision_for_production ==
  /\ workflow.status = "AWAITING_DECISION_APPROVAL"
  /\ workflow.final # 0
  /\ ~decisions[workflow.final].approved
  /\ workflow' = [workflow EXCEPT !.status = "APPROVED_FOR_PRODUCTION",
                                  !.approval = workflow.final]
  /\ decisions' = [decisions EXCEPT ![workflow.final] = [@ EXCEPT !.approved = TRUE]]
  /\ UNCHANGED <<jobs, runs, contributed, candidate, tx, events, overlapped>>

-----------------------------------------------------------------------------
(* _advance_workflow: what the transaction will write, from what it reads.  *)

\* Mutant: what a controller makes a condition is taken for a pass.
OutcomeIgnoresConditions(kind, verdicts) ==
  LET given == {verdicts[c] : c \in Controllers} IN
  IF kind \in {"worth", "worthUnnoticed"} /\ verdicts[Constitutional] # "BLOCK" THEN "RAISE"
  ELSE IF "BLOCK" \in given THEN "BLOCK"
  ELSE IF "REVISE" \in given THEN "REVISE"
  ELSE "PASS"

\* Of the reviews of a candidate: PASS, CONDITIONS, REVISE or BLOCK; or RAISE,
\* for a violation of human worth that the constitutional controller let pass.
governed_controller_outcome(kind, verdicts) ==
  LET given == {verdicts[c] : c \in Controllers} IN
  IF kind \in {"worth", "worthUnnoticed"} /\ verdicts[Constitutional] # "BLOCK" THEN "RAISE"
  ELSE IF "BLOCK" \in given THEN "BLOCK"
  ELSE IF "REVISE" \in given THEN "REVISE"
  ELSE IF "CONDITIONS" \in given THEN "CONDITIONS"
  ELSE "PASS"

\* A plan: the row it leaves, the runs and the job it inserts, the status it
\* gives the latest candidate, and what else it materializes: contributions,
\* a candidate (its kind), a decision (its reviews).
Plan(row, roles, key) ==
  [raises |-> FALSE, row |-> row, version |-> candidate.version,
   runs |-> [r \in Missing(roles) |-> runs[r].n + 1],
   jobs |-> {key} \ DOMAIN jobs, judgement |-> "NONE",
   contribute |-> FALSE, candidate |-> "none", decision |-> << >>]

\* It ends without a further job; the start job exists.
Stop(row, judgement) == [Plan(row, {}, Key("start", 0, 0)) EXCEPT !.judgement = judgement]

Raise(row) == [Stop(row, "NONE") EXCEPT !.raises = TRUE]

\* Mutant: nobody looks again.
PollNever(row, R, at, v) == Plan(row, R, Key("start", 0, 0))

\* Something is not ready: look again, once for each generation.
Poll(row, R, at, v) == Plan(row, R, Key(at, v, Generation(R)))

\* Mutant: the status that CHIEF_RUNNING replaces is left in the row.
ToChiefUnstarted(row) ==
  Plan([row EXCEPT !.status = "SPECIALISTS_READY"], {Chief},
       Key("after-chief", _next_candidate_version, 0))

\* _ensure_chief_run for the next version, and the job that will look at it.
ToChief(row) ==
  IF Exhausted({Chief}) THEN Raise(row)
  ELSE Plan([row EXCEPT !.status = "CHIEF_RUNNING"], {Chief},
            Key("after-chief", _next_candidate_version, 0))

AdvanceSnapshot(row) ==
  IF Exhausted(Specialists) THEN Raise(row)
  ELSE Plan([row EXCEPT !.status = "SPECIALISTS_RUNNING"], Specialists,
            Key("after-specialists", 0, 0))

AdvanceSpecialists(row) ==
  IF Exhausted(Specialists) THEN Raise(row)
  ELSE IF ~AllReady(Specialists) THEN Poll(row, Specialists, "after-specialists", 0)
  ELSE [ToChief(row) EXCEPT !.contribute = ~contributed]

AdvanceChief(row) ==
  IF Exhausted({Chief}) THEN Raise(row)
  ELSE IF ~AllReady({Chief}) THEN Poll(row, {Chief}, "after-chief", _next_candidate_version)
  ELSE [Plan([row EXCEPT !.status = "CONTROLLERS_RUNNING"], {},
             Key("after-controllers", _next_candidate_version, 0))
        EXCEPT !.candidate = runs[Chief].last]

\* Mutant: the row's own decision is not looked at, and its status not moved on.
AcceptAgain(row, verdicts) ==
  [Stop(row, "MATERIALIZED")
   EXCEPT !.decision = <<[from |-> candidate.version, kind |-> candidate.kind,
                          verdicts |-> verdicts, approved |-> FALSE]>>]

\* _materialize_phase6_intent makes the checkpoint of a registered intent from the
\* decision's experiment, or raises.
CheckpointFits == Checkpoint => candidate.kind # "noCheckpoint"

\* _materialize_final_decision, which keeps the decision the row already has.
Accept(row, verdicts) ==
  LET accepted == [row EXCEPT !.status = "AWAITING_DECISION_APPROVAL"] IN
  IF row.final # 0 THEN Stop(accepted, "ACCEPTED")
  ELSE IF ~CheckpointFits THEN Raise(row)
  ELSE [Stop(accepted, "MATERIALIZED")
        EXCEPT !.decision = <<[from |-> candidate.version, kind |-> candidate.kind,
                               verdicts |-> verdicts, approved |-> FALSE]>>]

\* Mutant: the limit is off by one.
ReviseOnceMore(row) ==
  IF row.rev > MaxRounds THEN Stop([row EXCEPT !.status = "ESCALATED"], "REVISION_REQUIRED")
  ELSE [ToChief([row EXCEPT !.rev = @ + 1]) EXCEPT !.judgement = "REVISION_REQUIRED"]

Revise(row) ==
  IF row.rev >= MaxRounds THEN Stop([row EXCEPT !.status = "ESCALATED"], "REVISION_REQUIRED")
  ELSE [ToChief([row EXCEPT !.rev = @ + 1]) EXCEPT !.judgement = "REVISION_REQUIRED"]

AdvanceControllers(row) ==
  IF Exhausted(Controllers) THEN Raise(row)
  ELSE IF ~AllReady(Controllers) THEN Poll(row, Controllers, "after-controllers", candidate.version)
  ELSE LET verdicts == [c \in Controllers |-> runs[c].last]
           outcome == governed_controller_outcome(candidate.kind, verdicts) IN
       CASE outcome = "RAISE"                  -> Raise(row)
         [] outcome = "BLOCK"                  -> Stop([row EXCEPT !.status = "BLOCKED"], "BLOCKED")
         [] outcome \in {"REVISE", "CONDITIONS"} -> Revise(row)
         [] outcome = "PASS"                   -> Accept(row, verdicts)

\* Mutant: a blocked workflow that is resumed goes on.
AdvanceBlocked(row) ==
  CASE row.status = "SNAPSHOT_READY"      -> AdvanceSnapshot(row)
    [] row.status = "SPECIALISTS_RUNNING" -> AdvanceSpecialists(row)
    [] row.status \in {"CHIEF_RUNNING", "BLOCKED"} -> AdvanceChief(row)
    [] row.status = "CONTROLLERS_RUNNING" -> AdvanceControllers(row)
    [] OTHER                              -> Stop(row, "NONE")

\* Any other status: nothing to do.
_advance_workflow(row) ==
  CASE row.status = "SNAPSHOT_READY"      -> AdvanceSnapshot(row)
    [] row.status = "SPECIALISTS_RUNNING" -> AdvanceSpecialists(row)
    [] row.status = "CHIEF_RUNNING"       -> AdvanceChief(row)
    [] row.status = "CONTROLLERS_RUNNING" -> AdvanceControllers(row)
    [] OTHER                              -> Stop(row, "NONE")

-----------------------------------------------------------------------------
(* The advance job's handler, in a worker.                                 *)

\* The handler's transaction reads.
Begin(w, k) ==
  /\ ~tx[w].open
  /\ jobs[k] = "QUEUED"
  /\ jobs' = [jobs EXCEPT ![k] = "RUNNING"]
  /\ tx' = [tx EXCEPT ![w] = [open |-> TRUE, key |-> k, seen |-> workflow,
                              plan |-> _advance_workflow(workflow)]]
  /\ overlapped' = (overlapped \/ \E v \in Workers : tx[v].open)
  /\ UNCHANGED <<workflow, runs, contributed, candidate, decisions, events>>

\* A row the plan inserts is there already: agent_runs, jobs,
\* decision_candidates and specialist_contributions have unique keys.  The
\* chief's runs of the plan's version are past when there is a later candidate.
Conflict(plan) ==
  \/ plan.jobs \cap DOMAIN jobs # {}
  \/ plan.contribute /\ contributed
  \/ plan.candidate # "none" /\ candidate.version > plan.version
  \/ \E r \in DOMAIN plan.runs :
       \/ r \notin Specialists /\ candidate.version > plan.version
       \/ runs[r].n >= plan.runs[r]

\* An UPDATE sets the columns that differ from what was loaded.
Column(c, new, seen) == IF new[c] # seen[c] THEN new[c] ELSE workflow[c]

\* The transaction commits, and its job with it.
Commit(w) ==
  LET plan == tx[w].plan
      row == [plan.row EXCEPT !.final = IF plan.decision = << >> THEN @ ELSE Len(decisions) + 1]
      appends == plan.candidate # "none" IN
  /\ tx[w].open
  /\ ~plan.raises
  /\ ~Conflict(plan)
  /\ appends => plan.version < MaxVersions
  /\ workflow' = [c \in DOMAIN workflow |-> Column(c, row, tx[w].seen)]
  /\ contributed' = (contributed \/ plan.contribute)
  /\ candidate' = IF appends
                  THEN [version |-> plan.version + 1, status |-> "UNDER_REVIEW", kind |-> plan.candidate]
                  ELSE IF plan.judgement = "NONE" \/ candidate.version > plan.version THEN candidate
                  ELSE [candidate EXCEPT !.status = plan.judgement]
  /\ runs' = [r \in Roles |->
                IF appends /\ r = Chief THEN NoRun
                ELSE IF appends /\ r \in Controllers THEN [n |-> 1, last |-> "pending"]
                ELSE IF r \in DOMAIN plan.runs THEN [n |-> plan.runs[r], last |-> "pending"]
                ELSE runs[r]]
  /\ decisions' = decisions \o plan.decision
  /\ jobs' = [WithJobs(plan.jobs) EXCEPT ![tx[w].key] = "SUCCEEDED"]
  /\ tx' = [tx EXCEPT ![w] = NoTx]
  /\ UNCHANGED <<events, overlapped>>

\* Rollback, and mark_job_failed_or_retrying: nothing here raises a
\* TransientJobError, so the job is FAILED at once.
Fails(w) ==
  /\ jobs' = [jobs EXCEPT ![tx[w].key] = "FAILED"]
  /\ tx' = [tx EXCEPT ![w] = NoTx]
  /\ UNCHANGED <<workflow, runs, contributed, candidate, decisions, events, overlapped>>

\* A PermanentJobError.
Raises(w) == tx[w].open /\ tx[w].plan.raises /\ Fails(w)

\* An IntegrityError.
Conflicts(w) == tx[w].open /\ ~tx[w].plan.raises /\ Conflict(tx[w].plan) /\ Fails(w)

\* The worker dies; the job's lease expires and it is due again.
Crash(w) ==
  /\ Uses("crash")
  /\ tx[w].open
  /\ jobs' = [jobs EXCEPT ![tx[w].key] = "QUEUED"]
  /\ tx' = [tx EXCEPT ![w] = NoTx]
  /\ UNCHANGED <<workflow, runs, contributed, candidate, decisions, overlapped>>

-----------------------------------------------------------------------------
Owner == start_decision_workflow \/ Resume \/ approve_decision_for_production

RunFinishes(r) == \E result \in Outputs(r) \cup {"unusable"} : RunEnds(r, result)

WorkerStep(w) ==
  \/ \E k \in DOMAIN jobs : Begin(w, k)
  \/ Commit(w)
  \/ Raises(w)
  \/ Conflicts(w)

DecisionNext ==
  \/ Owner
  \/ \E r \in Roles : RunFinishes(r) \/ RunOrphaned(r)
  \/ \E w \in Workers : WorkerStep(w) \/ Crash(w)

DecisionSpec == DecisionInit /\ [][DecisionNext]_decisionVars

\* Workers keep taking jobs and finish what they began; the models answer or
\* the runs' attempts run out.
FairDecisionSpec ==
  /\ DecisionSpec
  /\ \A w \in Workers : WF_decisionVars(WorkerStep(w))
  /\ \A r \in Roles : WF_decisionVars(RunFinishes(r))

-----------------------------------------------------------------------------
(* Properties.                                                             *)

WorkflowRows == [status : Status, rev : Nat, final : Nat, approval : Nat]

\* The type of the state.
DecisionTypeOK ==
  /\ workflow \in WorkflowRows
  /\ \A k \in DOMAIN jobs : jobs[k] \in {"QUEUED", "RUNNING", "SUCCEEDED", "FAILED"}
  /\ \A r \in Roles : /\ runs[r].n \in Nat
                      /\ runs[r].last \in Outputs(r) \cup Pending \cup {"none", "unusable"}
  /\ contributed \in BOOLEAN
  /\ candidate \in [version : Nat, status : CandidateStatus, kind : Kinds]
  /\ \A w \in Workers : tx[w].open => tx[w].seen \in WorkflowRows
  /\ overlapped \in BOOLEAN

\* A workflow that awaits or has its approval has a final decision whose
\* candidate every required controller reviewed, with no objection left and,
\* if there is a violation of human worth, no decision at all; the approval it
\* records is of a decision that is marked approved, and of the final one unless
\* two advances overlapped (then a later decision may have replaced it).
DecidedAfterReview ==
  /\ \A i \in 1..Len(decisions) :
       /\ decisions[i].kind \notin {"worth", "worthUnnoticed"}
       /\ \A c \in Controllers : decisions[i].verdicts[c] \in {"PASS", "WAIVED"}
       /\ decisions[i].verdicts[Constitutional] = "PASS"
  /\ workflow.status \in {"AWAITING_DECISION_APPROVAL", "APPROVED_FOR_PRODUCTION"}
       => workflow.final \in 1..Len(decisions)
  /\ workflow.status = "APPROVED_FOR_PRODUCTION" => workflow.approval # 0
  /\ workflow.approval # 0 => decisions[workflow.approval].approved
  /\ overlapped \/ workflow.approval \in {0, workflow.final}

\* At most one decision is ever materialized, unless two advances overlapped.
OneDecision == overlapped \/ Len(decisions) <= 1

\* Unless advances overlap, the chief writes at most max_revision_rounds revisions.
RevisionsBounded == overlapped \/ candidate.version <= MaxRounds + 1

\* What the controllers' outcome stopped stays stopped: a blocked or escalated
\* workflow never moves again, a decided one only to its approval, and the
\* revision count never falls.
VerdictStands ==
  [][\/ overlapped'
     \/ /\ workflow.status \in {"BLOCKED", "ESCALATED", "APPROVED_FOR_PRODUCTION"}
             => workflow' = workflow
        /\ workflow.status = "AWAITING_DECISION_APPROVAL"
             => workflow'.status \in {"AWAITING_DECISION_APPROVAL", "APPROVED_FOR_PRODUCTION"}
        /\ workflow'.rev >= workflow.rev]_decisionVars

InFlight == workflow.status \in RunningStatus

\* The job that would look at what the workflow waits for, for the runs there are.
CurrentPoll ==
  CASE workflow.status = "SPECIALISTS_RUNNING" ->
         Key("after-specialists", 0, SumRuns(Specialists))
    [] workflow.status = "CHIEF_RUNNING" ->
         Key("after-chief", _next_candidate_version, runs[Chief].n)
    [] workflow.status = "CONTROLLERS_RUNNING" ->
         Key("after-controllers", candidate.version, SumRuns(Controllers))
    [] OTHER -> Key("start", 0, 0)

\* Unless advances overlap, an unfinished workflow always has an advance job
\* coming, or one failed, or the poll of the current generation was spent while a
\* run was pending.
StallExplained ==
  (~overlapped /\ InFlight /\ \A k \in DOMAIN jobs : jobs[k] \in {"SUCCEEDED", "FAILED"})
    => \/ \E k \in DOMAIN jobs : jobs[k] = "FAILED"
       \/ CurrentPoll \in DOMAIN jobs

\* A started workflow ends: decided, blocked, escalated, or with a failed job.
WorkflowSettles ==
  workflow.status # "NONE" ~> (~InFlight \/ \E k \in DOMAIN jobs : jobs[k] = "FAILED")
=============================================================================
