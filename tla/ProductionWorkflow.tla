------------------------- MODULE ProductionWorkflow -------------------------
(***************************************************************************)
(* One governed production workflow (application/production_workflow.py,   *)
(* production/): from an approved decision to an asset version that is     *)
(* ready for an action proposal, through the director's, the writer's and  *)
(* the asset controllers' agent runs.                                      *)
(*                                                                         *)
(* The job runtime is taken at its promise (JobLifecycle): a queued job is *)
(* handled by one worker at a time, and is queued again after a crash.     *)
(* Unlike the decision workflow, an advance that finds a run unfinished    *)
(* raises TransientJobError: the same job is retried, up to max_attempts.  *)
(*                                                                         *)
(* An advance is one transaction in two steps: Begin loads the workflow    *)
(* row and checks the decision; what the runs say is read when it ends.    *)
(***************************************************************************)
EXTENDS Naturals, Sequences

CONSTANTS
  Workers,
  Controllers,   \* REQUIRED_ASSET_CONTROLLER_CONTRACT_KEYS, a sequence
  Drafts,        \* the kinds of draft the writer may hand in
  Opinions,      \* the verdicts the controllers may give
  MaxAttempts,   \* max_attempts of an advance job
  MaxRounds,     \* max_revision_rounds
  MaxCrashes     \* bound: crashes of workers

\* harmful: a human-worth violation or hard manipulation in the body;
\* unsupported: a claim without evidence; unlicensed: incomplete rights.
DraftKinds == {"clean", "harmful", "unsupported", "unlicensed"}

\* CONDITIONS: PASS_WITH_CONDITIONS with a mandatory condition; without one it
\* counts as PASS.
AssetVerdicts == {"PASS", "CONDITIONS", "REVISE", "BLOCK"}

ASSUME ProductionAssumption ==
  /\ Controllers \in Seq(STRING)
  /\ \A i \in DOMAIN Controllers : Controllers[i] \notin {"content_strategy", "asset"}
  /\ Drafts \subseteq DraftKinds /\ Opinions \subseteq AssetVerdicts
  /\ MaxAttempts \in Nat \ {0} /\ MaxRounds \in Nat
  /\ MaxCrashes \in Nat

VARIABLES
  workflow,    \* the production_workflows row; status "NONE" before it starts
  jobs,        \* the workflow.advance jobs by idempotency key
  runs,        \* the agent runs by idempotency key
  assets,      \* the asset versions, each a draft
  reviews,     \* the asset reviews, one verdict of each controller per version
  successor,   \* the decision that is to supersede the workflow's
  tx,          \* the advance transaction each worker has open
  crashes      \* crashes that may still happen

productionVars == <<workflow, jobs, runs, assets, reviews, successor, tx, crashes>>

ProductionStatus == {"NONE", "DECISION_APPROVAL_VERIFIED", "CONTENT_STRATEGY_RUNNING",
                     "PRODUCTION_RUNNING", "ASSET_CONTROLLERS_RUNNING", "BLOCKED", "ESCALATED",
                     "READY_FOR_ACTION_PROPOSAL"}

\* The ones an advance moves on from.
InFlightStatus == {"DECISION_APPROVAL_VERIFIED", "CONTENT_STRATEGY_RUNNING",
                   "PRODUCTION_RUNNING", "ASSET_CONTROLLERS_RUNNING"}

\* The suffix of an advance job's key: "start", or after-{stage} with the asset
\* version it is about.
Key(at, v) == [at |-> at, v |-> v]

\* The idempotency keys of the agent runs.
ContentStrategy == <<"content_strategy", 0>>
Asset(v) == <<"asset", v>>

\* Mutant: the key of a review lacks the asset version.
ReviewOfAny(c, v) == <<c, 1>>

Review(c, v) == <<c, v>>

Outputs(key) ==
  CASE key = ContentStrategy -> {"strategy"}
    [] key[1] = "asset"      -> Drafts
    [] OTHER                 -> Opinions

NoTx == [open |-> FALSE]

ProductionInit ==
  /\ workflow = [status |-> "NONE", rev |-> 0, brief |-> FALSE, final |-> 0]
  /\ jobs = << >>
  /\ runs = << >>
  /\ assets = << >>
  /\ reviews = << >>
  /\ successor = "NONE"
  /\ tx = [w \in Workers |-> NoTx]
  /\ crashes = MaxCrashes

-----------------------------------------------------------------------------
(* The owner, and the agent runs.                                          *)

NewJob == [status |-> "QUEUED", attempts |-> 0]

\* create_job and create_agent_run: a key that is taken yields the old row.
WithJobs(K) == [k \in DOMAIN jobs \cup K |-> IF k \in DOMAIN jobs THEN jobs[k] ELSE NewJob]
WithRuns(K) == [k \in DOMAIN runs \cup K |-> IF k \in DOMAIN runs THEN runs[k] ELSE "pending"]

\* The decision is approved.  A second start finds the workflow and returns its
\* start job, whatever became of that; nothing changes.
start_production_workflow ==
  /\ workflow.status = "NONE"
  /\ successor = "NONE"
  /\ workflow' = [workflow EXCEPT !.status = "DECISION_APPROVAL_VERIFIED"]
  /\ jobs' = WithJobs({Key("start", 0)})
  /\ UNCHANGED <<runs, assets, reviews, successor, tx, crashes>>

\* A successor's row: persist_decision at any time, and its own workflow when
\* something was learned from a publication (_materialize_phase6_intent).
\* Nothing else changes what _assert_decision_binding looks at: no code alters the
\* version, the status or the approval of an approved decision.
persist_decision ==
  /\ successor = "NONE"
  /\ successor' = "STORED"
  /\ UNCHANGED <<workflow, jobs, runs, assets, reviews, tx, crashes>>

\* Only the second kind has a workflow to be approved in, and only what is ready
\* is published.
approve_decision_for_production ==
  /\ successor = "STORED"
  /\ workflow.status = "READY_FOR_ACTION_PROPOSAL"
  /\ successor' = "APPROVED"
  /\ UNCHANGED <<workflow, jobs, runs, assets, reviews, tx, crashes>>

\* AgentRunJobHandler ends the run, or its last attempt fails: an output, or
\* nothing usable: refused, invalid, failed, references it may not make.  A run
\* whose job recover_expired_leases has failed without telling it never ends.
RunEnds(key, result) ==
  /\ runs[key] = "pending"
  /\ runs' = [runs EXCEPT ![key] = result]
  /\ UNCHANGED <<workflow, jobs, assets, reviews, successor, tx, crashes>>

-----------------------------------------------------------------------------
(* _advance_production_workflow: what it needs, and what it writes.         *)

_next_asset_version_number == Len(assets) + 1

\* The runs whose outputs an advance from the row materializes, in its order.
Needed(row) ==
  CASE row.status = "CONTENT_STRATEGY_RUNNING"  -> <<ContentStrategy>>
    [] row.status = "PRODUCTION_RUNNING"        -> <<Asset(_next_asset_version_number)>>
    [] row.status = "ASSET_CONTROLLERS_RUNNING" ->
         [i \in DOMAIN Controllers |-> Review(Controllers[i], Len(assets))]
    [] OTHER                                    -> << >>

\* _agent_run_by_idempotency and _validated_output: a run that is missing or
\* unfinished is waited for; the first run that is not usable decides.
Usable(key) == key \in DOMAIN runs /\ runs[key] \in Outputs(key)
Awaited(key) == key \notin DOMAIN runs \/ runs[key] = "pending"
AllUsable(keys) == \A i \in DOMAIN keys : Usable(keys[i])
FirstIsAwaited(keys) ==
  \E i \in DOMAIN keys : Awaited(keys[i]) /\ \A j \in 1..(i - 1) : Usable(keys[j])

\* What the draft itself shows comes before what the controllers say of it.
governed_asset_outcome(draft, given) ==
  IF draft = "harmful" THEN "BLOCK"
  ELSE IF draft \in {"unsupported", "unlicensed"} THEN "REVISE"
  ELSE IF "BLOCK" \in given THEN "BLOCK"
  ELSE IF "REVISE" \in given THEN "REVISE"
  ELSE IF "CONDITIONS" \in given THEN "CONDITIONS"
  ELSE "PASS"

\* What an advance leaves: the row, the runs and jobs it inserts, the asset
\* version and the reviews it materializes.
Writes(row, newRuns, newJobs) ==
  [row |-> row, runs |-> newRuns, jobs |-> newJobs, asset |-> << >>, review |-> << >>]

\* Mutant: the writer's poll is keyed without the version.
ToWriterOnce(row) ==
  Writes([row EXCEPT !.status = "PRODUCTION_RUNNING"],
         {Asset(_next_asset_version_number)}, {Key("after-writer", 1)})

\* _ensure_writer_run for the next version, and the job that will look at it.
ToWriter(row) ==
  Writes([row EXCEPT !.status = "PRODUCTION_RUNNING"],
         {Asset(_next_asset_version_number)},
         {Key("after-writer", _next_asset_version_number)})

\* _materialize_asset_version and _ensure_asset_controller_runs.
ToControllers(row) ==
  LET v == _next_asset_version_number IN
  [Writes([row EXCEPT !.status = "ASSET_CONTROLLERS_RUNNING", !.final = v],
          {Review(Controllers[i], v) : i \in DOMAIN Controllers},
          {Key("after-asset-controllers", v)})
   EXCEPT !.asset = <<runs[Asset(v)]>>]

Rest(row) == Writes(row, {}, {})

\* Mutant: the limit is off by one.
ReviseOnceMore(row) ==
  IF row.rev > MaxRounds THEN Rest([row EXCEPT !.status = "ESCALATED"])
  ELSE ToWriter([row EXCEPT !.rev = @ + 1])

Revise(row) ==
  IF row.rev >= MaxRounds THEN Rest([row EXCEPT !.status = "ESCALATED"])
  ELSE ToWriter([row EXCEPT !.rev = @ + 1])

\* The reviews of the latest version, one by each controller.
_materialize_asset_reviews ==
  [i \in DOMAIN Controllers |-> runs[Review(Controllers[i], Len(assets))]]

Judged(row, outcome) ==
  CASE outcome = "BLOCK" -> Rest([row EXCEPT !.status = "BLOCKED"])
    [] outcome \in {"REVISE", "CONDITIONS"} -> Revise(row)
    [] outcome = "PASS" ->
         Rest([row EXCEPT !.status = "READY_FOR_ACTION_PROPOSAL", !.final = Len(assets)])

AfterControllers(row) ==
  LET verdicts == _materialize_asset_reviews
      given == {verdicts[i] : i \in DOMAIN Controllers} IN
  [Judged(row, governed_asset_outcome(assets[Len(assets)], given)) EXCEPT !.review = <<verdicts>>]

\* Any other status: nothing to do.
_advance_production_workflow(row) ==
  CASE row.status = "DECISION_APPROVAL_VERIFIED" ->
         Writes([row EXCEPT !.status = "CONTENT_STRATEGY_RUNNING"], {ContentStrategy},
                {Key("after-content-strategy", 0)})
    [] row.status = "CONTENT_STRATEGY_RUNNING"  -> ToWriter([row EXCEPT !.brief = TRUE])
    [] row.status = "PRODUCTION_RUNNING"        -> ToControllers(row)
    [] row.status = "ASSET_CONTROLLERS_RUNNING" -> AfterControllers(row)
    [] OTHER                                    -> Rest(row)

-----------------------------------------------------------------------------
(* The advance job's handler, in a worker.                                 *)

\* Mutant: the decision is not looked at again.
BoundAtStart == TRUE

\* Any successor's row will do, approved or not.
_assert_decision_binding == successor = "NONE"

\* late is a history field: a successor was stored before the transaction.
Begin(w, k) ==
  /\ ~tx[w].open
  /\ jobs[k].status = "QUEUED"
  /\ jobs' = [jobs EXCEPT ![k] = [status |-> "RUNNING", attempts |-> @.attempts + 1]]
  /\ tx' = [tx EXCEPT ![w] = [open |-> TRUE, key |-> k, seen |-> workflow,
                              bound |-> _assert_decision_binding, late |-> successor # "NONE"]]
  /\ UNCHANGED <<workflow, runs, assets, reviews, successor, crashes>>

\* The transaction commits, and its job with it, whose attempts nobody looks at
\* any more.
Commit(w) ==
  LET writes == _advance_production_workflow(tx[w].seen) IN
  /\ tx[w].open
  /\ tx[w].bound
  /\ AllUsable(Needed(tx[w].seen))
  /\ workflow' = writes.row
  /\ runs' = WithRuns(writes.runs)
  /\ assets' = assets \o writes.asset
  /\ reviews' = reviews \o writes.review
  /\ jobs' = [WithJobs(writes.jobs)
              EXCEPT ![tx[w].key] = [status |-> "SUCCEEDED", attempts |-> 0]]
  /\ tx' = [tx EXCEPT ![w] = NoTx]
  /\ UNCHANGED <<successor, crashes>>

\* Mutant: the count of the attempts is rolled back, too.
RollsBackUncounted(w, status) ==
  /\ tx[w].open
  /\ jobs' = [jobs EXCEPT ![tx[w].key] = [status |-> status, attempts |-> 0]]
  /\ tx' = [tx EXCEPT ![w] = NoTx]
  /\ UNCHANGED <<workflow, runs, assets, reviews, successor>>

\* The transaction is rolled back and its job gets another status.
RollsBack(w, status) ==
  /\ tx[w].open
  /\ jobs' = [jobs EXCEPT ![tx[w].key] = [status |-> status, attempts |-> @.attempts]]
  /\ tx' = [tx EXCEPT ![w] = NoTx]
  /\ UNCHANGED <<workflow, runs, assets, reviews, successor>>

\* Mutant: a job may be tried for ever.
RetriedForEver(k) == "QUEUED"

\* mark_job_failed_or_retrying and recover_expired_leases.
Retried(k) == IF jobs[k].attempts < MaxAttempts THEN "QUEUED" ELSE "FAILED"

\* A TransientJobError: a run is not finished.
Waits(w) ==
  /\ tx[w].open
  /\ tx[w].bound
  /\ FirstIsAwaited(Needed(tx[w].seen))
  /\ RollsBack(w, Retried(tx[w].key))
  /\ UNCHANGED crashes

\* A PermanentJobError: the decision has a successor, or a run is unusable.
Raises(w) ==
  /\ tx[w].open
  /\ \/ ~tx[w].bound
     \/ ~AllUsable(Needed(tx[w].seen)) /\ ~FirstIsAwaited(Needed(tx[w].seen))
  /\ RollsBack(w, "FAILED")
  /\ UNCHANGED crashes

\* The worker dies; the job's lease expires.
Crash(w) ==
  /\ crashes > 0
  /\ tx[w].open
  /\ RollsBack(w, Retried(tx[w].key))
  /\ crashes' = crashes - 1

-----------------------------------------------------------------------------
Owner == start_production_workflow \/ persist_decision \/ approve_decision_for_production

RunStep(key) == \E result \in Outputs(key) \cup {"unusable"} : RunEnds(key, result)

WorkerStep(w) ==
  \/ \E k \in DOMAIN jobs : Begin(w, k)
  \/ Commit(w)
  \/ Waits(w)
  \/ Raises(w)

ProductionNext ==
  \/ Owner
  \/ \E key \in DOMAIN runs : RunStep(key)
  \/ \E w \in Workers : WorkerStep(w) \/ Crash(w)

ProductionSpec == ProductionInit /\ [][ProductionNext]_productionVars

\* Workers keep taking jobs and finish what they began.  Nothing is assumed of
\* the agent runs: they may never end.
FairProductionSpec == ProductionSpec /\ \A w \in Workers : WF_productionVars(WorkerStep(w))

-----------------------------------------------------------------------------
(* Properties.                                                             *)

InFlight == workflow.status \in InFlightStatus

ProductionRows == [status : ProductionStatus, rev : Nat, brief : BOOLEAN, final : Nat]

JobKeys == [at : {"start", "after-content-strategy", "after-writer", "after-asset-controllers"},
            v : Nat]

JobRows == [status : {"QUEUED", "RUNNING", "SUCCEEDED", "FAILED"}, attempts : Nat]

\* The type of the state.
ProductionTypeOK ==
  /\ workflow \in ProductionRows
  /\ DOMAIN jobs \subseteq JobKeys
  /\ \A k \in DOMAIN jobs : jobs[k] \in JobRows /\ jobs[k].attempts <= MaxAttempts
  /\ \A key \in DOMAIN runs : runs[key] \in Outputs(key) \cup {"pending", "unusable"}
  /\ \A v \in 1..Len(assets) : assets[v] \in Drafts
  /\ \A v \in 1..Len(reviews) : \A i \in DOMAIN Controllers : reviews[v][i] \in Opinions
  /\ successor \in {"NONE", "STORED", "APPROVED"}

\* What a workflow hands on to the action proposal is its latest asset version:
\* with nothing in the draft that governance refuses, and reviewed by every
\* required controller without an objection.  Each review is the one that the
\* controller's run for exactly that version gave, and each version is what the
\* writer's run for it wrote.
ReadyIsReviewed ==
  /\ \A v \in 1..Len(assets) :
       <<"asset", v>> \in DOMAIN runs /\ assets[v] = runs[<<"asset", v>>]
  /\ \A v \in 1..Len(reviews) : \A i \in DOMAIN Controllers :
       /\ <<Controllers[i], v>> \in DOMAIN runs
       /\ reviews[v][i] = runs[<<Controllers[i], v>>]
  /\ workflow.status = "READY_FOR_ACTION_PROPOSAL" =>
       /\ workflow.brief
       /\ workflow.final = Len(assets) /\ workflow.final = Len(reviews)
       /\ assets[workflow.final] = "clean"
       /\ \A i \in DOMAIN Controllers : reviews[workflow.final][i] = "PASS"

\* Every revision round writes one more version and every version is reviewed
\* once, before the next is asked for; there are at most max_revision_rounds.
RevisionsCounted ==
  /\ workflow.rev <= MaxRounds
  /\ Len(reviews) = IF InFlight \/ workflow.status = "NONE" THEN workflow.rev ELSE workflow.rev + 1
  /\ Len(assets) = IF workflow.status = "ASSET_CONTROLLERS_RUNNING" THEN Len(reviews) + 1
                   ELSE Len(reviews)

\* Where a job stands in the only order in which jobs are made.
Rank(k) ==
  IF k.at = "start" THEN 0
  ELSE IF k.at = "after-content-strategy" THEN 1
  ELSE IF k.at = "after-writer" THEN 2 * k.v
  ELSE 2 * k.v + 1

\* The job that will move an unfinished workflow on.
CurrentJob ==
  CASE workflow.status = "DECISION_APPROVAL_VERIFIED" -> Key("start", 0)
    [] workflow.status = "CONTENT_STRATEGY_RUNNING"   -> Key("after-content-strategy", 0)
    [] workflow.status = "PRODUCTION_RUNNING"         -> Key("after-writer", Len(assets) + 1)
    [] OTHER                                          -> Key("after-asset-controllers", Len(assets))

\* Advances never overlap and none gets lost: an unfinished workflow has exactly
\* one job that can move it on, unless that one failed; a finished workflow has
\* none, and the open transaction has loaded the row that is still there.
OneAdvance ==
  /\ \A k \in DOMAIN jobs : jobs[k].status \in {"QUEUED", "RUNNING"} => InFlight /\ k = CurrentJob
  /\ InFlight => /\ CurrentJob \in DOMAIN jobs
                 /\ jobs[CurrentJob].status # "SUCCEEDED"
  /\ \A v, w \in Workers : tx[v].open /\ tx[w].open => v = w
  /\ \A w \in Workers : tx[w].open => tx[w].seen = workflow

\* "Production cannot continue from superseded Decision": once a successor is
\* stored, even one that nobody has approved, nothing is produced any more but
\* by a transaction that had begun before.
SupersededStops ==
  [][successor # "NONE" /\ (\A w \in Workers : tx[w].open => tx[w].late)
       => UNCHANGED <<workflow, assets, reviews>>]_productionVars

\* The prior decision stands until the owner has approved its successor: before
\* that no advance fails that has everything it needs.
PriorDecisionStands ==
  [][\A w \in Workers :
       Raises(w) /\ AllUsable(Needed(tx[w].seen)) => successor = "APPROVED"]_productionVars

\* A started workflow comes to rest: ready, blocked, escalated, or with a failed
\* job; even if an agent run never ends.
ProductionSettles ==
  workflow.status # "NONE" ~> (~InFlight \/ \E k \in DOMAIN jobs : jobs[k].status = "FAILED")
=============================================================================
