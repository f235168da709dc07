---------------------- MODULE ProductionWorkflowProofs ----------------------
(***************************************************************************)
(* Proofs about ProductionWorkflow: the advances of a workflow form a      *)
(* chain, so no two of them overlap and none is lost (OneAdvance); the     *)
(* rounds, versions and reviews agree (RevisionsCounted); with a stored    *)
(* successor nothing is produced any more (SupersededStops); what a ready      *)
(* workflow hands on is what its runs gave and all controllers passed      *)
(* (ReadyIsReviewed).                                                      *)
(***************************************************************************)
EXTENDS ProductionWorkflow, SequenceTheorems, TLAPS

\* The rows have their types; the verdicts of a version are a function of the
\* controllers.
RowsOK ==
  /\ workflow \in ProductionRows
  /\ assets \in Seq(Drafts)
  /\ reviews \in Seq([DOMAIN Controllers -> Opinions])

\* A job is made only after every other: the job of the next stage is new.
JobsInOrder ==
  /\ DOMAIN jobs \subseteq JobKeys
  /\ workflow.status = "NONE" => DOMAIN jobs = {}
  /\ InFlight => \A k \in DOMAIN jobs : Rank(k) <= Rank(CurrentJob)

\* An open transaction is the attempt of a job that is running, and has looked at
\* the decision.
AttemptRuns ==
  /\ DOMAIN tx = Workers
  /\ \A w \in Workers : tx[w].open => /\ tx[w].key \in DOMAIN jobs
                                      /\ jobs[tx[w].key].status = "RUNNING"
                                      /\ tx[w].bound => ~tx[w].late

\* The inductive invariant.
ProductionInv ==
  /\ RowsOK
  /\ JobsInOrder
  /\ AttemptRuns
  /\ OneAdvance
  /\ RevisionsCounted

-----------------------------------------------------------------------------
\* The ranks of the keys that the code makes.
LEMMA KeyRanks ==
  /\ Key("start", 0) \in JobKeys /\ Rank(Key("start", 0)) = 0
  /\ Key("after-content-strategy", 0) \in JobKeys /\ Rank(Key("after-content-strategy", 0)) = 1
  /\ \A v \in Nat : Key("after-writer", v) \in JobKeys /\ Rank(Key("after-writer", v)) = 2 * v
  /\ \A v \in Nat : /\ Key("after-asset-controllers", v) \in JobKeys
                    /\ Rank(Key("after-asset-controllers", v)) = 2 * v + 1
  BY DEF Key, JobKeys, Rank

\* The job that moves the workflow on, by its status.
LEMMA CurrentJobs ==
  /\ workflow.status = "DECISION_APPROVAL_VERIFIED" => CurrentJob = Key("start", 0)
  /\ workflow.status = "CONTENT_STRATEGY_RUNNING" => CurrentJob = Key("after-content-strategy", 0)
  /\ workflow.status = "PRODUCTION_RUNNING" => CurrentJob = Key("after-writer", Len(assets) + 1)
  /\ workflow.status = "ASSET_CONTROLLERS_RUNNING"
       => CurrentJob = Key("after-asset-controllers", Len(assets))
  BY Zenon DEF CurrentJob

\* The initial state satisfies the invariant.
LEMMA ProductionInitInv == ASSUME ProductionInit PROVE ProductionInv
<1> USE ProductionAssumption
<1>1. RowsOK
  BY DEF ProductionInit, RowsOK, ProductionRows, ProductionStatus
<1>2. DOMAIN jobs = {}
  BY DEF ProductionInit
<1>3. ~InFlight
  BY DEF ProductionInit, InFlight, InFlightStatus
<1>4. \A w \in Workers : ~tx[w].open
  BY DEF ProductionInit, NoTx
<1>5. RevisionsCounted
  BY <1>3 DEF ProductionInit, RevisionsCounted
<1> QED
  BY <1>1, <1>2, <1>3, <1>4, <1>5
     DEF ProductionInit, ProductionInv, JobsInOrder, AttemptRuns, OneAdvance

-----------------------------------------------------------------------------
(* The steps that leave the workflow as it is.                             *)

\* What depends only on the workflow and what it has produced.
LEMMA SameStage ==
  ASSUME ProductionInv, UNCHANGED <<workflow, assets, reviews>>
  PROVE  /\ RowsOK' /\ RevisionsCounted'
         /\ InFlight' = InFlight /\ CurrentJob' = CurrentJob
<1>1. InFlight' = InFlight
  BY DEF InFlight
<1>2. CurrentJob' = CurrentJob
  BY Zenon DEF CurrentJob
<1>3. RowsOK'
  BY DEF ProductionInv, RowsOK
<1>4. RevisionsCounted'
  BY <1>1 DEF ProductionInv, RevisionsCounted
<1> QED
  BY <1>1, <1>2, <1>3, <1>4

\* The job whose attempt is open is the one that moves the workflow on.
LEMMA OpenIsCurrent ==
  ASSUME ProductionInv, NEW w \in Workers, tx[w].open
  PROVE  /\ InFlight /\ tx[w].key = CurrentJob /\ CurrentJob \in DOMAIN jobs
         /\ tx[w].seen = workflow
         /\ \A v \in Workers : tx[v].open => v = w
  BY DEF ProductionInv, AttemptRuns, OneAdvance

\* A transaction that is rolled back.
LEMMA RollbackKeepsInv ==
  ASSUME ProductionInv, NEW w \in Workers, NEW status \in {"QUEUED", "FAILED"},
         RollsBack(w, status)
  PROVE  ProductionInv'
<1>1. /\ RowsOK' /\ RevisionsCounted'
      /\ InFlight' = InFlight /\ CurrentJob' = CurrentJob
  BY SameStage DEF RollsBack
<1>2. /\ InFlight /\ tx[w].key = CurrentJob /\ CurrentJob \in DOMAIN jobs
      /\ \A v \in Workers : tx[v].open => v = w
  BY OpenIsCurrent DEF RollsBack
<1>3. /\ DOMAIN jobs' = DOMAIN jobs
      /\ jobs'[CurrentJob].status = status
      /\ \A k \in DOMAIN jobs : k # CurrentJob => jobs'[k] = jobs[k]
  BY <1>2 DEF RollsBack
<1>4. /\ DOMAIN tx' = Workers
      /\ \A v \in Workers : ~tx'[v].open
  BY <1>2 DEF RollsBack, NoTx, ProductionInv, AttemptRuns
<1>5. JobsInOrder'
  BY <1>1, <1>2, <1>3 DEF RollsBack, ProductionInv, JobsInOrder
<1>6. AttemptRuns'
  BY <1>4 DEF AttemptRuns
<1>7. OneAdvance'
  BY <1>1, <1>2, <1>3, <1>4 DEF ProductionInv, OneAdvance
<1> QED
  BY <1>1, <1>5, <1>6, <1>7 DEF ProductionInv

\* A worker begins an attempt.
LEMMA BeginKeepsInv ==
  ASSUME ProductionInv, NEW w \in Workers, NEW k \in DOMAIN jobs, Begin(w, k)
  PROVE  ProductionInv'
<1>1. /\ RowsOK' /\ RevisionsCounted'
      /\ InFlight' = InFlight /\ CurrentJob' = CurrentJob
  BY SameStage DEF Begin
<1>2. InFlight /\ k = CurrentJob /\ jobs[k].status = "QUEUED"
  BY DEF Begin, ProductionInv, OneAdvance
<1>3. \A v \in Workers : ~tx[v].open
  BY <1>2, OpenIsCurrent DEF ProductionInv, AttemptRuns
<1>4. /\ DOMAIN jobs' = DOMAIN jobs
      /\ jobs'[k].status = "RUNNING"
      /\ \A l \in DOMAIN jobs : l # k => jobs'[l] = jobs[l]
  BY DEF Begin
<1>5. /\ DOMAIN tx' = Workers
      /\ tx'[w].key = k /\ tx'[w].seen = workflow
      /\ tx'[w].bound => ~tx'[w].late
      /\ \A v \in Workers : v # w => ~tx'[v].open
  BY <1>3 DEF Begin, ProductionInv, AttemptRuns, _assert_decision_binding
<1>6. JobsInOrder'
  BY <1>1, <1>2, <1>4 DEF Begin, ProductionInv, JobsInOrder
<1>7. AttemptRuns'
  BY <1>4, <1>5 DEF AttemptRuns
<1>8. OneAdvance'
  BY <1>1, <1>2, <1>4, <1>5 DEF Begin, ProductionInv, OneAdvance
<1> QED
  BY <1>1, <1>6, <1>7, <1>8 DEF ProductionInv

\* A step of an agent run, a successor of the decision, and stuttering.
LEMMA OthersKeepInv ==
  ASSUME ProductionInv, UNCHANGED <<workflow, jobs, assets, reviews, tx>>
  PROVE  ProductionInv'
<1>1. /\ RowsOK' /\ RevisionsCounted'
      /\ InFlight' = InFlight /\ CurrentJob' = CurrentJob
  BY SameStage
<1>2. JobsInOrder' /\ AttemptRuns' /\ OneAdvance'
  BY <1>1 DEF ProductionInv, JobsInOrder, AttemptRuns, OneAdvance
<1> QED
  BY <1>1, <1>2 DEF ProductionInv

\* The workflow starts.
LEMMA StartKeepsInv ==
  ASSUME ProductionInv, start_production_workflow
  PROVE  ProductionInv'
<1> USE DEF start_production_workflow
<1>1. /\ workflow'.status = "DECISION_APPROVAL_VERIFIED" /\ workflow' \in ProductionRows
      /\ workflow'.rev = workflow.rev
  BY DEF ProductionInv, RowsOK, ProductionRows, ProductionStatus
<1>2. InFlight' /\ ~InFlight
  BY <1>1 DEF InFlight, InFlightStatus
<1>3. CurrentJob' = Key("start", 0)
  BY <1>1, Zenon DEF CurrentJob
<1>4. DOMAIN jobs = {}
  BY DEF ProductionInv, JobsInOrder
<1>5. DOMAIN jobs' = {Key("start", 0)} /\ jobs'[Key("start", 0)].status = "QUEUED"
  BY <1>4 DEF WithJobs, NewJob
<1>6. \A w \in Workers : ~tx'[w].open
  BY <1>4 DEF ProductionInv, AttemptRuns
<1>7. RowsOK' /\ AttemptRuns'
  BY <1>1, <1>6 DEF ProductionInv, RowsOK, AttemptRuns
<1>8. RevisionsCounted'
  BY <1>1, <1>2 DEF ProductionInv, RevisionsCounted
<1>9. JobsInOrder'
  <2>1. DOMAIN jobs' \subseteq JobKeys /\ workflow'.status # "NONE"
    BY <1>1, <1>5, KeyRanks
  <2>2. \A k \in DOMAIN jobs' : k = CurrentJob'
    BY <1>3, <1>5
  <2>3. Rank(CurrentJob') <= Rank(CurrentJob')
    BY <1>3, KeyRanks
  <2> QED
    BY <2>1, <2>2, <2>3 DEF JobsInOrder
<1>10. OneAdvance'
  BY <1>2, <1>3, <1>5, <1>6 DEF OneAdvance
<1> QED
  BY <1>7, <1>8, <1>9, <1>10 DEF ProductionInv

-----------------------------------------------------------------------------
(* A transaction that commits.                                             *)

\* What the job of a commit does to the chain: its own job is done, and if the
\* workflow goes on, the job of the new stage is new.
LEMMA CommitKeepsChain ==
  ASSUME ProductionInv, NEW w \in Workers, tx[w].open,
         NEW K, jobs' = [WithJobs(K) EXCEPT ![tx[w].key] = [status |-> "SUCCEEDED", attempts |-> 0]],
         tx' = [tx EXCEPT ![w] = NoTx],
         workflow'.status # "NONE",
         \/ K = {} /\ ~InFlight'
         \/ /\ K = {CurrentJob'} /\ InFlight'
            /\ CurrentJob' \in JobKeys
            /\ Rank(CurrentJob) < Rank(CurrentJob')
            /\ Rank(CurrentJob) \in Nat /\ Rank(CurrentJob') \in Nat
  PROVE  JobsInOrder' /\ AttemptRuns' /\ OneAdvance'
<1>1. /\ InFlight /\ tx[w].key = CurrentJob /\ CurrentJob \in DOMAIN jobs
      /\ \A v \in Workers : tx[v].open => v = w
  BY OpenIsCurrent
<1>2. /\ DOMAIN tx' = Workers
      /\ \A v \in Workers : ~tx'[v].open
  BY <1>1 DEF NoTx, ProductionInv, AttemptRuns
<1>3. /\ DOMAIN jobs' = DOMAIN jobs \cup K
      /\ \A k \in DOMAIN jobs : jobs'[k].status \notin {"QUEUED", "RUNNING"}
      /\ \A k \in K \ DOMAIN jobs : jobs'[k].status = "QUEUED"
  BY <1>1 DEF WithJobs, NewJob, ProductionInv, OneAdvance
<1>4. \A k \in DOMAIN jobs : k \in JobKeys /\ Rank(k) <= Rank(CurrentJob)
  BY <1>1 DEF ProductionInv, JobsInOrder
<1>5. CASE K = {} /\ ~InFlight'
  BY <1>2, <1>3, <1>4, <1>5 DEF JobsInOrder, AttemptRuns, OneAdvance
<1>6. CASE /\ K = {CurrentJob'} /\ InFlight'
           /\ CurrentJob' \in JobKeys
           /\ Rank(CurrentJob) < Rank(CurrentJob')
           /\ Rank(CurrentJob) \in Nat /\ Rank(CurrentJob') \in Nat
  <2>1. \A k \in DOMAIN jobs : Rank(k) \in Nat
    BY <1>4 DEF JobKeys, Rank
  <2>2. CurrentJob' \notin DOMAIN jobs
    BY <1>4, <1>6, <2>1
  <2>3. JobsInOrder'
    BY <1>3, <1>4, <1>6, <2>1 DEF JobsInOrder
  <2>4. AttemptRuns'
    BY <1>2 DEF AttemptRuns
  <2>5. OneAdvance'
    BY <1>2, <1>3, <1>6, <2>2 DEF OneAdvance
  <2> QED
    BY <2>3, <2>4, <2>5
<1> QED
  BY <1>5, <1>6

\* What the runs hand in has its type.
LEMMA OutputTypes ==
  ASSUME NEW v \in Nat
  PROVE  /\ Outputs(Asset(v)) = Drafts
         /\ \A i \in DOMAIN Controllers : Outputs(Review(Controllers[i], v)) = Opinions
<1>1. Asset(v) # ContentStrategy /\ Asset(v)[1] = "asset"
  BY DEF Asset, ContentStrategy
<1>2. Outputs(Asset(v)) = Drafts
  BY <1>1, Zenon DEF Outputs
<1>3. ASSUME NEW i \in DOMAIN Controllers
      PROVE  Outputs(Review(Controllers[i], v)) = Opinions
  <2>1. Controllers[i] # "content_strategy" /\ Controllers[i] # "asset"
    BY ProductionAssumption
  <2>2. Review(Controllers[i], v) # ContentStrategy /\ Review(Controllers[i], v)[1] # "asset"
    BY <2>1 DEF Review, ContentStrategy
  <2> QED
    BY <2>2, Zenon DEF Outputs
<1> QED
  BY <1>2, <1>3

\* The row, the asset versions and the reviews after a commit, stage by stage.
LEMMA CommitWrites ==
  ASSUME ProductionInv, NEW w \in Workers, Commit(w)
  PROVE  /\ workflow' = _advance_production_workflow(workflow).row
         /\ assets' = assets \o _advance_production_workflow(workflow).asset
         /\ reviews' = reviews \o _advance_production_workflow(workflow).review
         /\ jobs' = [WithJobs(_advance_production_workflow(workflow).jobs)
                      EXCEPT ![tx[w].key] = [status |-> "SUCCEEDED", attempts |-> 0]]
         /\ tx' = [tx EXCEPT ![w] = NoTx]
         /\ tx[w].open /\ AllUsable(Needed(workflow)) /\ InFlight
<1>1. tx[w].open
  BY DEF Commit
<1>2. tx[w].seen = workflow /\ InFlight
  BY <1>1, OpenIsCurrent
<1> QED
  BY <1>1, <1>2 DEF Commit

\* Appending nothing, and appending one.
LEMMA Appending ==
  ASSUME NEW S, NEW s \in Seq(S)
  PROVE  /\ Len(s) \in Nat
         /\ s \o << >> = s
         /\ \A x \in S : s \o <<x>> \in Seq(S) /\ Len(s \o <<x>>) = Len(s) + 1
  OBVIOUS

\* The content strategy is asked for.
LEMMA CommitVerified ==
  ASSUME ProductionInv, NEW w \in Workers, Commit(w),
         workflow.status = "DECISION_APPROVAL_VERIFIED"
  PROVE  ProductionInv'
<1> DEFINE row == [workflow EXCEPT !.status = "CONTENT_STRATEGY_RUNNING"]
           K == {Key("after-content-strategy", 0)}
<1>1. _advance_production_workflow(workflow) = Writes(row, {ContentStrategy}, K)
  BY Zenon DEF _advance_production_workflow
<1>2. /\ workflow' = row /\ assets' = assets /\ reviews' = reviews
      /\ jobs' = [WithJobs(K) EXCEPT ![tx[w].key] = [status |-> "SUCCEEDED", attempts |-> 0]]
      /\ tx' = [tx EXCEPT ![w] = NoTx] /\ tx[w].open /\ InFlight
  <2> DEFINE adv == _advance_production_workflow(workflow)
  <2>1. adv.row = row /\ adv.jobs = K /\ adv.asset = << >> /\ adv.review = << >>
    BY <1>1 DEF Writes
  <2>2. assets \o << >> = assets /\ reviews \o << >> = reviews
    BY Appending DEF ProductionInv, RowsOK
  <2> HIDE DEF row, K, adv
  <2> QED
    BY <2>1, <2>2, CommitWrites, Zenon DEF adv
<1>3. /\ workflow' \in ProductionRows /\ workflow'.status = "CONTENT_STRATEGY_RUNNING"
      /\ workflow'.rev = workflow.rev
  BY <1>2 DEF ProductionInv, RowsOK, ProductionRows, ProductionStatus
<1>4. InFlight'
  BY <1>3 DEF InFlight, InFlightStatus
<1>5. CurrentJob = Key("start", 0)
  BY CurrentJobs
<1>6. CurrentJob' = Key("after-content-strategy", 0)
  BY <1>3, Zenon DEF CurrentJob
<1>7. /\ CurrentJob' \in JobKeys /\ Rank(CurrentJob) < Rank(CurrentJob')
      /\ Rank(CurrentJob) \in Nat /\ Rank(CurrentJob') \in Nat
  <2>1. Rank(CurrentJob) = 0 /\ Rank(CurrentJob') = 1 /\ CurrentJob' \in JobKeys
    BY <1>5, <1>6, KeyRanks, Zenon
  <2> QED
    BY <2>1
<1>9. JobsInOrder' /\ AttemptRuns' /\ OneAdvance'
  BY <1>2, <1>3, <1>4, <1>6, <1>7, CommitKeepsChain
<1>8. RowsOK' /\ RevisionsCounted'
  BY <1>2, <1>3, <1>4 DEF ProductionInv, RowsOK, RevisionsCounted
<1> QED
  BY <1>8, <1>9 DEF ProductionInv

\* The strategy is there, and the first version is asked for.
LEMMA CommitStrategy ==
  ASSUME ProductionInv, NEW w \in Workers, Commit(w),
         workflow.status = "CONTENT_STRATEGY_RUNNING"
  PROVE  ProductionInv'
<1> DEFINE row == [[workflow EXCEPT !.brief = TRUE] EXCEPT !.status = "PRODUCTION_RUNNING"]
           K == {Key("after-writer", Len(assets) + 1)}
<1>1. _advance_production_workflow(workflow) = ToWriter([workflow EXCEPT !.brief = TRUE])
  BY Zenon DEF _advance_production_workflow
<1>2. /\ workflow' = row /\ assets' = assets /\ reviews' = reviews
      /\ jobs' = [WithJobs(K) EXCEPT ![tx[w].key] = [status |-> "SUCCEEDED", attempts |-> 0]]
      /\ tx' = [tx EXCEPT ![w] = NoTx] /\ tx[w].open /\ InFlight
  <2> DEFINE adv == _advance_production_workflow(workflow)
  <2>1. adv.row = row /\ adv.jobs = K /\ adv.asset = << >> /\ adv.review = << >>
    BY <1>1 DEF ToWriter, Writes, _next_asset_version_number
  <2>2. assets \o << >> = assets /\ reviews \o << >> = reviews
    BY Appending DEF ProductionInv, RowsOK
  <2> HIDE DEF row, K, adv
  <2> QED
    BY <2>1, <2>2, CommitWrites, Zenon DEF adv
<1>3. /\ workflow' \in ProductionRows /\ workflow'.status = "PRODUCTION_RUNNING"
      /\ workflow'.rev = workflow.rev
  BY <1>2 DEF ProductionInv, RowsOK, ProductionRows, ProductionStatus
<1>4. InFlight' /\ Len(assets) \in Nat
  BY <1>3, Appending DEF InFlight, InFlightStatus, ProductionInv, RowsOK
<1>5. CurrentJob = Key("after-content-strategy", 0)
  BY CurrentJobs
<1>6. CurrentJob' = Key("after-writer", Len(assets) + 1)
  BY <1>2, <1>3, Zenon DEF CurrentJob
<1>7. /\ CurrentJob' \in JobKeys /\ Rank(CurrentJob) < Rank(CurrentJob')
      /\ Rank(CurrentJob) \in Nat /\ Rank(CurrentJob') \in Nat
  <2> DEFINE n == Len(assets) + 1
  <2>1. Rank(CurrentJob) = 1
    BY <1>5, KeyRanks, Zenon
  <2> HIDE DEF n
  <2>2. n \in Nat => Rank(CurrentJob') = 2 * n /\ CurrentJob' \in JobKeys
    BY <1>6, KeyRanks, Zenon DEF n
  <2> QED
    BY <1>4, <2>1, <2>2 DEF n
<1>8. JobsInOrder' /\ AttemptRuns' /\ OneAdvance'
  BY <1>2, <1>3, <1>4, <1>6, <1>7, CommitKeepsChain
<1>9. RowsOK' /\ RevisionsCounted'
  BY <1>2, <1>3, <1>4 DEF ProductionInv, RowsOK, RevisionsCounted
<1> QED
  BY <1>8, <1>9 DEF ProductionInv

\* A version is there, and its reviews are asked for.
LEMMA CommitDraft ==
  ASSUME ProductionInv, NEW w \in Workers, Commit(w),
         workflow.status = "PRODUCTION_RUNNING"
  PROVE  ProductionInv'
<1> DEFINE n == Len(assets) + 1
           row == [workflow EXCEPT !.status = "ASSET_CONTROLLERS_RUNNING", !.final = n]
           K == {Key("after-asset-controllers", n)}
<1>1. _advance_production_workflow(workflow) = ToControllers(workflow)
  BY Zenon DEF _advance_production_workflow
<1>2. Needed(workflow) = <<Asset(n)>>
  BY Zenon DEF Needed, _next_asset_version_number
<1>3. Len(assets) \in Nat /\ n \in Nat
  BY Appending DEF ProductionInv, RowsOK
<1>4. runs[Asset(n)] \in Drafts
  <2>1. Usable(Asset(n))
    BY <1>2, CommitWrites DEF AllUsable
  <2> QED
    BY <1>3, <2>1, OutputTypes DEF Usable
<1>5. /\ workflow' = row /\ assets' = assets \o <<runs[Asset(n)]>> /\ reviews' = reviews
      /\ jobs' = [WithJobs(K) EXCEPT ![tx[w].key] = [status |-> "SUCCEEDED", attempts |-> 0]]
      /\ tx' = [tx EXCEPT ![w] = NoTx] /\ tx[w].open /\ InFlight
  <2> DEFINE adv == _advance_production_workflow(workflow)
             draft == <<runs[Asset(n)]>>
  <2>1. adv.row = row /\ adv.jobs = K /\ adv.asset = draft /\ adv.review = << >>
    BY <1>1 DEF ToControllers, Writes, _next_asset_version_number
  <2>2. reviews \o << >> = reviews
    BY Appending DEF ProductionInv, RowsOK
  <2> HIDE DEF row, K, adv, draft
  <2>3. /\ workflow' = row /\ assets' = assets \o draft /\ reviews' = reviews
        /\ jobs' = [WithJobs(K) EXCEPT ![tx[w].key] = [status |-> "SUCCEEDED", attempts |-> 0]]
        /\ tx' = [tx EXCEPT ![w] = NoTx] /\ tx[w].open /\ InFlight
    BY <2>1, <2>2, CommitWrites, Zenon DEF adv
  <2> QED
    BY <2>3 DEF draft
<1>6. /\ workflow' \in ProductionRows /\ workflow'.status = "ASSET_CONTROLLERS_RUNNING"
      /\ workflow'.rev = workflow.rev
  BY <1>3, <1>5 DEF ProductionInv, RowsOK, ProductionRows, ProductionStatus
<1>7. InFlight'
  BY <1>6 DEF InFlight, InFlightStatus
<1>8. assets' \in Seq(Drafts) /\ Len(assets') = n
  BY <1>4, <1>5, Appending DEF ProductionInv, RowsOK
<1>9. CurrentJob = Key("after-writer", n)
  BY CurrentJobs
<1>10. CurrentJob' = Key("after-asset-controllers", n)
  BY <1>6, <1>8, Zenon DEF CurrentJob
<1>11. /\ CurrentJob' \in JobKeys /\ Rank(CurrentJob) < Rank(CurrentJob')
       /\ Rank(CurrentJob) \in Nat /\ Rank(CurrentJob') \in Nat
  <2> HIDE DEF n
  <2>1. Rank(CurrentJob) = 2 * n
    BY <1>3, <1>9, KeyRanks, Zenon
  <2>2. Rank(CurrentJob') = 2 * n + 1 /\ CurrentJob' \in JobKeys
    BY <1>3, <1>10, KeyRanks, Zenon
  <2> QED
    BY <1>3, <2>1, <2>2
<1>12. JobsInOrder' /\ AttemptRuns' /\ OneAdvance'
  BY <1>5, <1>6, <1>7, <1>10, <1>11, CommitKeepsChain
<1>13. RowsOK'
  BY <1>5, <1>6, <1>8 DEF ProductionInv, RowsOK
<1>14. RevisionsCounted'
  BY <1>3, <1>5, <1>6, <1>7, <1>8 DEF ProductionInv, RevisionsCounted
<1> QED
  BY <1>12, <1>13, <1>14 DEF ProductionInv

\* What an outcome leads to: a revision, or rest.
LEMMA JudgedLeaves ==
  ASSUME NEW outcome \in {"BLOCK", "REVISE", "CONDITIONS", "PASS"}, RowsOK
  PROVE  LET adv == Judged(workflow, outcome) IN
         \/ /\ workflow.rev < MaxRounds
            /\ adv = ToWriter([workflow EXCEPT !.rev = @ + 1])
         \/ \E status \in {"BLOCKED", "ESCALATED", "READY_FOR_ACTION_PROPOSAL"} :
              \/ adv = Rest([workflow EXCEPT !.status = status])
              \/ adv = Rest([workflow EXCEPT !.status = status, !.final = Len(assets)])
<1>1. CASE outcome = "BLOCK"
  BY <1>1, Zenon DEF Judged
<1>2. CASE outcome \in {"REVISE", "CONDITIONS"}
  <2>1. Judged(workflow, outcome) = Revise(workflow)
    BY <1>2, Zenon DEF Judged
  <2>2. workflow.rev \in Nat /\ MaxRounds \in Nat
    BY ProductionAssumption DEF RowsOK, ProductionRows
  <2>3. CASE workflow.rev >= MaxRounds
    <3>1. Revise(workflow) = Rest([workflow EXCEPT !.status = "ESCALATED"])
      BY <2>3, Zenon DEF Revise
    <3> QED
      BY <2>1, <3>1, Zenon
  <2>4. CASE ~(workflow.rev >= MaxRounds)
    <3>1. Revise(workflow) = ToWriter([workflow EXCEPT !.rev = @ + 1])
      BY <2>4, Zenon DEF Revise
    <3>2. workflow.rev < MaxRounds
      BY <2>2, <2>4
    <3> QED
      BY <2>1, <3>1, <3>2, Zenon
  <2> QED
    BY <2>3, <2>4
<1>3. CASE outcome = "PASS"
  BY <1>3, Zenon DEF Judged
<1> QED
  BY <1>1, <1>2, <1>3

\* The outcome is one of four.
LEMMA Outcomes ==
  ASSUME NEW draft, NEW given
  PROVE  governed_asset_outcome(draft, given) \in {"BLOCK", "REVISE", "CONDITIONS", "PASS"}
  BY DEF governed_asset_outcome

\* A version is reviewed: it is revised, or the workflow comes to rest.
LEMMA CommitReviewed ==
  ASSUME ProductionInv, NEW w \in Workers, Commit(w),
         workflow.status = "ASSET_CONTROLLERS_RUNNING"
  PROVE  ProductionInv'
<1> DEFINE adv == _advance_production_workflow(workflow)
           verdicts == _materialize_asset_reviews
<1>1. PICK outcome \in {"BLOCK", "REVISE", "CONDITIONS", "PASS"} :
        adv = [Judged(workflow, outcome) EXCEPT !.review = <<verdicts>>]
  <2>1. adv = AfterControllers(workflow)
    BY Zenon DEF _advance_production_workflow
  <2> QED
    BY <2>1, Outcomes, Zenon DEF AfterControllers
<1>2. Len(assets) \in Nat /\ Len(reviews) \in Nat
  BY Appending DEF ProductionInv, RowsOK
<1>3. verdicts \in [DOMAIN Controllers -> Opinions]
  <2>1. Needed(workflow) = [i \in DOMAIN Controllers |-> Review(Controllers[i], Len(assets))]
    BY Zenon DEF Needed
  <2>2. \A i \in DOMAIN Controllers : Usable(Review(Controllers[i], Len(assets)))
    BY <2>1, CommitWrites DEF AllUsable
  <2>3. \A i \in DOMAIN Controllers : runs[Review(Controllers[i], Len(assets))] \in Opinions
    BY <1>2, <2>2, OutputTypes DEF Usable
  <2> QED
    BY <2>3 DEF _materialize_asset_reviews
<1> HIDE DEF adv, verdicts
<1>4. /\ reviews \o <<verdicts>> \in Seq([DOMAIN Controllers -> Opinions])
      /\ Len(reviews \o <<verdicts>>) = Len(reviews) + 1
      /\ assets \o << >> = assets
  BY <1>3, Appending DEF ProductionInv, RowsOK
<1>5. /\ workflow' = adv.row /\ assets' = assets \o adv.asset /\ reviews' = reviews \o adv.review
      /\ jobs' = [WithJobs(adv.jobs) EXCEPT ![tx[w].key] = [status |-> "SUCCEEDED", attempts |-> 0]]
      /\ tx' = [tx EXCEPT ![w] = NoTx] /\ tx[w].open /\ InFlight
  BY CommitWrites, Zenon DEF adv
<1>6. CurrentJob = Key("after-asset-controllers", Len(assets))
  BY CurrentJobs
<1>7. ASSUME workflow.rev < MaxRounds,
             Judged(workflow, outcome) = ToWriter([workflow EXCEPT !.rev = @ + 1])
      PROVE  ProductionInv'
  <2> DEFINE row == [[workflow EXCEPT !.rev = @ + 1] EXCEPT !.status = "PRODUCTION_RUNNING"]
             n == Len(assets) + 1
             K == {Key("after-writer", n)}
  <2>1. adv.row = row /\ adv.jobs = K /\ adv.asset = << >> /\ adv.review = <<verdicts>>
    BY <1>1, <1>7 DEF ToWriter, Writes, _next_asset_version_number
  <2>2. /\ row \in ProductionRows /\ row.status = "PRODUCTION_RUNNING"
        /\ row.rev = workflow.rev + 1 /\ workflow.rev \in Nat
    <3>1. workflow \in ProductionRows /\ workflow.rev \in Nat /\ workflow.rev + 1 \in Nat
      BY DEF ProductionInv, RowsOK, ProductionRows
    <3>2. PICK more : more = [workflow EXCEPT !.rev = @ + 1]
      OBVIOUS
    <3>3. more \in ProductionRows /\ more.rev = workflow.rev + 1
      BY <3>1, <3>2 DEF ProductionRows
    <3>4. row = [more EXCEPT !.status = "PRODUCTION_RUNNING"]
      BY <3>2
    <3> HIDE DEF row
    <3>5. /\ row \in ProductionRows /\ row.status = "PRODUCTION_RUNNING"
          /\ row.rev = more.rev
      BY <3>3, <3>4 DEF ProductionRows, ProductionStatus
    <3> QED
      BY <3>1, <3>3, <3>5
  <2> HIDE DEF row, K
  <2>3. /\ workflow' = row /\ assets' = assets /\ reviews' = reviews \o <<verdicts>>
        /\ jobs' = [WithJobs(K) EXCEPT ![tx[w].key] = [status |-> "SUCCEEDED", attempts |-> 0]]
    BY <1>4, <1>5, <2>1, Zenon
  <2>4. InFlight'
    BY <2>2, <2>3 DEF InFlight, InFlightStatus
  <2>5. CurrentJob' = Key("after-writer", n)
    BY <2>2, <2>3, Zenon DEF CurrentJob
  <2>6. n \in Nat /\ n = Len(assets) + 1
    BY <1>2
  <2> HIDE DEF n
  <2>7. Rank(CurrentJob) = 2 * Len(assets) + 1
    BY <1>2, <1>6, KeyRanks, Zenon
  <2>8. Rank(CurrentJob') = 2 * n /\ CurrentJob' \in JobKeys
    BY <2>5, <2>6, KeyRanks, Zenon
  <2>9. /\ Rank(CurrentJob) < Rank(CurrentJob')
        /\ Rank(CurrentJob) \in Nat /\ Rank(CurrentJob') \in Nat
    BY <1>2, <2>6, <2>7, <2>8
  <2>10. K = {CurrentJob'}
    BY <2>5 DEF K
  <2>11. JobsInOrder' /\ AttemptRuns' /\ OneAdvance'
    BY <1>5, <2>2, <2>3, <2>4, <2>8, <2>9, <2>10, CommitKeepsChain
  <2>12. RowsOK'
    BY <1>4, <2>2, <2>3 DEF ProductionInv, RowsOK
  <2>13. RevisionsCounted'
    BY <1>2, <1>4, <1>5, <1>7, <2>2, <2>3, <2>4, ProductionAssumption
       DEF ProductionInv, RevisionsCounted
  <2> QED
    BY <2>11, <2>12, <2>13 DEF ProductionInv
<1>8. ASSUME NEW status \in {"BLOCKED", "ESCALATED", "READY_FOR_ACTION_PROPOSAL"},
             NEW final \in {workflow.final, Len(assets)},
             Judged(workflow, outcome) = Rest([workflow EXCEPT !.status = status, !.final = final])
      PROVE  ProductionInv'
  <2> DEFINE row == [workflow EXCEPT !.status = status, !.final = final]
  <2>1. adv.row = row /\ adv.jobs = {} /\ adv.asset = << >> /\ adv.review = <<verdicts>>
    BY <1>1, <1>8 DEF Rest, Writes
  <2>2. row \in ProductionRows /\ row.status = status /\ row.rev = workflow.rev
    BY <1>2 DEF ProductionInv, RowsOK, ProductionRows, ProductionStatus
  <2> HIDE DEF row
  <2>3. /\ workflow' = row /\ assets' = assets /\ reviews' = reviews \o <<verdicts>>
        /\ jobs' = [WithJobs({}) EXCEPT ![tx[w].key] = [status |-> "SUCCEEDED", attempts |-> 0]]
    BY <1>4, <1>5, <2>1, Zenon
  <2>4. ~InFlight' /\ workflow'.status # "NONE"
    BY <2>2, <2>3 DEF InFlight, InFlightStatus
  <2>5. JobsInOrder' /\ AttemptRuns' /\ OneAdvance'
    BY <1>5, <2>3, <2>4, CommitKeepsChain
  <2>6. RowsOK'
    BY <1>4, <2>2, <2>3 DEF ProductionInv, RowsOK
  <2>7. RevisionsCounted'
    BY <1>2, <1>4, <1>5, <2>2, <2>3, <2>4 DEF ProductionInv, RevisionsCounted
  <2> QED
    BY <2>5, <2>6, <2>7 DEF ProductionInv
<1> QED
  BY <1>7, <1>8, JudgedLeaves DEF ProductionInv

-----------------------------------------------------------------------------
(* The jobs and the runs: what a row may say.                              *)

\* A job that can be taken again has an attempt left.
JobsTyped ==
  \A k \in DOMAIN jobs : /\ jobs[k] \in JobRows
                         /\ jobs[k].attempts <= MaxAttempts
                         /\ jobs[k].status = "QUEUED" => jobs[k].attempts < MaxAttempts

RunsTyped ==
  \A key \in DOMAIN runs : runs[key] \in Outputs(key) \cup {"pending", "unusable"}

\* A run that has ended keeps its result.
RunsKept ==
  \A key \in DOMAIN runs : /\ key \in DOMAIN runs'
                           /\ runs[key] # "pending" => runs'[key] = runs[key]

\* The runs after a step: only RunEnds gives a run a result, and a commit only
\* adds runs.
LEMMA RunsStep ==
  ASSUME ProductionInv, RunsTyped, [ProductionNext]_productionVars
  PROVE  RunsTyped' /\ RunsKept
<1>1. ASSUME NEW K, runs' = WithRuns(K)
      PROVE  RunsTyped' /\ RunsKept
  BY <1>1 DEF RunsTyped, RunsKept, WithRuns
<1>2. ASSUME NEW key \in DOMAIN runs, RunStep(key)
      PROVE  RunsTyped' /\ RunsKept
  <2>1. PICK result \in Outputs(key) \cup {"unusable"} : RunEnds(key, result)
    BY <1>2 DEF RunStep
  <2> QED
    BY <2>1 DEF RunEnds, RunsTyped, RunsKept
<1>3. ASSUME runs' = runs
      PROVE  RunsTyped' /\ RunsKept
  BY <1>3 DEF RunsTyped, RunsKept
<1>4. ASSUME NEW w \in Workers, Commit(w)
      PROVE  RunsTyped' /\ RunsKept
  <2>1. \E K : runs' = WithRuns(K)
    BY <1>4, Zenon DEF Commit
  <2> QED
    BY <1>1, <2>1
<1>5. CASE Owner
  BY <1>3, <1>5 DEF Owner, start_production_workflow, persist_decision, approve_decision_for_production
<1>6. ASSUME NEW w \in Workers, NEW k \in DOMAIN jobs, Begin(w, k)
      PROVE  RunsTyped' /\ RunsKept
  BY <1>3, <1>6 DEF Begin
<1>7. ASSUME NEW w \in Workers, Waits(w) \/ Raises(w) \/ Crash(w)
      PROVE  RunsTyped' /\ RunsKept
  BY <1>3, <1>7, Zenon DEF Waits, Raises, Crash, RollsBack
<1>8. CASE UNCHANGED productionVars
  BY <1>3, <1>8 DEF productionVars
<1> QED
  BY <1>2, <1>4, <1>5, <1>6, <1>7, <1>8 DEF ProductionNext, WorkerStep

\* A job is queued again only while it has attempts left, and each attempt is
\* counted when it begins.
LEMMA JobsTypedStep ==
  ASSUME ProductionInv, JobsTyped, [ProductionNext]_productionVars
  PROVE  JobsTyped'
<1> USE ProductionAssumption
<1>1. CASE start_production_workflow
  BY <1>1 DEF start_production_workflow, WithJobs, NewJob, JobsTyped, JobRows
<1>2. ASSUME jobs' = jobs
      PROVE  JobsTyped'
  BY <1>2 DEF JobsTyped
<1>3. CASE persist_decision \/ approve_decision_for_production
  BY <1>2, <1>3 DEF persist_decision, approve_decision_for_production
<1>4. ASSUME NEW key \in DOMAIN runs, RunStep(key)
      PROVE  JobsTyped'
  BY <1>2, <1>4 DEF RunStep, RunEnds
<1>5. ASSUME NEW w \in Workers, NEW k \in DOMAIN jobs, Begin(w, k)
      PROVE  JobsTyped'
  BY <1>5 DEF Begin, JobsTyped, JobRows
<1>6. ASSUME NEW w \in Workers, Commit(w)
      PROVE  JobsTyped'
  <2>1. PICK K : jobs' = [WithJobs(K) EXCEPT ![tx[w].key] = [status |-> "SUCCEEDED", attempts |-> 0]]
    BY <1>6, Zenon DEF Commit
  <2> QED
    BY <2>1 DEF WithJobs, NewJob, JobsTyped, JobRows
<1>7. ASSUME NEW w \in Workers, Waits(w) \/ Raises(w) \/ Crash(w)
      PROVE  JobsTyped'
  <2>1. tx[w].key \in DOMAIN jobs
    BY <1>7 DEF Waits, Raises, Crash, ProductionInv, AttemptRuns
  <2>2. PICK status \in {"QUEUED", "FAILED"} :
          /\ RollsBack(w, status)
          /\ status = "QUEUED" => jobs[tx[w].key].attempts < MaxAttempts
    <3>1. /\ Retried(tx[w].key) \in {"QUEUED", "FAILED"}
          /\ Retried(tx[w].key) = "QUEUED" => jobs[tx[w].key].attempts < MaxAttempts
      BY DEF Retried
    <3>2. "FAILED" # "QUEUED"
      OBVIOUS
    <3> QED
      BY <1>7, <3>1, <3>2, Zenon DEF Waits, Raises, Crash
  <2> QED
    BY <2>1, <2>2 DEF RollsBack, JobsTyped, JobRows
<1>8. CASE UNCHANGED productionVars
  BY <1>2, <1>8 DEF productionVars
<1> QED
  BY <1>1, <1>3, <1>4, <1>5, <1>6, <1>7, <1>8 DEF ProductionNext, Owner, WorkerStep

-----------------------------------------------------------------------------
(* What is handed on is what was reviewed.                                 *)

\* From the brief on, a workflow has one.
HasBrief ==
  workflow.status \in {"PRODUCTION_RUNNING", "ASSET_CONTROLLERS_RUNNING",
                       "READY_FOR_ACTION_PROPOSAL"} => workflow.brief = TRUE

\* A draft is accepted only if it is clean and nobody objects.
LEMMA PassIsUnanimous ==
  ASSUME NEW draft \in Drafts, NEW verdicts \in [DOMAIN Controllers -> Opinions],
         governed_asset_outcome(draft, {verdicts[i] : i \in DOMAIN Controllers}) = "PASS"
  PROVE  draft = "clean" /\ \A i \in DOMAIN Controllers : verdicts[i] = "PASS"
<1> DEFINE given == {verdicts[i] : i \in DOMAIN Controllers}
<1>1. /\ draft \notin {"harmful", "unsupported", "unlicensed"}
      /\ "BLOCK" \notin given /\ "REVISE" \notin given /\ "CONDITIONS" \notin given
  <2> HIDE DEF given
  <2>1. governed_asset_outcome(draft, given) = "PASS"
    BY DEF given
  <2> QED
    BY <2>1 DEF governed_asset_outcome
<1>2. ASSUME NEW i \in DOMAIN Controllers
      PROVE  verdicts[i] = "PASS"
  <2>1. verdicts[i] \in given
    OBVIOUS
  <2>2. verdicts[i] \in AssetVerdicts
    BY ProductionAssumption
  <2> HIDE DEF given
  <2> QED
    BY <1>1, <2>1, <2>2 DEF AssetVerdicts
<1>3. draft \in DraftKinds
  BY ProductionAssumption
<1> QED
  BY <1>1, <1>2, <1>3 DEF DraftKinds

\* The row that an outcome leads to.
LEMMA JudgedRow ==
  ASSUME NEW outcome \in {"BLOCK", "REVISE", "CONDITIONS", "PASS"}, RowsOK
  PROVE  /\ Judged(workflow, outcome).asset = << >>
         /\ Judged(workflow, outcome).row.brief = workflow.brief
         /\ Judged(workflow, outcome).row.status = "READY_FOR_ACTION_PROPOSAL" =>
              outcome = "PASS" /\ Judged(workflow, outcome).row.final = Len(assets)
<1> USE DEF RowsOK, ProductionRows
<1>1. CASE outcome = "BLOCK"
  <2>1. Judged(workflow, outcome) = Rest([workflow EXCEPT !.status = "BLOCKED"])
    BY <1>1, Zenon DEF Judged
  <2> QED
    BY <2>1 DEF Rest, Writes
<1>2. CASE outcome \in {"REVISE", "CONDITIONS"}
  <2>1. Judged(workflow, outcome) = Revise(workflow)
    BY <1>2, Zenon DEF Judged
  <2>2. /\ Revise(workflow).asset = << >>
        /\ Revise(workflow).row.brief = workflow.brief
        /\ Revise(workflow).row.status # "READY_FOR_ACTION_PROPOSAL"
    BY DEF Revise, Rest, ToWriter, Writes
  <2> QED
    BY <2>1, <2>2, Zenon
<1>3. CASE outcome = "PASS"
  <2>1. Judged(workflow, outcome)
          = Rest([workflow EXCEPT !.status = "READY_FOR_ACTION_PROPOSAL", !.final = Len(assets)])
    BY <1>3, Zenon DEF Judged
  <2>2. PICK row :
          row = [workflow EXCEPT !.status = "READY_FOR_ACTION_PROPOSAL", !.final = Len(assets)]
    OBVIOUS
  <2>3. row.brief = workflow.brief /\ row.final = Len(assets)
    BY <2>2
  <2>4. Judged(workflow, outcome) = Rest(row)
    BY <2>1, <2>2, Zenon
  <2>5. Rest(row).asset = << >> /\ Rest(row).row = row
    BY DEF Rest, Writes
  <2> QED
    BY <1>3, <2>3, <2>4, <2>5, Zenon
<1> QED
  BY <1>1, <1>2, <1>3

\* Each version, and each review, is what the run for it gave.
VersionsFromRuns ==
  \A v \in 1..Len(assets) :
    <<"asset", v>> \in DOMAIN runs /\ assets[v] = runs[<<"asset", v>>]

ReviewsFromRuns ==
  \A v \in 1..Len(reviews) : \A i \in DOMAIN Controllers :
    /\ <<Controllers[i], v>> \in DOMAIN runs
    /\ reviews[v][i] = runs[<<Controllers[i], v>>]

\* What a ready workflow hands on.
ReadyClear ==
  workflow.status = "READY_FOR_ACTION_PROPOSAL" =>
    /\ workflow.brief
    /\ workflow.final = Len(assets) /\ workflow.final = Len(reviews)
    /\ assets[workflow.final] = "clean"
    /\ \A i \in DOMAIN Controllers : reviews[workflow.final][i] = "PASS"

\* No version and no verdict reads like a run that has not ended.
LEMMA Ended ==
  ASSUME ProductionInv
  PROVE  /\ \A v \in 1..Len(assets) : assets[v] # "pending"
         /\ \A v \in 1..Len(reviews) : \A i \in DOMAIN Controllers : reviews[v][i] # "pending"
<1>1. "pending" \notin Drafts /\ "pending" \notin Opinions
  BY ProductionAssumption DEF DraftKinds, AssetVerdicts
<1>2. /\ \A v \in 1..Len(assets) : assets[v] \in Drafts
      /\ \A v \in 1..Len(reviews) : reviews[v] \in [DOMAIN Controllers -> Opinions]
  BY DEF ProductionInv, RowsOK
<1> QED
  BY <1>1, <1>2

\* The places of a sequence to which one element was added.
LEMMA Extending ==
  ASSUME NEW S, NEW s \in Seq(S), NEW x \in S
  PROVE  \A v \in 1..Len(s \o <<x>>) : \/ v \in 1..Len(s) /\ (s \o <<x>>)[v] = s[v]
                                       \/ v = Len(s) + 1 /\ (s \o <<x>>)[v] = x
<1>1. PICK m \in Nat : m = Len(s) /\ Len(s \o <<x>>) = m + 1
  OBVIOUS
<1>2. \A v \in 1..(m + 1) : v \in 1..m \/ v = m + 1
  OBVIOUS
<1> QED
  BY <1>1, <1>2

\* What was produced stays what its run gave, and what is added is, too.
LEMMA VersionsKept ==
  ASSUME ProductionInv, RunsKept, VersionsFromRuns, assets' = assets
  PROVE  VersionsFromRuns'
  BY Ended DEF RunsKept, VersionsFromRuns

LEMMA ReviewsKept ==
  ASSUME ProductionInv, RunsKept, ReviewsFromRuns, reviews' = reviews
  PROVE  ReviewsFromRuns'
  BY Ended DEF RunsKept, ReviewsFromRuns

LEMMA VersionAdded ==
  ASSUME ProductionInv, RunsKept, VersionsFromRuns,
         NEW draft \in Drafts, assets' = assets \o <<draft>>,
         <<"asset", Len(assets) + 1>> \in DOMAIN runs, draft = runs[<<"asset", Len(assets) + 1>>]
  PROVE  VersionsFromRuns'
<1>1. assets \in Seq(Drafts) /\ draft # "pending"
  BY ProductionAssumption DEF ProductionInv, RowsOK, DraftKinds
<1>2. \A v \in 1..Len(assets') : \/ v \in 1..Len(assets) /\ assets'[v] = assets[v]
                                 \/ v = Len(assets) + 1 /\ assets'[v] = draft
  BY <1>1, Extending
<1> QED
  BY <1>1, <1>2, Ended DEF RunsKept, VersionsFromRuns

LEMMA ReviewAdded ==
  ASSUME ProductionInv, RunsKept, ReviewsFromRuns,
         NEW verdicts \in [DOMAIN Controllers -> Opinions], reviews' = reviews \o <<verdicts>>,
         \A i \in DOMAIN Controllers :
           /\ <<Controllers[i], Len(reviews) + 1>> \in DOMAIN runs
           /\ verdicts[i] = runs[<<Controllers[i], Len(reviews) + 1>>]
  PROVE  ReviewsFromRuns'
<1>1. PICK V : V = [DOMAIN Controllers -> Opinions]
  OBVIOUS
<1>2. reviews \in Seq(V) /\ verdicts \in V
  BY <1>1 DEF ProductionInv, RowsOK
<1>3. \A i \in DOMAIN Controllers : verdicts[i] # "pending"
  BY ProductionAssumption DEF AssetVerdicts
<1>4. \A v \in 1..Len(reviews') : \/ v \in 1..Len(reviews) /\ reviews'[v] = reviews[v]
                                  \/ v = Len(reviews) + 1 /\ reviews'[v] = verdicts
  BY <1>2, Extending
<1> QED
  BY <1>3, <1>4, Ended DEF RunsKept, ReviewsFromRuns

\* A step that leaves the workflow and what it has produced.
LEMMA SameReviewed ==
  ASSUME ProductionInv, RunsKept, VersionsFromRuns, ReviewsFromRuns, HasBrief, ReadyClear,
         UNCHANGED <<workflow, assets, reviews>>
  PROVE  VersionsFromRuns' /\ ReviewsFromRuns' /\ HasBrief' /\ ReadyClear'
  BY VersionsKept, ReviewsKept DEF HasBrief, ReadyClear

\* A commit before there is a version.
LEMMA EarlyCommitReviewed ==
  ASSUME ProductionInv, RunsKept, VersionsFromRuns, ReviewsFromRuns, NEW w \in Workers, Commit(w),
         workflow.status \in {"DECISION_APPROVAL_VERIFIED", "CONTENT_STRATEGY_RUNNING"}
  PROVE  VersionsFromRuns' /\ ReviewsFromRuns' /\ HasBrief' /\ ReadyClear'
<1> DEFINE adv == _advance_production_workflow(workflow)
<1>1. workflow \in ProductionRows
  BY DEF ProductionInv, RowsOK
<1>2. /\ adv.asset = << >> /\ adv.review = << >>
      /\ \/ adv.row.status = "CONTENT_STRATEGY_RUNNING"
         \/ adv.row.status = "PRODUCTION_RUNNING" /\ adv.row.brief = TRUE
  <2>1. CASE workflow.status = "DECISION_APPROVAL_VERIFIED"
    <3>1. adv = Writes([workflow EXCEPT !.status = "CONTENT_STRATEGY_RUNNING"], {ContentStrategy},
                       {Key("after-content-strategy", 0)})
      BY <2>1, Zenon DEF _advance_production_workflow
    <3> QED
      BY <1>1, <3>1 DEF Writes, ProductionRows
  <2>2. CASE workflow.status = "CONTENT_STRATEGY_RUNNING"
    <3>1. adv = ToWriter([workflow EXCEPT !.brief = TRUE])
      BY <2>2, Zenon DEF _advance_production_workflow
    <3>2. PICK row : row = [[workflow EXCEPT !.brief = TRUE] EXCEPT !.status = "PRODUCTION_RUNNING"]
      OBVIOUS
    <3>3. row.status = "PRODUCTION_RUNNING" /\ row.brief = TRUE
      BY <1>1, <3>2 DEF ProductionRows
    <3>4. adv.row = row /\ adv.asset = << >> /\ adv.review = << >>
      BY <3>1, <3>2 DEF ToWriter, Writes
    <3> QED
      BY <3>3, <3>4, Zenon
  <2> QED
    BY <2>1, <2>2
<1>3. workflow' = adv.row /\ assets' = assets \o adv.asset /\ reviews' = reviews \o adv.review
  BY CommitWrites
<1> HIDE DEF adv
<1>4. assets' = assets /\ reviews' = reviews
  BY <1>2, <1>3, Appending DEF ProductionInv, RowsOK
<1>5. VersionsFromRuns' /\ ReviewsFromRuns'
  BY <1>4, VersionsKept, ReviewsKept
<1>6. \/ workflow'.status = "CONTENT_STRATEGY_RUNNING"
      \/ workflow'.status = "PRODUCTION_RUNNING" /\ workflow'.brief = TRUE
  BY <1>2, <1>3, Zenon
<1> QED
  BY <1>5, <1>6 DEF HasBrief, ReadyClear

\* A commit of a version.
LEMMA DraftCommitReviewed ==
  ASSUME ProductionInv, RunsKept, VersionsFromRuns, ReviewsFromRuns, HasBrief,
         NEW w \in Workers, Commit(w),
         workflow.status = "PRODUCTION_RUNNING"
  PROVE  VersionsFromRuns' /\ ReviewsFromRuns' /\ HasBrief' /\ ReadyClear'
<1> DEFINE adv == _advance_production_workflow(workflow)
           n == Len(assets) + 1
<1>1. /\ workflow \in ProductionRows /\ assets \in Seq(Drafts)
      /\ n \in Nat
  BY Appending DEF ProductionInv, RowsOK
<1>2. adv = ToControllers(workflow)
  BY Zenon DEF _advance_production_workflow
<1>3. PICK row : row = [workflow EXCEPT !.status = "ASSET_CONTROLLERS_RUNNING", !.final = n]
  OBVIOUS
<1>4. row.status = "ASSET_CONTROLLERS_RUNNING" /\ row.brief = workflow.brief
  BY <1>1, <1>3 DEF ProductionRows
<1>5. PICK draft : draft = runs[Asset(n)]
  OBVIOUS
<1>6. adv.row = row /\ adv.asset = <<draft>> /\ adv.review = << >>
  BY <1>2, <1>3, <1>5 DEF ToControllers, Writes, _next_asset_version_number
<1>7. workflow' = adv.row /\ assets' = assets \o adv.asset /\ reviews' = reviews \o adv.review
  BY CommitWrites
<1>8. draft \in Drafts /\ Asset(n) \in DOMAIN runs
  <2>1. Needed(workflow) = <<Asset(n)>>
    BY Zenon DEF Needed, _next_asset_version_number
  <2>2. Usable(Asset(n))
    BY <2>1, CommitWrites DEF AllUsable
  <2> QED
    BY <1>1, <1>5, <2>2, OutputTypes DEF Usable
<1>9. Asset(n) = <<"asset", Len(assets) + 1>>
  BY DEF Asset
<1> HIDE DEF adv
<1>10. assets' = assets \o <<draft>> /\ reviews' = reviews
  <2>1. reviews \o << >> = reviews
    BY Appending DEF ProductionInv, RowsOK
  <2> QED
    BY <1>6, <1>7, <2>1
<1>11. VersionsFromRuns' /\ ReviewsFromRuns'
  BY <1>5, <1>8, <1>9, <1>10, VersionAdded, ReviewsKept
<1>12. workflow'.status = "ASSET_CONTROLLERS_RUNNING" /\ workflow'.brief = TRUE
  <2>1. workflow.brief = TRUE
    BY DEF HasBrief
  <2> QED
    BY <1>4, <1>6, <1>7, <2>1, Zenon
<1> QED
  BY <1>11, <1>12 DEF HasBrief, ReadyClear

\* A commit of the reviews of a version.
LEMMA ReviewCommitReviewed ==
  ASSUME ProductionInv, ProductionInv', RunsKept, VersionsFromRuns, ReviewsFromRuns, HasBrief,
         NEW w \in Workers, Commit(w),
         workflow.status = "ASSET_CONTROLLERS_RUNNING"
  PROVE  VersionsFromRuns' /\ ReviewsFromRuns' /\ HasBrief' /\ ReadyClear'
<1> DEFINE adv == _advance_production_workflow(workflow)
           n == Len(assets)
<1>1. PICK verdicts : verdicts = _materialize_asset_reviews
  OBVIOUS
<1>2. PICK outcome :
        /\ outcome = governed_asset_outcome(assets[n], {verdicts[i] : i \in DOMAIN Controllers})
        /\ outcome \in {"BLOCK", "REVISE", "CONDITIONS", "PASS"}
  BY Outcomes
<1>3. adv = [Judged(workflow, outcome) EXCEPT !.review = <<verdicts>>]
  <2>1. adv = AfterControllers(workflow)
    BY Zenon DEF _advance_production_workflow
  <2> QED
    BY <1>1, <1>2, <2>1, Zenon DEF AfterControllers
<1>4. /\ n \in Nat /\ Len(reviews) \in Nat /\ n = Len(reviews) + 1 /\ RowsOK
      /\ assets \in Seq(Drafts) /\ reviews \in Seq([DOMAIN Controllers -> Opinions])
  BY Appending DEF ProductionInv, RowsOK, RevisionsCounted
<1>5. /\ verdicts \in [DOMAIN Controllers -> Opinions]
      /\ \A i \in DOMAIN Controllers :
           <<Controllers[i], n>> \in DOMAIN runs /\ verdicts[i] = runs[<<Controllers[i], n>>]
  <2>1. Needed(workflow) = [i \in DOMAIN Controllers |-> Review(Controllers[i], Len(assets))]
    BY Zenon DEF Needed
  <2>2. \A i \in DOMAIN Controllers : Usable(Review(Controllers[i], Len(assets)))
    BY <2>1, CommitWrites DEF AllUsable
  <2>3. \A i \in DOMAIN Controllers : /\ runs[Review(Controllers[i], n)] \in Opinions
                                      /\ Review(Controllers[i], n) \in DOMAIN runs
    BY <1>4, <2>2, OutputTypes DEF Usable
  <2> QED
    BY <1>1, <2>3 DEF _materialize_asset_reviews, Review
<1>6. /\ Judged(workflow, outcome).asset = << >>
      /\ Judged(workflow, outcome).row.brief = workflow.brief
      /\ Judged(workflow, outcome).row.status = "READY_FOR_ACTION_PROPOSAL" =>
           outcome = "PASS" /\ Judged(workflow, outcome).row.final = Len(assets)
  BY <1>2, <1>4, JudgedRow
<1>7. /\ adv.asset = Judged(workflow, outcome).asset /\ adv.review = <<verdicts>>
      /\ adv.row = Judged(workflow, outcome).row
  <2>1. \E r : \/ Judged(workflow, outcome) = Rest(r)
               \/ Judged(workflow, outcome) = ToWriter(r)
    BY <1>2, <1>4, JudgedLeaves, Zenon
  <2> QED
    BY <1>3, <2>1 DEF Rest, ToWriter, Writes
<1>8. workflow' = adv.row /\ assets' = assets \o adv.asset /\ reviews' = reviews \o adv.review
  BY CommitWrites
<1> HIDE DEF adv, n
<1>9. /\ workflow'.brief = workflow.brief
      /\ assets' = assets /\ reviews' = reviews \o <<verdicts>>
      /\ workflow'.status = "READY_FOR_ACTION_PROPOSAL" => outcome = "PASS" /\ workflow'.final = n
  <2>1. assets \o << >> = assets
    BY <1>4, Appending
  <2> QED
    BY <1>6, <1>7, <1>8, <2>1, Zenon DEF n
<1>10. PICK V : V = [DOMAIN Controllers -> Opinions]
  OBVIOUS
<1>11. Len(reviews') = n /\ reviews'[n] = verdicts
  <2>1. verdicts \in V /\ reviews \in Seq(V)
    BY <1>4, <1>5, <1>10
  <2> QED
    BY <1>4, <1>9, <2>1
<1>12. VersionsFromRuns' /\ ReviewsFromRuns'
  <2>1. \A i \in DOMAIN Controllers :
          /\ <<Controllers[i], Len(reviews) + 1>> \in DOMAIN runs
          /\ verdicts[i] = runs[<<Controllers[i], Len(reviews) + 1>>]
    BY <1>4, <1>5
  <2> QED
    BY <1>5, <1>9, <2>1, VersionsKept, ReviewAdded
<1>13. HasBrief' /\ workflow'.brief = TRUE
  BY <1>9, Zenon DEF HasBrief
<1>14. ASSUME workflow'.status = "READY_FOR_ACTION_PROPOSAL"
       PROVE  ReadyClear'
  <2>1. outcome = "PASS" /\ workflow'.final = n
    BY <1>9, <1>14
  <2>2. assets[n] \in Drafts
    BY <1>4 DEF n
  <2>3. assets[n] = "clean" /\ \A i \in DOMAIN Controllers : verdicts[i] = "PASS"
    BY <1>2, <1>5, <2>1, <2>2, PassIsUnanimous
  <2>4. n = Len(assets')
    BY <1>9 DEF n
  <2> QED
    BY <1>9, <1>11, <1>13, <2>1, <2>3, <2>4 DEF ReadyClear
<1> QED
  BY <1>12, <1>13, <1>14 DEF ReadyClear

\* Every step keeps what is reviewed and where it is from.
LEMMA ReviewedStep ==
  ASSUME ProductionInv, ProductionInv', RunsKept, VersionsFromRuns, ReviewsFromRuns, HasBrief, ReadyClear,
         [ProductionNext]_productionVars
  PROVE  VersionsFromRuns' /\ ReviewsFromRuns' /\ HasBrief' /\ ReadyClear'
<1>1. CASE start_production_workflow
  <2>1. UNCHANGED <<assets, reviews>> /\ workflow'.status = "DECISION_APPROVAL_VERIFIED"
    BY <1>1 DEF start_production_workflow, ProductionInv, RowsOK, ProductionRows
  <2>2. VersionsFromRuns' /\ ReviewsFromRuns'
    BY <2>1, VersionsKept, ReviewsKept
  <2> QED
    BY <2>1, <2>2 DEF HasBrief, ReadyClear
<1>2. ASSUME NEW w \in Workers, Commit(w)
      PROVE  VersionsFromRuns' /\ ReviewsFromRuns' /\ HasBrief' /\ ReadyClear'
  <2>1. workflow.status \in InFlightStatus
    BY <1>2, CommitWrites DEF InFlight
  <2> QED
    BY <1>2, <2>1, EarlyCommitReviewed, DraftCommitReviewed, ReviewCommitReviewed DEF InFlightStatus
<1>3. CASE UNCHANGED <<workflow, assets, reviews>>
  BY <1>3, SameReviewed
<1>4. \/ start_production_workflow
      \/ \E w \in Workers : Commit(w)
      \/ UNCHANGED <<workflow, assets, reviews>>
  BY DEF ProductionNext, Owner, persist_decision, approve_decision_for_production, RunStep, RunEnds,
         WorkerStep, Begin, Waits, Raises, Crash, RollsBack, productionVars
<1> QED
  BY <1>1, <1>2, <1>3, <1>4

-----------------------------------------------------------------------------
(* The theorems.                                                           *)

\* Every step preserves the invariant.
LEMMA ProductionStep ==
  ASSUME ProductionInv, [ProductionNext]_productionVars
  PROVE  ProductionInv'
<1>1. CASE start_production_workflow
  BY <1>1, StartKeepsInv
<1>2. CASE persist_decision \/ approve_decision_for_production
  BY <1>2, OthersKeepInv DEF persist_decision, approve_decision_for_production
<1>3. ASSUME NEW key \in DOMAIN runs, RunStep(key)
      PROVE  ProductionInv'
  BY <1>3, OthersKeepInv DEF RunStep, RunEnds
<1>4. ASSUME NEW w \in Workers, NEW k \in DOMAIN jobs, Begin(w, k)
      PROVE  ProductionInv'
  BY <1>4, BeginKeepsInv
<1>5. ASSUME NEW w \in Workers, Commit(w)
      PROVE  ProductionInv'
  <2>1. workflow.status \in InFlightStatus
    BY <1>5, CommitWrites DEF InFlight
  <2> QED
    BY <1>5, <2>1, CommitVerified, CommitStrategy, CommitDraft, CommitReviewed DEF InFlightStatus
<1>6. ASSUME NEW w \in Workers, Waits(w) \/ Raises(w) \/ Crash(w)
      PROVE  ProductionInv'
  <2>1. Retried(tx[w].key) \in {"QUEUED", "FAILED"}
    BY DEF Retried
  <2>2. \E status \in {"QUEUED", "FAILED"} : RollsBack(w, status)
    BY <1>6, <2>1, Zenon DEF Waits, Raises, Crash
  <2> QED
    BY <2>2, RollbackKeepsInv
<1>7. CASE UNCHANGED productionVars
  BY <1>7, OthersKeepInv DEF productionVars
<1> QED
  BY <1>1, <1>2, <1>3, <1>4, <1>5, <1>6, <1>7 DEF ProductionNext, Owner, WorkerStep

\* The invariant holds in every behaviour.
LEMMA ProductionInvariant == ProductionSpec => []ProductionInv
  BY ProductionInitInv, ProductionStep, PTL DEF ProductionSpec

\* The advances of a workflow never overlap, and none is lost: an unfinished
\* workflow has exactly one advance job that can move it on, unless that failed
\* (_enqueue_advance and its idempotency keys).
THEOREM AdvancesFormAChain == ProductionSpec => []OneAdvance
<1>1. ProductionInv => OneAdvance
  BY DEF ProductionInv
<1> QED
  BY <1>1, ProductionInvariant, PTL

\* Rounds, versions and reviews agree, and there are at most max_revision_rounds
\* of them (the revision branch of _advance_production_workflow).
THEOREM RevisionsAreCounted == ProductionSpec => []RevisionsCounted
<1>1. ProductionInv => RevisionsCounted
  BY DEF ProductionInv
<1> QED
  BY <1>1, ProductionInvariant, PTL

\* Nothing is produced for a decision with a stored successor but by a
\* transaction that had begun before (_assert_decision_binding).
THEOREM SupersededProducesNothing == ProductionSpec => SupersededStops
<1> DEFINE Quiet == successor # "NONE" /\ (\A w \in Workers : tx[w].open => tx[w].late)
                      => UNCHANGED <<workflow, assets, reviews>>
<1>1. ASSUME ProductionInv, [ProductionNext]_productionVars
      PROVE  [Quiet]_productionVars
  <2> SUFFICES ASSUME ProductionNext, successor # "NONE", \A w \in Workers : tx[w].open => tx[w].late
               PROVE  UNCHANGED <<workflow, assets, reviews>>
    BY <1>1 DEF productionVars
  <2>1. \A w \in Workers : ~Commit(w)
    BY <1>1 DEF Commit, ProductionInv, AttemptRuns
  <2>2. ~start_production_workflow
    BY DEF start_production_workflow
  <2> QED
    BY <2>1, <2>2 DEF ProductionNext, Owner, persist_decision, approve_decision_for_production, RunStep,
                      RunEnds, WorkerStep, Begin, Waits, Raises, Crash, RollsBack
<1> QED
  BY <1>1, ProductionInvariant, PTL DEF ProductionSpec, SupersededStops

\* Every row has its type: a job is never tried more often than max_attempts
\* allows, and a run holds nothing but an output of its own contract
\* (mark_job_failed_or_retrying, create_agent_run, _validated_output).
THEOREM ProductionTypes == ProductionSpec => []ProductionTypeOK
<1> DEFINE SuccessorTyped == successor \in {"NONE", "STORED", "APPROVED"}
<1>1. ProductionInit => JobsTyped /\ RunsTyped /\ SuccessorTyped
  <2> SUFFICES ASSUME ProductionInit PROVE JobsTyped /\ RunsTyped /\ SuccessorTyped
    OBVIOUS
  <2>1. DOMAIN jobs = {} /\ DOMAIN runs = {}
    BY DEF ProductionInit
  <2>2. SuccessorTyped
    BY DEF ProductionInit
  <2> QED
    BY <2>1, <2>2 DEF JobsTyped, RunsTyped
<1>2. ASSUME SuccessorTyped, [ProductionNext]_productionVars
      PROVE  SuccessorTyped'
  BY <1>2 DEF ProductionNext, Owner, start_production_workflow, persist_decision,
              approve_decision_for_production, RunStep, RunEnds, WorkerStep, Begin, Commit, Waits, Raises, Crash, RollsBack, productionVars
<1>3. ASSUME ProductionInv, JobsTyped, RunsTyped, SuccessorTyped
      PROVE  ProductionTypeOK
  <2>1. /\ \A v \in 1..Len(assets) : assets[v] \in Drafts
        /\ \A v \in 1..Len(reviews) : reviews[v] \in [DOMAIN Controllers -> Opinions]
    BY <1>3 DEF ProductionInv, RowsOK
  <2>2. \A v \in 1..Len(reviews) : \A i \in DOMAIN Controllers : reviews[v][i] \in Opinions
    BY <2>1
  <2> QED
    BY <1>3, <2>1, <2>2
       DEF ProductionTypeOK, ProductionInv, RowsOK, JobsInOrder, JobsTyped, RunsTyped
<1> HIDE DEF SuccessorTyped
<1> QED
  BY <1>1, <1>2, <1>3, ProductionInvariant, JobsTypedStep, RunsStep, PTL DEF ProductionSpec

\* What a workflow hands on to the action proposal is its latest version, clean,
\* and reviewed by every required controller without an objection; each version
\* and each review is the one its own run gave (_materialize_asset_version,
\* _materialize_asset_reviews, governed_asset_outcome).
THEOREM ReadyWasReviewed == ProductionSpec => []ReadyIsReviewed
<1>1. ProductionInit => RunsTyped /\ VersionsFromRuns /\ ReviewsFromRuns /\ HasBrief /\ ReadyClear
  BY DEF ProductionInit, RunsTyped, VersionsFromRuns, ReviewsFromRuns, HasBrief, ReadyClear
<1>2. VersionsFromRuns /\ ReviewsFromRuns /\ ReadyClear => ReadyIsReviewed
  BY DEF VersionsFromRuns, ReviewsFromRuns, ReadyClear, ReadyIsReviewed
<1> QED
  BY <1>1, <1>2, ProductionInvariant, RunsStep, ReviewedStep, PTL DEF ProductionSpec
=============================================================================
