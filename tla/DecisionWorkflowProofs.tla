----------------------- MODULE DecisionWorkflowProofs -----------------------
(***************************************************************************)
(* Proofs about DecisionWorkflow, for any workers, roles and controllers,  *)
(* any limits and any number of crashes, orphaned runs and resumptions.    *)
(***************************************************************************)
EXTENDS DecisionWorkflow, SequenceTheorems, FiniteSetTheorems, WellFoundedInduction, TLAPS

\* What a plan made from the row may do: it never takes back a decision or a
\* revision, decides only where there is no decision yet, and leaves a row that
\* is at rest as it is.
GoodPlan(row, plan) ==
  /\ plan.row \in WorkflowRows
  /\ plan.row.status # "NONE"
  /\ plan.row.final = row.final
  /\ plan.row.rev >= row.rev
  /\ \/ plan.decision = << >>
     \/ plan.decision = <<plan.decision[1]>> /\ row.final = 0 /\ row.status \in RunningStatus
  /\ row.status \notin RunningStatus => plan.row = row

\* The loaded row is the row, but for an approval that came in between.
FreshRow(seen) ==
  \/ seen = workflow
  \/ seen.status = "AWAITING_DECISION_APPROVAL" /\ seen.final = workflow.final

\* Why there is one decision: while advances do not overlap, the open one has
\* read the row that is still there, and the row counts the decisions.
DecisionInv ==
  /\ workflow \in WorkflowRows
  /\ DOMAIN tx = Workers
  /\ workflow.status = "NONE" => DOMAIN jobs = {} /\ \A w \in Workers : ~tx[w].open
  /\ \A w \in Workers : tx[w].open =>
       /\ tx[w].seen \in WorkflowRows
       /\ GoodPlan(tx[w].seen, tx[w].plan)
  /\ overlapped \/
       /\ \A v, w \in Workers : tx[v].open /\ tx[w].open => v = w
       /\ \A w \in Workers : tx[w].open => FreshRow(tx[w].seen)
       /\ \/ decisions = << >> /\ workflow.final = 0
          \/ decisions = <<decisions[1]>> /\ workflow.final = 1

\* The parts of a plan that the proofs use, whichever roles and job it has.
LEMMA PlanParts ==
  ASSUME NEW row, NEW roles, NEW key
  PROVE  /\ Plan(row, roles, key).row = row
         /\ Plan(row, roles, key).decision = << >>
BY DEF Plan

\* A plan that stops inserts nothing and keeps the row it is given.
LEMMA StopParts ==
  ASSUME NEW row, NEW judgement
  PROVE  /\ Stop(row, judgement).row = row
         /\ Stop(row, judgement).decision = << >>
BY PlanParts DEF Stop, Plan

LEMMA RaiseParts ==
  ASSUME NEW row
  PROVE  /\ Raise(row).row = row
         /\ Raise(row).decision = << >>
BY DEF Raise, Stop, Plan

\* The chief's stage keeps the row's decision and starts no new one.
LEMMA ToChiefParts ==
  ASSUME NEW row \in WorkflowRows
  PROVE  /\ ToChief(row).row \in WorkflowRows
         /\ ToChief(row).row.status \in {row.status, "CHIEF_RUNNING"}
         /\ ToChief(row).row.final = row.final
         /\ ToChief(row).row.rev = row.rev
         /\ ToChief(row).decision = << >>
<1> DEFINE next == [row EXCEPT !.status = "CHIEF_RUNNING"]
<1>1. ToChief(row) \in {Raise(row), Plan(next, {Chief}, Key("after-chief", _next_candidate_version, 0))}
  BY DEF ToChief
<1>2. next \in WorkflowRows /\ next.status = "CHIEF_RUNNING" /\ next.final = row.final /\ next.rev = row.rev
  BY DEF WorkflowRows, Status
<1> HIDE DEF next
<1>3. QED
  BY <1>1, <1>2, PlanParts, RaiseParts

\* Every plan _advance_workflow makes of a started workflow is a good one.
LEMMA AdvanceGood ==
  ASSUME NEW row \in WorkflowRows, row.status # "NONE"
  PROVE  GoodPlan(row, _advance_workflow(row))
<1>1. GoodPlan(row, Raise(row)) /\ GoodPlan(row, Stop(row, "NONE"))
  BY RaiseParts, StopParts DEF GoodPlan, WorkflowRows
<1>2. ASSUME NEW roles, NEW key PROVE GoodPlan(row, Plan(row, roles, key))
  BY PlanParts DEF GoodPlan, WorkflowRows
<1>3. CASE row.status = "SNAPSHOT_READY"
  <2> DEFINE next == [row EXCEPT !.status = "SPECIALISTS_RUNNING"]
  <2>1. next \in WorkflowRows /\ next.status = "SPECIALISTS_RUNNING" /\ next.final = row.final
          /\ next.rev = row.rev
    BY DEF WorkflowRows, Status
  <2>2. AdvanceSnapshot(row) \in {Raise(row), Plan(next, Specialists, Key("after-specialists", 0, 0))}
    BY DEF AdvanceSnapshot
  <2> HIDE DEF next
  <2>3. GoodPlan(row, Plan(next, Specialists, Key("after-specialists", 0, 0)))
    BY <1>3, <2>1, PlanParts DEF GoodPlan, WorkflowRows, RunningStatus
  <2>4. GoodPlan(row, AdvanceSnapshot(row))
    BY <1>1, <2>2, <2>3
  <2>5. _advance_workflow(row) = AdvanceSnapshot(row)
    BY <1>3, Zenon DEF _advance_workflow
  <2>6. QED
    BY <2>4, <2>5
<1>4. CASE row.status = "SPECIALISTS_RUNNING"
  <2> DEFINE chief == [ToChief(row) EXCEPT !.contribute = ~contributed]
  <2>1. chief.row = ToChief(row).row /\ chief.decision = ToChief(row).decision
    BY DEF ToChief, Raise, Stop, Plan
  <2>2. AdvanceSpecialists(row) = chief \/ AdvanceSpecialists(row) = Raise(row)
          \/ \E key : AdvanceSpecialists(row) = Plan(row, Specialists, key)
    BY DEF AdvanceSpecialists, Poll
  <2> HIDE DEF chief
  <2>3. GoodPlan(row, chief)
    BY <1>4, <2>1, ToChiefParts DEF GoodPlan, WorkflowRows, RunningStatus
  <2>4. GoodPlan(row, AdvanceSpecialists(row))
    BY <1>1, <1>2, <2>2, <2>3
  <2>5. _advance_workflow(row) = AdvanceSpecialists(row)
    BY <1>4, Zenon DEF _advance_workflow
  <2>6. QED
    BY <2>4, <2>5
<1>5. CASE row.status = "CHIEF_RUNNING"
  <2> DEFINE next == [row EXCEPT !.status = "CONTROLLERS_RUNNING"]
             new == [Plan(next, {}, Key("after-controllers", _next_candidate_version, 0))
                     EXCEPT !.candidate = runs[Chief].last]
  <2>1. next \in WorkflowRows /\ next.status = "CONTROLLERS_RUNNING" /\ next.final = row.final
          /\ next.rev = row.rev
    BY DEF WorkflowRows, Status
  <2>2. AdvanceChief(row) = new \/ AdvanceChief(row) = Raise(row)
          \/ \E key : AdvanceChief(row) = Plan(row, {Chief}, key)
    BY DEF AdvanceChief, Poll
  <2> HIDE DEF next
  <2>3. new.row = next /\ new.decision = << >>
    BY DEF Plan
  <2> HIDE DEF new
  <2>4. GoodPlan(row, new)
    BY <1>5, <2>1, <2>3 DEF GoodPlan, WorkflowRows, RunningStatus
  <2>5. GoodPlan(row, AdvanceChief(row))
    BY <1>1, <1>2, <2>2, <2>4
  <2>6. _advance_workflow(row) = AdvanceChief(row)
    BY <1>5, Zenon DEF _advance_workflow
  <2>7. QED
    BY <2>5, <2>6
<1>6. CASE row.status = "CONTROLLERS_RUNNING"
  <2>1. ASSUME NEW status \in Status \ {"NONE"}, NEW judgement
        PROVE  GoodPlan(row, Stop([row EXCEPT !.status = status], judgement))
    <3> DEFINE next == [row EXCEPT !.status = status]
    <3>1. next \in WorkflowRows /\ next.status = status /\ next.final = row.final
            /\ next.rev = row.rev
      BY DEF WorkflowRows
    <3> HIDE DEF next
    <3>2. GoodPlan(row, Stop(next, judgement))
      BY <1>6, <3>1, StopParts DEF GoodPlan, WorkflowRows, RunningStatus
    <3>3. QED
      BY <3>2 DEF next
  <2>2. ASSUME NEW verdicts PROVE GoodPlan(row, Accept(row, verdicts))
    <3> DEFINE accepted == [row EXCEPT !.status = "AWAITING_DECISION_APPROVAL"]
               decision == [from |-> candidate.version, kind |-> candidate.kind,
                            verdicts |-> verdicts, approved |-> FALSE]
               decided == [Stop(accepted, "MATERIALIZED") EXCEPT !.decision = <<decision>>]
    <3>1. accepted \in WorkflowRows /\ accepted.status = "AWAITING_DECISION_APPROVAL"
            /\ accepted.final = row.final /\ accepted.rev = row.rev
      BY DEF WorkflowRows, Status
    <3>2. GoodPlan(row, Stop(accepted, "ACCEPTED"))
      BY <2>1 DEF Status
    <3>3. Accept(row, verdicts) = Stop(accepted, "ACCEPTED") \/ Accept(row, verdicts) = Raise(row)
            \/ (row.final = 0 /\ Accept(row, verdicts) = decided)
      BY DEF Accept
    <3> HIDE DEF accepted, decision
    <3>4. decided.row = accepted /\ decided.decision = <<decision>>
      BY DEF Stop, Plan
    <3> HIDE DEF decided
    <3>5. decided.decision = <<decided.decision[1]>>
      BY <3>4
    <3>6. ASSUME row.final = 0 PROVE GoodPlan(row, decided)
      BY <1>6, <3>1, <3>4, <3>5, <3>6 DEF GoodPlan, WorkflowRows, RunningStatus
    <3>7. QED
      BY <1>1, <3>2, <3>3, <3>6
  <2>3. GoodPlan(row, Revise(row))
    <3> DEFINE next == [row EXCEPT !.rev = @ + 1]
               chief == [ToChief(next) EXCEPT !.judgement = "REVISION_REQUIRED"]
    <3>1. next \in WorkflowRows /\ next.status = row.status /\ next.final = row.final
            /\ next.rev = row.rev + 1
      BY DEF WorkflowRows
    <3>2. GoodPlan(row, Stop([row EXCEPT !.status = "ESCALATED"], "REVISION_REQUIRED"))
      BY <2>1 DEF Status
    <3>3. Revise(row) \in {Stop([row EXCEPT !.status = "ESCALATED"], "REVISION_REQUIRED"), chief}
      BY DEF Revise
    <3> HIDE DEF next
    <3>4. chief.row = ToChief(next).row /\ chief.decision = ToChief(next).decision
      BY DEF ToChief, Raise, Stop, Plan
    <3> HIDE DEF chief
    <3>5. row.rev + 1 >= row.rev
      BY DEF WorkflowRows
    <3>6. GoodPlan(row, chief)
      BY <1>6, <3>1, <3>4, <3>5, ToChiefParts DEF GoodPlan, RunningStatus
    <3>7. QED
      BY <3>2, <3>3, <3>6
  <2>4. GoodPlan(row, AdvanceControllers(row))
    <3> DEFINE verdicts == [c \in Controllers |-> runs[c].last]
               outcome == governed_controller_outcome(candidate.kind, verdicts)
    <3>1. outcome \in {"RAISE", "BLOCK", "REVISE", "CONDITIONS", "PASS"}
      BY DEF governed_controller_outcome
    <3> HIDE DEF outcome, verdicts
    <3>2. AdvanceControllers(row) = Raise(row) \/ AdvanceControllers(row) = Revise(row)
            \/ AdvanceControllers(row) = Accept(row, verdicts)
            \/ AdvanceControllers(row) = Stop([row EXCEPT !.status = "BLOCKED"], "BLOCKED")
            \/ \E key : AdvanceControllers(row) = Plan(row, Controllers, key)
      <4> DEFINE poll == Poll(row, Controllers, "after-controllers", candidate.version)
                 judged == CASE outcome = "RAISE" -> Raise(row)
                             [] outcome = "BLOCK" -> Stop([row EXCEPT !.status = "BLOCKED"], "BLOCKED")
                             [] outcome \in {"REVISE", "CONDITIONS"} -> Revise(row)
                             [] outcome = "PASS" -> Accept(row, verdicts)
      <4>1. AdvanceControllers(row) = Raise(row) \/ AdvanceControllers(row) = poll
              \/ AdvanceControllers(row) = judged
        BY Zenon DEF AdvanceControllers, outcome, verdicts
      <4>2. judged = Raise(row) \/ judged = Revise(row) \/ judged = Accept(row, verdicts)
              \/ judged = Stop([row EXCEPT !.status = "BLOCKED"], "BLOCKED")
        BY <3>1, Zenon
      <4>3. \E key : poll = Plan(row, Controllers, key)
        BY DEF Poll
      <4> HIDE DEF poll, judged
      <4>4. QED
        BY <4>1, <4>2, <4>3
    <3>3. QED
      BY <1>1, <1>2, <2>1, <2>2, <2>3, <3>2 DEF Status
  <2>5. _advance_workflow(row) = AdvanceControllers(row)
    BY <1>6, Zenon DEF _advance_workflow
  <2>6. QED
    BY <2>4, <2>5
<1>7. CASE row.status \notin RunningStatus
  <2>1. _advance_workflow(row) = Stop(row, "NONE")
    BY <1>7, Zenon DEF _advance_workflow, RunningStatus
  <2>2. QED
    BY <1>1, <2>1
<1>8. QED
  BY <1>3, <1>4, <1>5, <1>6, <1>7 DEF RunningStatus

-----------------------------------------------------------------------------
\* The initial state.
LEMMA DecisionInvInit == DecisionInit => DecisionInv
BY DEF DecisionInit, DecisionInv, WorkflowRows, Status, NoTx

\* The decisions are a sequence, whatever they hold.
IsSequence == \E S : decisions \in Seq(S)

\* What the transaction commits to the workflow row: the columns that the plan
\* changed, and the others as they are by then.
LEMMA CommitColumns ==
  ASSUME IsSequence, DecisionInv, NEW w \in Workers, Commit(w)
  PROVE  LET seen == tx[w].seen
             plan == tx[w].plan
             final == IF plan.decision = << >> THEN plan.row.final ELSE Len(decisions) + 1 IN
         /\ workflow'.status = IF plan.row.status # seen.status THEN plan.row.status ELSE workflow.status
         /\ workflow'.rev = IF plan.row.rev # seen.rev THEN plan.row.rev ELSE workflow.rev
         /\ workflow'.final = IF final # seen.final THEN final ELSE workflow.final
         /\ workflow'.approval = IF plan.row.approval # seen.approval THEN plan.row.approval
                                 ELSE workflow.approval
         /\ workflow' = [status |-> workflow'.status, rev |-> workflow'.rev,
                         final |-> workflow'.final, approval |-> workflow'.approval]
<1> DEFINE seen == tx[w].seen
           plan == tx[w].plan
           row == [plan.row EXCEPT !.final = IF plan.decision = << >> THEN @ ELSE Len(decisions) + 1]
<1>1. workflow \in WorkflowRows /\ plan.row \in WorkflowRows
  BY DEF DecisionInv, Commit, GoodPlan
<1>2. workflow' = [c \in DOMAIN workflow |-> IF row[c] # seen[c] THEN row[c] ELSE workflow[c]]
  BY DEF Commit, Column
<1>3. DOMAIN workflow = {"status", "rev", "final", "approval"}
  BY <1>1 DEF WorkflowRows
<1>4. /\ row.status = plan.row.status /\ row.rev = plan.row.rev /\ row.approval = plan.row.approval
      /\ row.final = IF plan.decision = << >> THEN plan.row.final ELSE Len(decisions) + 1
  BY <1>1 DEF WorkflowRows
<1> HIDE DEF row, seen, plan
<1>5. /\ workflow'.status = IF row.status # seen.status THEN row.status ELSE workflow.status
      /\ workflow'.rev = IF row.rev # seen.rev THEN row.rev ELSE workflow.rev
      /\ workflow'.final = IF row.final # seen.final THEN row.final ELSE workflow.final
      /\ workflow'.approval = IF row.approval # seen.approval THEN row.approval ELSE workflow.approval
      /\ workflow' = [status |-> workflow'.status, rev |-> workflow'.rev, final |-> workflow'.final,
                      approval |-> workflow'.approval]
  BY <1>2, <1>3
<1>6. QED
  BY <1>4, <1>5 DEF seen, plan

LEMMA CommitRow ==
  ASSUME IsSequence, DecisionInv, NEW w \in Workers, Commit(w)
  PROVE  LET seen == tx[w].seen
             plan == tx[w].plan IN
         /\ workflow' \in WorkflowRows
         /\ workflow'.status # "NONE"
         /\ plan.row = seen => workflow'.status = workflow.status /\ workflow'.rev = workflow.rev
                                 /\ workflow'.approval = workflow.approval
         /\ seen = workflow => workflow'.rev >= workflow.rev
         /\ plan.decision = << >> => workflow'.final = workflow.final
         /\ plan.decision # << >> /\ seen.final = 0 => workflow'.final = Len(decisions) + 1
<1> DEFINE seen == tx[w].seen
           plan == tx[w].plan
<1>1. seen \in WorkflowRows /\ GoodPlan(seen, plan)
  BY DEF DecisionInv, Commit
<1>2. workflow \in WorkflowRows /\ workflow.status # "NONE"
  BY DEF DecisionInv, Commit
<1>3. Len(decisions) + 1 \in Nat /\ Len(decisions) + 1 # 0
  BY DEF IsSequence
<1>4. /\ plan.row \in WorkflowRows
      /\ plan.row.status # "NONE" /\ plan.row.final = seen.final /\ plan.row.rev >= seen.rev
  BY <1>1 DEF GoodPlan
<1>5. workflow.rev >= workflow.rev
  BY <1>2 DEF WorkflowRows
<1>6. workflow' \in WorkflowRows
  BY <1>2, <1>3, <1>4, CommitColumns DEF WorkflowRows
<1>7. QED
  BY <1>2, <1>3, <1>4, <1>5, <1>6, CommitColumns

\* A commit preserves DecisionInv.
LEMMA CommitKeeps ==
  ASSUME IsSequence, DecisionInv, NEW w \in Workers, Commit(w)
  PROVE  DecisionInv'
<1> DEFINE seen == tx[w].seen
           plan == tx[w].plan
<1>1. seen \in WorkflowRows /\ GoodPlan(seen, plan) /\ DOMAIN tx = Workers /\ tx[w].open
  BY DEF DecisionInv, Commit
<1>2. tx' = [tx EXCEPT ![w] = NoTx] /\ decisions' = decisions \o plan.decision /\ UNCHANGED overlapped
  BY DEF Commit
<1>3. DOMAIN tx' = Workers /\ ~tx'[w].open /\ \A v \in Workers : v # w => tx'[v] = tx[v]
  BY <1>1, <1>2 DEF NoTx
<1>4. workflow' \in WorkflowRows /\ workflow'.status # "NONE"
  BY CommitRow
<1>5. ASSUME NEW v \in Workers, tx'[v].open
      PROVE  tx'[v].seen \in WorkflowRows /\ GoodPlan(tx'[v].seen, tx'[v].plan)
  BY <1>3, <1>5 DEF DecisionInv
<1>6. ASSUME ~overlapped
      PROVE  /\ \A v \in Workers : ~tx'[v].open
             /\ \/ decisions' = << >> /\ workflow'.final = 0
                \/ decisions' = <<decisions'[1]>> /\ workflow'.final = 1
  <2>1. \A v \in Workers : ~tx'[v].open
    BY <1>1, <1>3, <1>6 DEF DecisionInv
  <2>2. seen.final = workflow.final
    BY <1>1, <1>6 DEF DecisionInv, FreshRow
  <2>3. CASE plan.decision = << >>
    <3>1. workflow'.final = workflow.final
      BY <2>3, CommitRow
    <3>2. CASE decisions = << >>
      BY <1>2, <1>6, <2>1, <2>3, <3>1, <3>2 DEF DecisionInv
    <3>3. CASE decisions = <<decisions[1]>> /\ workflow.final = 1
      <4>1. <<decisions[1]>> \o << >> = <<decisions[1]>>
        OBVIOUS
      <4>2. decisions' = <<decisions[1]>>
        BY <1>2, <2>3, <3>3, <4>1
      <4>3. QED
        BY <2>1, <3>1, <3>3, <4>2
    <3>4. QED
      BY <1>6, <3>2, <3>3 DEF DecisionInv
  <2>4. CASE plan.decision # << >>
    <3>1. plan.decision = <<plan.decision[1]>> /\ seen.final = 0
      BY <1>1, <2>4 DEF GoodPlan
    <3>2. decisions = << >>
      BY <1>6, <2>2, <3>1 DEF DecisionInv
    <3>3. << >> \o <<plan.decision[1]>> = <<plan.decision[1]>>
      OBVIOUS
    <3>4. decisions' = <<plan.decision[1]>>
      BY <1>2, <3>1, <3>2, <3>3
    <3>5. workflow'.final = Len(decisions) + 1
      BY <2>4, <3>1, CommitRow
    <3>6. workflow'.final = 1
      BY <3>2, <3>5
    <3>7. QED
      BY <2>1, <3>4, <3>6
  <2>5. QED
    BY <2>3, <2>4
<1>7. QED
  BY <1>2, <1>3, <1>4, <1>5, <1>6 DEF DecisionInv

\* Every other step preserves DecisionInv.
LEMMA DecisionInvStep == IsSequence /\ DecisionInv /\ [DecisionNext]_decisionVars => DecisionInv'
<1> SUFFICES ASSUME IsSequence, DecisionInv, [DecisionNext]_decisionVars PROVE DecisionInv'
  OBVIOUS
<1>1. CASE UNCHANGED decisionVars
  BY <1>1 DEF DecisionInv, decisionVars, FreshRow
<1>2. CASE start_decision_workflow
  <2>1. \A w \in Workers : ~tx'[w].open
    BY <1>2 DEF start_decision_workflow, DecisionInv
  <2>2. workflow' \in WorkflowRows /\ workflow'.status # "NONE" /\ workflow'.final = workflow.final
    BY <1>2 DEF start_decision_workflow, DecisionInv, WorkflowRows, Status
  <2>3. QED
    BY <1>2, <2>1, <2>2 DEF start_decision_workflow, DecisionInv
<1>3. CASE Resume
  BY <1>3 DEF Resume, DecisionInv, FreshRow
<1>4. CASE approve_decision_for_production
  <2>1. /\ workflow' \in WorkflowRows
        /\ workflow'.status = "APPROVED_FOR_PRODUCTION"
        /\ workflow'.final = workflow.final
    BY <1>4 DEF approve_decision_for_production, DecisionInv, WorkflowRows, Status
  <2>2. ASSUME NEW seen, FreshRow(seen) PROVE FreshRow(seen)'
    BY <1>4, <2>1, <2>2 DEF approve_decision_for_production, FreshRow
  <2>3. ASSUME ~overlapped PROVE decisions' = <<decisions'[1]>> /\ workflow'.final = 1
    <3>1. decisions = <<decisions[1]>> /\ workflow.final = 1
      BY <1>4, <2>3 DEF approve_decision_for_production, DecisionInv
    <3>2. decisions' = [decisions EXCEPT ![workflow.final] = [@ EXCEPT !.approved = TRUE]]
      BY <1>4 DEF approve_decision_for_production
    <3>3. PICK d : decisions' = [decisions EXCEPT ![1] = d]
      BY <3>1, <3>2
    <3>4. [<<decisions[1]>> EXCEPT ![1] = d] = <<d>>
      OBVIOUS
    <3>5. decisions' = <<d>>
      BY <3>1, <3>3, <3>4, Zenon
    <3>6. QED
      BY <2>1, <3>1, <3>5
  <2>4. UNCHANGED <<jobs, tx, overlapped>>
    BY <1>4 DEF approve_decision_for_production
  <2>5. QED
    BY <2>1, <2>2, <2>3, <2>4 DEF DecisionInv
<1>5. ASSUME NEW r \in Roles, RunFinishes(r) \/ RunOrphaned(r) PROVE DecisionInv'
  BY <1>5 DEF RunFinishes, RunEnds, RunOrphaned, DecisionInv, FreshRow
<1>6. ASSUME NEW w \in Workers, NEW k \in DOMAIN jobs, Begin(w, k) PROVE DecisionInv'
  <2>1. workflow.status # "NONE"
    BY <1>6 DEF DecisionInv
  <2>2. GoodPlan(workflow, _advance_workflow(workflow))
    BY <2>1, AdvanceGood DEF DecisionInv
  <2> DEFINE opened == [open |-> TRUE, key |-> k, seen |-> workflow,
                        plan |-> _advance_workflow(workflow)]
  <2>3. opened.seen = workflow /\ GoodPlan(opened.seen, opened.plan)
    BY <2>2
  <2>4. tx' = [tx EXCEPT ![w] = opened]
    BY <1>6 DEF Begin
  <2>5. /\ UNCHANGED <<workflow, decisions>>
        /\ overlapped' = (overlapped \/ \E v \in Workers : tx[v].open)
    BY <1>6 DEF Begin
  <2> HIDE DEF opened
  <2>6. tx'[w] = opened /\ \A v \in Workers : v # w => tx'[v] = tx[v]
    BY <2>4 DEF DecisionInv
  <2>7. QED
    BY <2>1, <2>3, <2>4, <2>5, <2>6 DEF DecisionInv, FreshRow
<1>7. ASSUME NEW w \in Workers, Commit(w) PROVE DecisionInv'
  BY <1>7, CommitKeeps
<1>8. ASSUME NEW w \in Workers, Raises(w) \/ Conflicts(w) \/ Crash(w) PROVE DecisionInv'
  <2>1. tx' = [tx EXCEPT ![w] = NoTx] /\ UNCHANGED <<workflow, decisions, overlapped>>
    BY <1>8 DEF Raises, Conflicts, Fails, Crash
  <2>2. tx[w].open
    BY <1>8 DEF Raises, Conflicts, Crash
  <2>3. ~tx'[w].open /\ \A v \in Workers : v # w => tx'[v] = tx[v]
    BY <2>1 DEF DecisionInv, NoTx
  <2>4. QED
    BY <2>1, <2>2, <2>3 DEF DecisionInv, FreshRow
<1>9. QED
  BY <1>1, <1>2, <1>3, <1>4, <1>5, <1>6, <1>7, <1>8 DEF DecisionNext, Owner, WorkerStep

\* The decisions stay a sequence.
LEMMA SequenceStep == IsSequence /\ DecisionInv /\ [DecisionNext]_decisionVars => IsSequence'
<1> SUFFICES ASSUME IsSequence, DecisionInv, [DecisionNext]_decisionVars PROVE IsSequence'
  OBVIOUS
<1>1. PICK S : decisions \in Seq(S)
  BY DEF IsSequence
<1>2. CASE UNCHANGED decisions
  BY <1>1, <1>2 DEF IsSequence
<1>3. CASE approve_decision_for_production
  <2>1. PICK i, d : decisions' = [decisions EXCEPT ![i] = d]
    BY <1>3 DEF approve_decision_for_production
  <2>2. [decisions EXCEPT ![i] = d] \in Seq(S \cup {d})
    <3>1. decisions \in Seq(S \cup {d}) /\ d \in S \cup {d}
      BY <1>1
    <3>2. CASE i \in 1..Len(decisions)
      BY <3>1, <3>2, ExceptSeq
    <3>3. CASE i \notin 1..Len(decisions)
      <4>1. DOMAIN decisions = 1..Len(decisions) /\ decisions = [j \in DOMAIN decisions |-> decisions[j]]
        BY <3>1
      <4>2. [decisions EXCEPT ![i] = d] = decisions
        BY <3>3, <4>1
      <4>3. QED
        BY <3>1, <4>2
    <3>4. QED
      BY <3>2, <3>3
  <2>3. QED
    BY <2>1, <2>2 DEF IsSequence
<1>4. ASSUME NEW w \in Workers, Commit(w) PROVE IsSequence'
  <2> DEFINE plan == tx[w].plan
  <2>1. decisions' = decisions \o plan.decision
    BY <1>4 DEF Commit
  <2>2. plan.decision = << >> \/ plan.decision = <<plan.decision[1]>>
    BY <1>4 DEF Commit, DecisionInv, GoodPlan
  <2> HIDE DEF plan
  <2>3. \E T : plan.decision \in Seq(T)
    <3>1. << >> \in Seq({}) /\ <<plan.decision[1]>> \in Seq({plan.decision[1]})
      OBVIOUS
    <3>2. QED
      BY <2>2, <3>1
  <2>4. PICK T : plan.decision \in Seq(T)
    BY <2>3
  <2>5. decisions \in Seq(S \cup T) /\ plan.decision \in Seq(S \cup T)
    BY <1>1, <2>4
  <2>6. decisions \o plan.decision \in Seq(S \cup T)
    BY <2>5
  <2>7. QED
    BY <2>1, <2>6 DEF IsSequence
<1>5. QED
  BY <1>2, <1>3, <1>4 DEF DecisionNext, Owner, WorkerStep, decisionVars, start_decision_workflow,
     Resume, RunFinishes, RunEnds, RunOrphaned, Begin, Raises, Conflicts, Fails, Crash

\* The inductive invariant holds: an open advance has read the row that is still
\* there, and the row counts the decisions, as long as advances do not overlap.
LEMMA DecisionInvariant == DecisionSpec => [](IsSequence /\ DecisionInv)
<1>1. DecisionInit => IsSequence
  <2>1. << >> \in Seq({})
    OBVIOUS
  <2>2. QED
    BY <2>1 DEF DecisionInit, IsSequence
<1>2. QED
  BY <1>1, DecisionInvInit, DecisionInvStep, SequenceStep, PTL DEF DecisionSpec

\* _materialize_final_decision makes at most one Decision of a workflow, unless
\* two of its advance transactions were open at the same time.
THEOREM DecisionIsUnique == DecisionSpec => []OneDecision
<1>1. DecisionInv => OneDecision
  <2>1. Len(<< >>) = 0 /\ \A d : Len(<<d>>) = 1
    OBVIOUS
  <2>2. ASSUME DecisionInv PROVE overlapped \/ decisions = << >> \/ decisions = <<decisions[1]>>
    BY <2>2 DEF DecisionInv
  <2>3. ASSUME DecisionInv PROVE overlapped \/ Len(decisions) = 0 \/ Len(decisions) = 1
    BY <2>1, <2>2, <2>3, Zenon
  <2>4. 0 <= 1 /\ 1 <= 1
    OBVIOUS
  <2>5. QED
    BY <2>3, <2>4 DEF OneDecision
<1>2. QED
  BY <1>1, DecisionInvariant, PTL

\* A blocked, escalated or approved workflow is never advanced again, a decided
\* one only approved, and revisions are never forgotten, unless advances overlap.
THEOREM VerdictIsFinal == DecisionSpec => VerdictStands
<1> DEFINE Stands == \/ overlapped'
                     \/ /\ workflow.status \in {"BLOCKED", "ESCALATED", "APPROVED_FOR_PRODUCTION"}
                             => workflow' = workflow
                        /\ workflow.status = "AWAITING_DECISION_APPROVAL"
                             => workflow'.status \in {"AWAITING_DECISION_APPROVAL",
                                                     "APPROVED_FOR_PRODUCTION"}
                        /\ workflow'.rev >= workflow.rev
<1>1. ASSUME IsSequence, DecisionInv, DecisionNext PROVE Stands
  <2>1. workflow \in WorkflowRows /\ workflow.rev >= workflow.rev
    BY <1>1 DEF DecisionInv, WorkflowRows
  <2>2. CASE workflow' = workflow
    BY <2>1, <2>2
  <2>3. CASE start_decision_workflow
    BY <2>1, <2>3 DEF start_decision_workflow, WorkflowRows
  <2>4. CASE approve_decision_for_production
    <3>1. workflow'.status = "APPROVED_FOR_PRODUCTION" /\ workflow'.rev = workflow.rev
      BY <2>1, <2>4 DEF approve_decision_for_production, WorkflowRows
    <3>2. QED
      BY <2>1, <2>4, <3>1 DEF approve_decision_for_production
  <2>5. ASSUME NEW w \in Workers, Commit(w), ~overlapped' PROVE Stands
    <3> DEFINE seen == tx[w].seen
               plan == tx[w].plan
    <3>1. seen \in WorkflowRows /\ GoodPlan(seen, plan) /\ FreshRow(seen)
      BY <1>1, <2>5 DEF DecisionInv, Commit
    <3>2. CASE plan.row = seen /\ plan.decision = << >>
      <4>1. /\ workflow' \in WorkflowRows
            /\ workflow'.status = workflow.status /\ workflow'.rev = workflow.rev
            /\ workflow'.final = workflow.final /\ workflow'.approval = workflow.approval
        BY <1>1, <2>5, <3>2, CommitRow
      <4>2. workflow' = workflow
        BY <2>1, <4>1 DEF WorkflowRows
      <4>3. QED
        BY <2>2, <4>2
    <3>3. CASE seen.status \in RunningStatus
      <4>1. seen = workflow
        BY <3>1, <3>3 DEF FreshRow, RunningStatus
      <4>2. workflow'.rev >= workflow.rev
        BY <1>1, <2>5, <4>1, CommitRow
      <4>3. QED
        BY <3>3, <4>1, <4>2 DEF RunningStatus
    <3>4. QED
      BY <3>1, <3>2, <3>3 DEF GoodPlan
  <2>6. QED
    BY <1>1, <2>2, <2>3, <2>4, <2>5 DEF DecisionNext, Owner, WorkerStep, Resume, RunFinishes, RunEnds,
       RunOrphaned, Begin, Raises, Conflicts, Fails, Crash
<1>2. IsSequence /\ DecisionInv /\ [DecisionNext]_decisionVars => [Stands]_decisionVars
  BY <1>1
<1>3. QED
  BY <1>2, DecisionInvariant, PTL DEF DecisionSpec, VerdictStands
-----------------------------------------------------------------------------
(* What else a plan holds: the data it writes and the decision it makes.    *)

\* The plans _advance_workflow can make, each with why it is made.
LEMMA AdvanceCases ==
  ASSUME NEW row \in WorkflowRows
  PROVE  LET p == _advance_workflow(row)
             verdicts == [c \in Controllers |-> runs[c].last] IN
         \/ p = Raise(row) \/ p = Stop(row, "NONE")
         \/ \E R \in SUBSET Roles : \E key : p = Plan(row, R, key)
         \/ /\ row.status = "SNAPSHOT_READY"
            /\ \E key : p = Plan([row EXCEPT !.status = "SPECIALISTS_RUNNING"], Specialists, key)
         \/ /\ row.status = "SPECIALISTS_RUNNING"
            /\ p = [ToChief(row) EXCEPT !.contribute = ~contributed]
         \/ /\ row.status = "CHIEF_RUNNING" /\ AllReady({Chief})
            /\ \E key : p = [Plan([row EXCEPT !.status = "CONTROLLERS_RUNNING"], {}, key)
                             EXCEPT !.candidate = runs[Chief].last]
         \/ /\ row.status = "CONTROLLERS_RUNNING"
            /\ \/ p = Stop([row EXCEPT !.status = "BLOCKED"], "BLOCKED")
               \/ p = Revise(row)
               \/ /\ AllReady(Controllers)
                  /\ governed_controller_outcome(candidate.kind, verdicts) = "PASS"
                  /\ p = Accept(row, verdicts)
<1> DEFINE p == _advance_workflow(row)
           verdicts == [c \in Controllers |-> runs[c].last]
           outcome == governed_controller_outcome(candidate.kind, verdicts)
<1>0. Specialists \in SUBSET Roles /\ {Chief} \in SUBSET Roles /\ Controllers \in SUBSET Roles
  BY DEF Roles
<1>1. CASE row.status = "SNAPSHOT_READY"
  <2>1. p = AdvanceSnapshot(row)
    BY <1>1, Zenon DEF _advance_workflow
  <2>2. QED
    BY <1>1, <2>1, Zenon DEF AdvanceSnapshot
<1>2. CASE row.status = "SPECIALISTS_RUNNING"
  <2>1. p = AdvanceSpecialists(row)
    BY <1>2, Zenon DEF _advance_workflow
  <2>2. QED
    BY <1>0, <1>2, <2>1, Zenon DEF AdvanceSpecialists, Poll
<1>3. CASE row.status = "CHIEF_RUNNING"
  <2>1. p = AdvanceChief(row)
    BY <1>3, Zenon DEF _advance_workflow
  <2>2. QED
    BY <1>0, <1>3, <2>1, Zenon DEF AdvanceChief, Poll
<1>4. CASE row.status = "CONTROLLERS_RUNNING"
  <2>1. p = AdvanceControllers(row)
    BY <1>4, Zenon DEF _advance_workflow
  <2> DEFINE judged == CASE outcome = "RAISE" -> Raise(row)
                         [] outcome = "BLOCK" -> Stop([row EXCEPT !.status = "BLOCKED"], "BLOCKED")
                         [] outcome \in {"REVISE", "CONDITIONS"} -> Revise(row)
                         [] outcome = "PASS" -> Accept(row, verdicts)
  <2>2. outcome \in {"RAISE", "BLOCK", "REVISE", "CONDITIONS", "PASS"}
    BY DEF governed_controller_outcome
  <2>3. \/ AdvanceControllers(row) = Raise(row)
        \/ AdvanceControllers(row) = Poll(row, Controllers, "after-controllers", candidate.version)
        \/ AllReady(Controllers) /\ AdvanceControllers(row) = judged
    BY Zenon DEF AdvanceControllers
  <2> HIDE DEF outcome, verdicts
  <2>4. \/ judged = Raise(row) \/ judged = Revise(row)
        \/ judged = Stop([row EXCEPT !.status = "BLOCKED"], "BLOCKED")
        \/ outcome = "PASS" /\ judged = Accept(row, verdicts)
    BY <2>2, Zenon
  <2>5. \E key : Poll(row, Controllers, "after-controllers", candidate.version)
                   = Plan(row, Controllers, key)
    BY DEF Poll
  <2> HIDE DEF judged
  <2>6. QED
    BY <1>0, <1>4, <2>1, <2>3, <2>4, <2>5, Zenon DEF outcome, verdicts
<1>5. CASE row.status \notin RunningStatus
  <2>1. p = Stop(row, "NONE")
    BY <1>5, Zenon DEF _advance_workflow, RunningStatus
  <2>2. QED
    BY <2>1
<1>6. QED
  BY <1>1, <1>2, <1>3, <1>4, <1>5 DEF RunningStatus
\* A plan has these fields, and an EXCEPT changes one of them.
IsPlan(p) == DOMAIN p = {"raises", "row", "version", "runs", "jobs", "judgement", "contribute",
                         "candidate", "decision"}

LEMMA PlanExcept ==
  ASSUME NEW p, IsPlan(p), NEW v
  PROVE  /\ LET q == [p EXCEPT !.contribute = v] IN
            /\ IsPlan(q) /\ q.raises = p.raises /\ q.row = p.row /\ q.version = p.version
            /\ q.runs = p.runs /\ q.judgement = p.judgement /\ q.candidate = p.candidate
            /\ q.decision = p.decision
         /\ LET q == [p EXCEPT !.judgement = v] IN
            /\ IsPlan(q) /\ q.raises = p.raises /\ q.row = p.row /\ q.version = p.version
            /\ q.runs = p.runs /\ q.judgement = v /\ q.candidate = p.candidate
            /\ q.decision = p.decision
         /\ LET q == [p EXCEPT !.candidate = v] IN
            /\ IsPlan(q) /\ q.raises = p.raises /\ q.row = p.row /\ q.version = p.version
            /\ q.runs = p.runs /\ q.judgement = p.judgement /\ q.candidate = v
            /\ q.decision = p.decision
         /\ LET q == [p EXCEPT !.decision = v] IN
            /\ IsPlan(q) /\ q.raises = p.raises /\ q.row = p.row /\ q.version = p.version
            /\ q.runs = p.runs /\ q.judgement = p.judgement /\ q.candidate = p.candidate
            /\ q.decision = v
         /\ LET q == [p EXCEPT !.raises = v] IN
            /\ IsPlan(q) /\ q.raises = v /\ q.row = p.row /\ q.version = p.version
            /\ q.runs = p.runs /\ q.judgement = p.judgement /\ q.candidate = p.candidate
            /\ q.decision = p.decision
BY DEF IsPlan

LEMMA PlanFields ==
  ASSUME NEW row, NEW roles, NEW key
  PROVE  LET p == Plan(row, roles, key) IN
         /\ IsPlan(p) /\ p.row = row /\ p.version = candidate.version
         /\ DOMAIN p.runs = Missing(roles) /\ \A r \in Missing(roles) : p.runs[r] = runs[r].n + 1
         /\ p.judgement = "NONE" /\ p.candidate = "none" /\ p.decision = << >>
BY DEF Plan, IsPlan

LEMMA StopFields ==
  ASSUME NEW row, NEW judgement
  PROVE  LET p == Stop(row, judgement) IN
         /\ IsPlan(p) /\ p.row = row /\ p.version = candidate.version /\ DOMAIN p.runs = {}
         /\ p.judgement = judgement /\ p.candidate = "none" /\ p.decision = << >>
<1>1. Missing({}) = {}
  BY DEF Missing
<1>2. QED
  BY <1>1 DEF Stop, Plan, IsPlan

LEMMA RaiseFields ==
  ASSUME NEW row
  PROVE  LET p == Raise(row) IN
         /\ IsPlan(p) /\ p.row = row /\ p.version = candidate.version /\ DOMAIN p.runs = {}
         /\ p.judgement = "NONE" /\ p.candidate = "none" /\ p.decision = << >>
<1>1. Missing({}) = {}
  BY DEF Missing
<1>2. QED
  BY <1>1 DEF Raise, Stop, Plan, IsPlan

LEMMA RaiseRaises ==
  ASSUME NEW row
  PROVE  Raise(row).raises
<1>1. PICK base : base = Stop(row, "NONE")
  OBVIOUS
<1>2. DOMAIN base = {"raises", "row", "version", "runs", "jobs", "judgement", "contribute",
                     "candidate", "decision"}
  BY <1>1, StopFields DEF IsPlan
<1>3. Raise(row) = [base EXCEPT !.raises = TRUE]
  BY <1>1 DEF Raise
<1>4. "raises" \in DOMAIN base
  BY <1>2
<1>5. QED
  BY <1>3, <1>4, Zenon

\* _ensure_chief_run: it raises, or the row goes on to the chief.
LEMMA ToChiefCases ==
  ASSUME NEW row
  PROVE  \/ ToChief(row) = Raise(row)
         \/ ToChief(row) = Plan([row EXCEPT !.status = "CHIEF_RUNNING"], {Chief},
                                Key("after-chief", _next_candidate_version, 0))
BY DEF ToChief

-----------------------------------------------------------------------------
RunResults == Kinds \cup Verdicts \cup Pending \cup {"contribution", "none", "unusable"}

LEMMA OutputTypes ==
  /\ \A r \in Specialists : Outputs(r) = {"contribution"}
  /\ Outputs(Chief) = ChiefOutputs
  /\ \A r \in Roles : Outputs(r) \subseteq Kinds \cup Verdicts \cup {"contribution"}
  /\ \A c \in Controllers : Outputs(c) \subseteq Verdicts
  /\ "WAIVED" \notin Outputs(Constitutional)
<1>1. \A r \in Specialists : Outputs(r) = {"contribution"}
  <2>1. \A r \in Specialists : r # Chief /\ r # AntiParalysis
    BY DecisionAssumption
  <2>2. QED
    BY <2>1, Zenon DEF Outputs
<1>2. Outputs(Chief) = ChiefOutputs
  BY DecisionAssumption, Zenon DEF Outputs
<1>3. \A c \in Controllers : c \notin Specialists /\ c # Chief
  BY DecisionAssumption
<1>4. Outputs(AntiParalysis) = Opinions
  <2>1. AntiParalysis \notin Specialists /\ AntiParalysis # Chief
    BY <1>3, DecisionAssumption
  <2>2. QED
    BY <2>1, Zenon DEF Outputs
<1>5. \A c \in Controllers : c # AntiParalysis => Outputs(c) = Opinions \ {"WAIVED"}
  BY <1>3, Zenon DEF Outputs
<1>6. QED
  BY <1>1, <1>2, <1>4, <1>5, DecisionAssumption DEF Roles

\* What the plan of an open transaction is going to write.
PlanTyped(p) ==
  /\ p.version \in Nat
  /\ DOMAIN p.runs \subseteq Roles /\ \A r \in DOMAIN p.runs : p.runs[r] \in Nat
  /\ p.judgement \in CandidateStatus
  /\ p.candidate \in Kinds \cup {"none"}

\* The state as the tables have it.
DataTyped ==
  /\ \A k \in DOMAIN jobs : jobs[k] \in {"QUEUED", "RUNNING", "SUCCEEDED", "FAILED"}
  /\ runs \in [Roles -> [n : Nat, last : RunResults]]
  /\ \A r \in Roles : runs[r].last \in Outputs(r) \cup Pending \cup {"none", "unusable"}
  /\ candidate \in [version : Nat, status : CandidateStatus, kind : Kinds]
  /\ \A w \in Workers : tx[w].open => PlanTyped(tx[w].plan)

LEMMA AdvanceTyped ==
  ASSUME DataTyped, NEW row \in WorkflowRows
  PROVE  /\ PlanTyped(_advance_workflow(row))
         /\ _advance_workflow(row).version = candidate.version
<1> DEFINE Good(p) == PlanTyped(p) /\ p.version = candidate.version
<1>1. candidate.version \in Nat /\ \A r \in Roles : runs[r].n + 1 \in Nat
  BY DEF DataTyped
<1>2. {"NONE", "BLOCKED", "REVISION_REQUIRED", "ACCEPTED", "MATERIALIZED"} \subseteq CandidateStatus
  BY DEF CandidateStatus
<1>3. ASSUME NEW anyrow, NEW R \in SUBSET Roles, NEW key PROVE Good(Plan(anyrow, R, key))
  <2>1. Missing(R) \subseteq Roles
    BY DEF Missing
  <2>2. PICK p : p = Plan(anyrow, R, key)
    OBVIOUS
  <2>3. QED
    BY <1>1, <1>2, <2>1, <2>2, PlanFields DEF PlanTyped
<1>4. ASSUME NEW anyrow, NEW judgement \in CandidateStatus PROVE Good(Stop(anyrow, judgement))
  BY <1>1, <1>2, StopFields DEF PlanTyped
<1>5. Good(Raise(row))
  BY <1>1, <1>2, RaiseFields DEF PlanTyped
<1>6. ASSUME NEW anyrow PROVE Good(ToChief(anyrow)) /\ IsPlan(ToChief(anyrow))
  <2>1. IsPlan(Raise(anyrow)) /\ Good(Raise(anyrow))
    BY <1>1, <1>2, RaiseFields DEF PlanTyped
  <2>2. {Chief} \in SUBSET Roles
    BY DEF Roles
  <2>3. PICK next, key : ToChief(anyrow) = Raise(anyrow) \/ ToChief(anyrow) = Plan(next, {Chief}, key)
    BY ToChiefCases
  <2>4. IsPlan(Plan(next, {Chief}, key)) /\ Good(Plan(next, {Chief}, key))
    BY <1>3, <2>2, PlanFields
  <2> HIDE DEF Good
  <2>5. QED
    BY <2>1, <2>3, <2>4
<1>7. ASSUME NEW q, IsPlan(q), Good(q), NEW v
      PROVE  /\ Good([q EXCEPT !.contribute = v]) /\ Good([q EXCEPT !.decision = v])
             /\ v \in CandidateStatus => Good([q EXCEPT !.judgement = v])
             /\ v \in Kinds => Good([q EXCEPT !.candidate = v])
  BY <1>7, PlanExcept DEF PlanTyped
<1>8. Good([ToChief(row) EXCEPT !.contribute = ~contributed])
  BY <1>6, <1>7
<1>9. Good(Revise(row))
  <2>1. PICK q, next : q = ToChief(next) /\ next = [row EXCEPT !.rev = @ + 1]
    OBVIOUS
  <2>2. Good(q) /\ IsPlan(q)
    BY <1>6, <2>1
  <2>3. Good([q EXCEPT !.judgement = "REVISION_REQUIRED"])
    BY <1>2, <1>7, <2>2
  <2>4. Good(Stop([row EXCEPT !.status = "ESCALATED"], "REVISION_REQUIRED"))
    BY <1>2, <1>4
  <2>5. Revise(row) \in {Stop([row EXCEPT !.status = "ESCALATED"], "REVISION_REQUIRED"),
                         [q EXCEPT !.judgement = "REVISION_REQUIRED"]}
    BY <2>1 DEF Revise
  <2> HIDE DEF Good
  <2>6. QED
    BY <2>3, <2>4, <2>5
<1>10. ASSUME NEW verdicts PROVE Good(Accept(row, verdicts))
  <2>1. PICK next : next = [row EXCEPT !.status = "AWAITING_DECISION_APPROVAL"]
    OBVIOUS
  <2>2. PICK q, d : /\ q = Stop(next, "MATERIALIZED")
                    /\ d = <<[from |-> candidate.version, kind |-> candidate.kind,
                              verdicts |-> verdicts, approved |-> FALSE]>>
    OBVIOUS
  <2>3. Good(q) /\ IsPlan(q)
    BY <1>2, <1>4, <2>2, StopFields
  <2>4. Good(Stop(next, "ACCEPTED")) /\ Good([q EXCEPT !.decision = d])
    BY <1>2, <1>4, <1>7, <2>3
  <2>5. Accept(row, verdicts) \in {Stop(next, "ACCEPTED"), Raise(row), [q EXCEPT !.decision = d]}
    BY <2>1, <2>2 DEF Accept
  <2> HIDE DEF Good
  <2>6. QED
    BY <1>5, <2>4, <2>5
<1>11. ASSUME AllReady({Chief}), NEW anyrow, NEW key
       PROVE  Good([Plan(anyrow, {}, key) EXCEPT !.candidate = runs[Chief].last])
  <2>1. runs[Chief].last \in Outputs(Chief)
    BY <1>11 DEF AllReady, RunState, CanMaterialize
  <2>2. runs[Chief].last \in Kinds
    BY <2>1, OutputTypes, DecisionAssumption
  <2>3. PICK q : q = Plan(anyrow, {}, key)
    OBVIOUS
  <2>4. Good(q) /\ IsPlan(q)
    BY <1>3, <2>3, PlanFields
  <2>5. Good([q EXCEPT !.candidate = runs[Chief].last])
    BY <1>7, <2>2, <2>4
  <2>6. QED
    BY <2>3, <2>5
<1>12. "BLOCKED" \in CandidateStatus /\ "NONE" \in CandidateStatus /\ Specialists \in SUBSET Roles
  BY DEF CandidateStatus, Roles
<1> HIDE DEF Good
<1>13. Good(_advance_workflow(row))
  <2> DEFINE p == _advance_workflow(row)
  <2>1. \/ p = Raise(row) \/ p = Stop(row, "NONE")
        \/ \E R \in SUBSET Roles : \E anyrow, key : p = Plan(anyrow, R, key)
        \/ p = [ToChief(row) EXCEPT !.contribute = ~contributed]
        \/ /\ AllReady({Chief})
           /\ \E anyrow, key : p = [Plan(anyrow, {}, key) EXCEPT !.candidate = runs[Chief].last]
        \/ \E anyrow : p = Stop(anyrow, "BLOCKED")
        \/ p = Revise(row)
        \/ \E verdicts : p = Accept(row, verdicts)
    BY <1>12, AdvanceCases, Zenon
  <2> HIDE DEF p
  <2>2. Good(p)
    <3>1. ASSUME NEW R \in SUBSET Roles, NEW anyrow, NEW key, p = Plan(anyrow, R, key) PROVE Good(p)
      BY <1>3, <3>1
    <3>2. ASSUME AllReady({Chief}), NEW anyrow, NEW key,
                 p = [Plan(anyrow, {}, key) EXCEPT !.candidate = runs[Chief].last]
          PROVE  Good(p)
      BY <1>11, <3>2, Zenon
    <3>3. ASSUME p = [ToChief(row) EXCEPT !.contribute = ~contributed] PROVE Good(p)
      BY <1>8, <3>3, Zenon
    <3>4. CASE p = Raise(row) \/ p = Stop(row, "NONE") \/ p = Revise(row)
               \/ (\E verdicts : p = Accept(row, verdicts)) \/ \E anyrow : p = Stop(anyrow, "BLOCKED")
      BY <1>4, <1>5, <1>9, <1>10, <1>12, <3>4
    <3>5. QED
      BY <2>1, <3>1, <3>2, <3>3, <3>4, Zenon
  <2>3. QED
    BY <2>2 DEF p
<1>14. QED
  BY <1>13 DEF Good
-----------------------------------------------------------------------------
JobStatus == {"QUEUED", "RUNNING", "SUCCEEDED", "FAILED"}

JobsTyped == \A k \in DOMAIN jobs : jobs[k] \in JobStatus

LEMMA JobsTypedStep ==
  ASSUME JobsTyped, [DecisionNext]_decisionVars
  PROVE  JobsTyped'
<1>1. ASSUME NEW K PROVE \A k \in DOMAIN WithJobs(K) : WithJobs(K)[k] \in JobStatus
  BY DEF WithJobs, JobsTyped, JobStatus
<1>2. ASSUME NEW f, NEW k, NEW s \in JobStatus, \A j \in DOMAIN f : f[j] \in JobStatus,
             jobs' = [f EXCEPT ![k] = s]
      PROVE  JobsTyped'
  BY <1>2 DEF JobsTyped
<1>3. CASE start_decision_workflow \/ Resume
  BY <1>1, <1>3 DEF start_decision_workflow, Resume, JobsTyped
<1>4. ASSUME NEW w \in Workers, NEW k, Begin(w, k) PROVE JobsTyped'
  BY <1>2, <1>4 DEF Begin, JobsTyped, JobStatus
<1>5. ASSUME NEW w \in Workers, Commit(w) PROVE JobsTyped'
  <2>1. PICK K, k : jobs' = [WithJobs(K) EXCEPT ![k] = "SUCCEEDED"]
    BY <1>5 DEF Commit
  <2>2. QED
    BY <1>1, <1>2, <2>1 DEF JobStatus
<1>6. ASSUME NEW w \in Workers, Raises(w) \/ Conflicts(w) \/ Crash(w) PROVE JobsTyped'
  <2>1. PICK k, s : s \in JobStatus /\ jobs' = [jobs EXCEPT ![k] = s]
    BY <1>6 DEF Raises, Conflicts, Fails, Crash, JobStatus
  <2>2. QED
    BY <1>2, <2>1 DEF JobsTyped
<1>7. CASE UNCHANGED jobs
  BY <1>7 DEF JobsTyped
<1>8. QED
  BY <1>3, <1>4, <1>5, <1>6, <1>7 DEF DecisionNext, Owner, WorkerStep, decisionVars, RunFinishes,
     RunEnds, RunOrphaned, approve_decision_for_production

\* A commit leaves the candidate and the runs well-typed.
LEMMA CommitTyped ==
  ASSUME DataTyped, DecisionInv, NEW w \in Workers, Commit(w)
  PROVE  /\ runs' \in [Roles -> [n : Nat, last : RunResults]]
         /\ \A r \in Roles : runs'[r].last \in Outputs(r) \cup Pending \cup {"none", "unusable"}
         /\ candidate' \in [version : Nat, status : CandidateStatus, kind : Kinds]
<1>1. PICK plan : plan = tx[w].plan
  OBVIOUS
<1>2. PlanTyped(plan)
  BY <1>1 DEF DataTyped, Commit
<1> DEFINE appends == plan.candidate # "none"
<1>3. \A r \in Roles :
        runs'[r] \in {NoRun, [n |-> 1, last |-> "pending"], runs[r]}
                      \cup {[n |-> m, last |-> "pending"] : m \in Nat}
  <2> SUFFICES ASSUME NEW r \in Roles
               PROVE  runs'[r] \in {NoRun, [n |-> 1, last |-> "pending"], runs[r]}
                                    \cup {[n |-> m, last |-> "pending"] : m \in Nat}
    OBVIOUS
  <2>1. runs'[r] = IF appends /\ r = Chief THEN NoRun
                   ELSE IF appends /\ r \in Controllers THEN [n |-> 1, last |-> "pending"]
                   ELSE IF r \in DOMAIN plan.runs THEN [n |-> plan.runs[r], last |-> "pending"]
                   ELSE runs[r]
    BY <1>1 DEF Commit
  <2>2. r \in DOMAIN plan.runs => plan.runs[r] \in Nat
    BY <1>2 DEF PlanTyped
  <2>3. QED
    BY <2>1, <2>2
<1>4. \A r \in Roles : /\ runs'[r] \in [n : Nat, last : RunResults]
                       /\ runs'[r].last \in {"none", "pending", runs[r].last}
  <2>1. NoRun \in [n : Nat, last : RunResults] /\ NoRun.last = "none"
    BY DEF NoRun, RunResults
  <2>2. \A m \in Nat : [n |-> m, last |-> "pending"] \in [n : Nat, last : RunResults]
    BY DEF RunResults, Pending
  <2>3. \A r \in Roles : runs[r] \in [n : Nat, last : RunResults]
    BY DEF DataTyped
  <2>4. QED
    BY <1>3, <2>1, <2>2, <2>3
<1>5. DOMAIN runs' = Roles /\ runs' = [r \in Roles |-> runs'[r]]
  BY DEF Commit
<1>6. runs' \in [Roles -> [n : Nat, last : RunResults]]
  BY <1>4, <1>5
<1>7. \A r \in Roles : runs'[r].last \in Outputs(r) \cup Pending \cup {"none", "unusable"}
  BY <1>4 DEF DataTyped, Pending
<1>8. candidate' \in [version : Nat, status : CandidateStatus, kind : Kinds]
  <2>1. candidate' = IF appends
                     THEN [version |-> plan.version + 1, status |-> "UNDER_REVIEW",
                           kind |-> plan.candidate]
                     ELSE IF plan.judgement = "NONE" \/ candidate.version > plan.version THEN candidate
                     ELSE [candidate EXCEPT !.status = plan.judgement]
    BY <1>1 DEF Commit
  <2>2. candidate \in [version : Nat, status : CandidateStatus, kind : Kinds]
    BY DEF DataTyped
  <2>3. /\ plan.version \in Nat /\ plan.judgement \in CandidateStatus
        /\ appends => plan.candidate \in Kinds
    BY <1>2 DEF PlanTyped
  <2>4. "UNDER_REVIEW" \in CandidateStatus
    BY DEF CandidateStatus
  <2>5. QED
    BY <2>1, <2>2, <2>3, <2>4
<1>9. QED
  BY <1>6, <1>7, <1>8

LEMMA DataStep ==
  ASSUME DataTyped, DecisionInv, [DecisionNext]_decisionVars
  PROVE  DataTyped'
<1> DEFINE Rest ==
      /\ runs \in [Roles -> [n : Nat, last : RunResults]]
      /\ \A r \in Roles : runs[r].last \in Outputs(r) \cup Pending \cup {"none", "unusable"}
      /\ candidate \in [version : Nat, status : CandidateStatus, kind : Kinds]
    Plans == \A w \in Workers : tx[w].open => PlanTyped(tx[w].plan)
<1>1. JobsTyped'
  BY JobsTypedStep DEF DataTyped, JobsTyped, JobStatus
<1>2. Rest /\ Plans /\ DOMAIN tx = Workers /\ workflow \in WorkflowRows
  BY DEF DataTyped, DecisionInv
<1>3. CASE UNCHANGED <<runs, candidate, tx>>
  BY <1>1, <1>2, <1>3 DEF DataTyped, JobsTyped, JobStatus, PlanTyped
<1>4. ASSUME NEW r \in Roles, RunFinishes(r) \/ RunOrphaned(r) PROVE Rest' /\ Plans'
  <2>1. PICK result \in Outputs(r) \cup {"unusable", "orphaned"} :
          runs' = [runs EXCEPT ![r] = [n |-> runs[r].n, last |-> result]]
    BY <1>4 DEF RunFinishes, RunEnds, RunOrphaned
  <2>2. result \in RunResults /\ result \in Outputs(r) \cup Pending \cup {"none", "unusable"}
    BY OutputTypes DEF RunResults, Pending
  <2>3. runs[r].n \in Nat
    BY <1>2
  <2>4. UNCHANGED <<candidate, tx>>
    BY <1>4 DEF RunFinishes, RunEnds, RunOrphaned
  <2>5. PICK run : run = [n |-> runs[r].n, last |-> result]
    OBVIOUS
  <2>6. run \in [n : Nat, last : RunResults] /\ run.last = result
    BY <2>2, <2>3, <2>5
  <2>7. runs' = [runs EXCEPT ![r] = run]
    BY <2>1, <2>5
  <2>8. Rest'
    BY <1>2, <2>2, <2>4, <2>6, <2>7
  <2>9. QED
    BY <1>2, <2>4, <2>8 DEF PlanTyped
<1>5. ASSUME NEW w \in Workers, NEW k, Begin(w, k) PROVE Rest' /\ Plans'
  <2>1. PICK plan : plan = _advance_workflow(workflow)
    OBVIOUS
  <2>2. PlanTyped(plan)
    BY <1>2, <2>1, AdvanceTyped
  <2>3. PICK opened : /\ opened = [open |-> TRUE, key |-> k, seen |-> workflow, plan |-> plan]
                      /\ tx' = [tx EXCEPT ![w] = opened]
    BY <1>5, <2>1 DEF Begin
  <2>4. opened.plan = plan /\ tx'[w] = opened /\ \A v \in Workers : v # w => tx'[v] = tx[v]
    BY <1>2, <2>3
  <2>5. UNCHANGED <<runs, candidate>>
    BY <1>5 DEF Begin
  <2>6. QED
    BY <1>2, <2>2, <2>4, <2>5 DEF PlanTyped
<1>6. ASSUME NEW w \in Workers, Commit(w) \/ Raises(w) \/ Conflicts(w) \/ Crash(w)
      PROVE  Plans'
  <2>1. tx' = [tx EXCEPT ![w] = NoTx]
    BY <1>6 DEF Commit, Raises, Conflicts, Fails, Crash
  <2>2. ~tx'[w].open /\ \A v \in Workers : v # w => tx'[v] = tx[v]
    BY <1>2, <2>1 DEF NoTx
  <2>3. QED
    BY <1>2, <2>2 DEF PlanTyped
<1>7. ASSUME NEW w \in Workers, Commit(w) PROVE Rest'
  BY <1>7, CommitTyped
<1>8. ASSUME NEW w \in Workers, Raises(w) \/ Conflicts(w) \/ Crash(w) PROVE Rest'
  BY <1>2, <1>8 DEF Raises, Conflicts, Fails, Crash
<1>9. Rest' /\ Plans' => DataTyped'
  BY <1>1 DEF DataTyped, JobsTyped, JobStatus
<1> HIDE DEF Rest, Plans
<1>10. QED
  BY <1>3, <1>4, <1>5, <1>6, <1>7, <1>8, <1>9 DEF DecisionNext, Owner, WorkerStep, decisionVars,
     start_decision_workflow, Resume, approve_decision_for_production

LEMMA DataInvariant == DecisionSpec => []DataTyped
<1>1. DecisionInit => DataTyped
  BY DEF DecisionInit, DataTyped, NoRun, NoTx, RunResults, CandidateStatus, Kinds
<1>2. DataTyped /\ DecisionInv /\ [DecisionNext]_decisionVars => DataTyped'
  BY DataStep
<1>3. QED
  BY <1>1, <1>2, DecisionInvariant, PTL DEF DecisionSpec

\* The rows of decision_workflow.py keep their types, whatever overlaps: the plan
\* of every open advance is well-typed and is written column by column.
THEOREM DecisionTypes == DecisionSpec => []DecisionTypeOK
<1> DEFINE Flags == contributed \in BOOLEAN /\ overlapped \in BOOLEAN
<1>1. DecisionInit => Flags
  BY DEF DecisionInit
<1>2. Flags /\ [DecisionNext]_decisionVars => Flags'
  BY DEF DecisionNext, Owner, WorkerStep, decisionVars, start_decision_workflow, Resume,
     approve_decision_for_production, RunFinishes, RunEnds, RunOrphaned, Begin, Commit, Raises,
     Conflicts, Fails, Crash
<1>3. DataTyped /\ DecisionInv /\ Flags => DecisionTypeOK
  BY DEF DataTyped, DecisionInv, DecisionTypeOK
<1> HIDE DEF Flags
<1>4. QED
  BY <1>1, <1>2, <1>3, DataInvariant, DecisionInvariant, PTL DEF DecisionSpec
-----------------------------------------------------------------------------
\* A decision that no required controller objects to.
Reviewed(d) ==
  /\ DOMAIN d = {"from", "kind", "verdicts", "approved"}
  /\ d.kind \notin {"worth", "worthUnnoticed"}
  /\ \A c \in Controllers : d.verdicts[c] \in {"PASS", "WAIVED"}
  /\ d.verdicts[Constitutional] = "PASS"

\* A plan that decides has the reviews for it; one that leaves the row awaiting
\* its approval finds a decision or makes one; none approves.
PlanReviewed(row, p) ==
  /\ p.row.approval = row.approval
  /\ p.row.status = "APPROVED_FOR_PRODUCTION" => row.status = "APPROVED_FOR_PRODUCTION"
  /\ p.row.status = "AWAITING_DECISION_APPROVAL" =>
       row.status = "AWAITING_DECISION_APPROVAL" \/ row.final # 0 \/ p.decision # << >>
  /\ p.decision = << >> \/ Reviewed(p.decision[1])

\* PASS of governed_controller_outcome.
LEMMA PassIsReviewed ==
  ASSUME DataTyped, AllReady(Controllers), NEW verdicts,
         verdicts = [c \in Controllers |-> runs[c].last],
         governed_controller_outcome(candidate.kind, verdicts) = "PASS"
  PROVE  Reviewed([from |-> candidate.version, kind |-> candidate.kind,
                   verdicts |-> verdicts, approved |-> FALSE])
<1>1. \A c \in Controllers : verdicts[c] \in Outputs(c) /\ verdicts[c] \in Verdicts
  BY OutputTypes DEF AllReady, RunState, CanMaterialize
<1>2. \A c \in Controllers : verdicts[c] \in {verdicts[d] : d \in Controllers}
  OBVIOUS
<1> DEFINE given == {verdicts[c] : c \in Controllers}
<1>3. /\ "BLOCK" \notin given /\ "REVISE" \notin given /\ "CONDITIONS" \notin given
      /\ candidate.kind \in {"worth", "worthUnnoticed"} => verdicts[Constitutional] = "BLOCK"
  BY Zenon DEF governed_controller_outcome
<1> HIDE DEF given
<1>4. \A c \in Controllers : verdicts[c] \in {"PASS", "WAIVED"}
  BY <1>1, <1>2, <1>3 DEF Verdicts, given
<1>5. verdicts[Constitutional] = "PASS"
  BY <1>1, <1>4, OutputTypes, DecisionAssumption
<1>6. candidate.kind \notin {"worth", "worthUnnoticed"}
  BY <1>3, <1>5
<1>7. QED
  BY <1>4, <1>5, <1>6 DEF Reviewed

\* The plans that make no decision and move the row to any other status.
LEMMA UndecidedReviewed ==
  ASSUME NEW row \in WorkflowRows, NEW p, p.decision = << >>, p.row.approval = row.approval,
         \/ p.row.status = row.status
         \/ p.row.status \notin {"AWAITING_DECISION_APPROVAL", "APPROVED_FOR_PRODUCTION"}
  PROVE  PlanReviewed(row, p)
BY DEF PlanReviewed

LEMMA ToChiefReviewed ==
  ASSUME NEW row \in WorkflowRows
  PROVE  /\ IsPlan(ToChief(row)) /\ ToChief(row).decision = << >>
         /\ ToChief(row).row.approval = row.approval
         /\ \/ ToChief(row).row.status = row.status
            \/ ToChief(row).row.status = "CHIEF_RUNNING"
<1>1. PICK next : next = [row EXCEPT !.status = "CHIEF_RUNNING"]
  OBVIOUS
<1>2. next.status = "CHIEF_RUNNING" /\ next.approval = row.approval
  BY <1>1 DEF WorkflowRows
<1>3. PICK key : ToChief(row) = Raise(row) \/ ToChief(row) = Plan(next, {Chief}, key)
  BY <1>1, ToChiefCases
<1>4. QED
  BY <1>2, <1>3, RaiseFields, PlanFields

LEMMA AdvanceReviewed ==
  ASSUME DataTyped, NEW row \in WorkflowRows
  PROVE  PlanReviewed(row, _advance_workflow(row))
<1> DEFINE p == _advance_workflow(row)
           verdicts == [c \in Controllers |-> runs[c].last]
<1>1. ASSUME NEW status \in Status PROVE [row EXCEPT !.status = status].approval = row.approval
                                         /\ [row EXCEPT !.status = status].status = status
  BY DEF WorkflowRows
<1>2. PlanReviewed(row, Raise(row)) /\ PlanReviewed(row, Stop(row, "NONE"))
  BY RaiseFields, StopFields, UndecidedReviewed
<1>3. ASSUME NEW R, NEW key PROVE PlanReviewed(row, Plan(row, R, key))
  BY PlanFields, UndecidedReviewed
<1>4. ASSUME NEW status \in Status \ {"AWAITING_DECISION_APPROVAL", "APPROVED_FOR_PRODUCTION"},
             NEW R, NEW key, NEW judgement
      PROVE  /\ PlanReviewed(row, Plan([row EXCEPT !.status = status], R, key))
             /\ PlanReviewed(row, Stop([row EXCEPT !.status = status], judgement))
  <2>1. PICK next : next = [row EXCEPT !.status = status]
    OBVIOUS
  <2>2. next.approval = row.approval /\ next.status = status
    BY <2>1 DEF WorkflowRows
  <2>3. PlanReviewed(row, Plan(next, R, key)) /\ PlanReviewed(row, Stop(next, judgement))
    BY <2>2, PlanFields, StopFields, UndecidedReviewed
  <2>4. QED
    BY <2>1, <2>3
<1>5. PlanReviewed(row, [ToChief(row) EXCEPT !.contribute = ~contributed])
  <2>1. PICK q : q = ToChief(row)
    OBVIOUS
  <2>2. /\ IsPlan(q) /\ q.decision = << >> /\ q.row.approval = row.approval
        /\ q.row.status = row.status \/ q.row.status = "CHIEF_RUNNING"
    BY <2>1, ToChiefReviewed
  <2>3. PICK z : z = [q EXCEPT !.contribute = ~contributed]
    OBVIOUS
  <2>4. z.row = q.row /\ z.decision = q.decision
    BY <2>2, <2>3 DEF IsPlan
  <2>5. PlanReviewed(row, z)
    BY <2>2, <2>4, UndecidedReviewed
  <2>6. QED
    BY <2>1, <2>3, <2>5
<1>6. ASSUME NEW key
      PROVE  PlanReviewed(row, [Plan([row EXCEPT !.status = "CONTROLLERS_RUNNING"], {}, key)
                                EXCEPT !.candidate = runs[Chief].last])
  <2>1. PICK next : next = [row EXCEPT !.status = "CONTROLLERS_RUNNING"]
    OBVIOUS
  <2>2. next.approval = row.approval /\ next.status = "CONTROLLERS_RUNNING"
    BY <2>1 DEF WorkflowRows
  <2>3. PICK q : q = Plan(next, {}, key)
    OBVIOUS
  <2>4. IsPlan(q) /\ q.row = next /\ q.decision = << >>
    BY <2>3, PlanFields
  <2>5. PICK z : z = [q EXCEPT !.candidate = runs[Chief].last]
    OBVIOUS
  <2>6. z.row = q.row /\ z.decision = q.decision
    BY <2>4, <2>5 DEF IsPlan
  <2>7. PlanReviewed(row, z)
    BY <2>2, <2>4, <2>6, UndecidedReviewed
  <2>8. QED
    BY <2>1, <2>3, <2>5, <2>7
<1>7. PlanReviewed(row, Revise(row))
  <2>1. PICK next : next = [row EXCEPT !.rev = @ + 1]
    OBVIOUS
  <2>2. next \in WorkflowRows /\ next.status = row.status /\ next.approval = row.approval
    BY <2>1 DEF WorkflowRows
  <2>3. PICK q : q = ToChief(next)
    OBVIOUS
  <2>4. /\ IsPlan(q) /\ q.decision = << >> /\ q.row.approval = row.approval
        /\ q.row.status = row.status \/ q.row.status = "CHIEF_RUNNING"
    BY <2>2, <2>3, ToChiefReviewed
  <2>5. PICK z : z = [q EXCEPT !.judgement = "REVISION_REQUIRED"]
    OBVIOUS
  <2>6. z.row = q.row /\ z.decision = q.decision
    BY <2>4, <2>5 DEF IsPlan
  <2>7. PlanReviewed(row, z)
    BY <2>4, <2>6, UndecidedReviewed
  <2>8. PlanReviewed(row, Stop([row EXCEPT !.status = "ESCALATED"], "REVISION_REQUIRED"))
    BY <1>4 DEF Status
  <2>9. Revise(row) = Stop([row EXCEPT !.status = "ESCALATED"], "REVISION_REQUIRED") \/ Revise(row) = z
    BY <2>1, <2>3, <2>5, Zenon DEF Revise
  <2>10. QED
    BY <2>7, <2>8, <2>9
<1>8. ASSUME AllReady(Controllers), governed_controller_outcome(candidate.kind, verdicts) = "PASS"
      PROVE  PlanReviewed(row, Accept(row, verdicts))
  <2>1. PICK next : next = [row EXCEPT !.status = "AWAITING_DECISION_APPROVAL"]
    OBVIOUS
  <2>2. next.approval = row.approval /\ next.status = "AWAITING_DECISION_APPROVAL"
    BY <2>1 DEF WorkflowRows
  <2>3. PICK d : d = [from |-> candidate.version, kind |-> candidate.kind,
                      verdicts |-> verdicts, approved |-> FALSE]
    OBVIOUS
  <2>4. Reviewed(d)
    BY <1>8, <2>3, PassIsReviewed
  <2>5. PICK q : q = Stop(next, "MATERIALIZED")
    OBVIOUS
  <2>6. IsPlan(q) /\ q.row = next
    BY <2>5, StopFields
  <2>7. PICK z : z = [q EXCEPT !.decision = <<d>>]
    OBVIOUS
  <2>8. z.row = next /\ z.decision = <<d>>
    BY <2>6, <2>7 DEF IsPlan
  <2>9. z.decision # << >> /\ z.decision[1] = d
    BY <2>8
  <2>10. PlanReviewed(row, z)
    BY <2>2, <2>4, <2>8, <2>9 DEF PlanReviewed
  <2>11. ASSUME row.final # 0 PROVE PlanReviewed(row, Stop(next, "ACCEPTED"))
    BY <2>2, <2>11, StopFields DEF PlanReviewed
  <2>12. \/ row.final # 0 /\ Accept(row, verdicts) = Stop(next, "ACCEPTED")
         \/ Accept(row, verdicts) = Raise(row) \/ Accept(row, verdicts) = z
    BY <2>1, <2>3, <2>5, <2>7, Zenon DEF Accept
  <2>13. QED
    BY <1>2, <2>10, <2>11, <2>12
<1>9. /\ "SPECIALISTS_RUNNING" \in Status \ {"AWAITING_DECISION_APPROVAL", "APPROVED_FOR_PRODUCTION"}
      /\ "BLOCKED" \in Status \ {"AWAITING_DECISION_APPROVAL", "APPROVED_FOR_PRODUCTION"}
  BY DEF Status
<1>10. \/ p = Raise(row) \/ p = Stop(row, "NONE")
       \/ \E R, key : p = Plan(row, R, key)
       \/ \E key : p = Plan([row EXCEPT !.status = "SPECIALISTS_RUNNING"], Specialists, key)
       \/ p = [ToChief(row) EXCEPT !.contribute = ~contributed]
       \/ \E key : p = [Plan([row EXCEPT !.status = "CONTROLLERS_RUNNING"], {}, key)
                        EXCEPT !.candidate = runs[Chief].last]
       \/ p = Stop([row EXCEPT !.status = "BLOCKED"], "BLOCKED") \/ p = Revise(row)
       \/ /\ AllReady(Controllers) /\ governed_controller_outcome(candidate.kind, verdicts) = "PASS"
          /\ p = Accept(row, verdicts)
  BY AdvanceCases, Zenon
<1> HIDE DEF p, verdicts
<1>11. PlanReviewed(row, p)
  <2>1. ASSUME NEW key, p = Plan([row EXCEPT !.status = "SPECIALISTS_RUNNING"], Specialists, key)
        PROVE  PlanReviewed(row, p)
    BY <1>4, <1>9, <2>1, Zenon
  <2>2. CASE p = Stop([row EXCEPT !.status = "BLOCKED"], "BLOCKED")
    BY <1>4, <1>9, <2>2, Zenon
  <2>3. CASE p = [ToChief(row) EXCEPT !.contribute = ~contributed]
    BY <1>5, <2>3, Zenon
  <2>4. ASSUME NEW key, p = [Plan([row EXCEPT !.status = "CONTROLLERS_RUNNING"], {}, key)
                             EXCEPT !.candidate = runs[Chief].last]
        PROVE  PlanReviewed(row, p)
    BY <1>6, <2>4, Zenon
  <2>5. CASE p = Raise(row) \/ p = Stop(row, "NONE") \/ p = Revise(row)
             \/ \E R, key : p = Plan(row, R, key)
    BY <1>2, <1>3, <1>7, <2>5, Zenon
  <2>6. CASE /\ AllReady(Controllers) /\ governed_controller_outcome(candidate.kind, verdicts) = "PASS"
             /\ p = Accept(row, verdicts)
    BY <1>8, <2>6, Zenon
  <2>7. QED
    BY <1>10, <2>1, <2>2, <2>3, <2>4, <2>5, <2>6, Zenon
<1>12. QED
  BY <1>11 DEF p
\* Why DecidedAfterReview holds even when advances overlap: a decision is made
\* with its reviews, the row's final decision and approval are never taken back,
\* and a transaction that relies on a final decision finds one when it commits.
ReviewInv ==
  /\ \A i \in 1..Len(decisions) : Reviewed(decisions[i])
  /\ workflow.final \in 0..Len(decisions)
  /\ workflow.approval \in 0..Len(decisions)
  /\ workflow.status \in {"AWAITING_DECISION_APPROVAL", "APPROVED_FOR_PRODUCTION"} => workflow.final # 0
  /\ workflow.status = "APPROVED_FOR_PRODUCTION" => workflow.approval # 0
  /\ workflow.approval # 0 => decisions[workflow.approval].approved
  /\ overlapped \/ workflow.approval \in {0, workflow.final}
  /\ \A w \in Workers : tx[w].open =>
       /\ PlanReviewed(tx[w].seen, tx[w].plan)
       /\ tx[w].seen.final # 0 => workflow.final # 0

LEMMA CommitReviewed ==
  ASSUME IsSequence, DataTyped, DecisionInv, ReviewInv, NEW w \in Workers, Commit(w)
  PROVE  ReviewInv'
<1>1. PICK seen, plan : seen = tx[w].seen /\ plan = tx[w].plan
  OBVIOUS
<1>2. /\ seen \in WorkflowRows /\ GoodPlan(seen, plan) /\ PlanReviewed(seen, plan)
      /\ seen.final # 0 => workflow.final # 0
  BY <1>1 DEF DecisionInv, ReviewInv, Commit
<1>3. PICK n \in Nat : n = Len(decisions)
  BY DEF IsSequence
<1>4. plan.decision = << >> \/ plan.decision = <<plan.decision[1]>>
  BY <1>2 DEF GoodPlan
<1>5. decisions' = decisions \o plan.decision
  BY <1>1 DEF Commit
<1>6. PICK S : decisions \in Seq(S)
  BY DEF IsSequence
<1>7. CASE plan.decision = << >>
  <2>1. decisions' = decisions
    BY <1>5, <1>6, <1>7
  <2>2. workflow'.final = workflow.final
    BY <1>1, <1>7, CommitRow
  <2>3. workflow'.approval = workflow.approval
    BY <1>1, <1>2, CommitColumns DEF PlanReviewed
  <2>4. workflow'.status = IF plan.row.status # seen.status THEN plan.row.status ELSE workflow.status
    BY <1>1, CommitColumns
  <2>5. workflow'.status = "APPROVED_FOR_PRODUCTION" => workflow.status = "APPROVED_FOR_PRODUCTION"
    BY <1>2, <2>4 DEF PlanReviewed
  <2>6. workflow'.status = "AWAITING_DECISION_APPROVAL" =>
          workflow.status = "AWAITING_DECISION_APPROVAL" \/ workflow.final # 0
    BY <1>2, <1>7, <2>4 DEF PlanReviewed
  <2>7. tx' = [tx EXCEPT ![w] = NoTx] /\ DOMAIN tx = Workers
    BY DEF Commit, DecisionInv
  <2>8. ~tx'[w].open /\ \A v \in Workers : v # w => tx'[v] = tx[v]
    BY <2>7 DEF NoTx
  <2>9. ASSUME NEW v \in Workers, tx'[v].open
        PROVE  PlanReviewed(tx'[v].seen, tx'[v].plan) /\ (tx'[v].seen.final # 0 => workflow'.final # 0)
    BY <2>2, <2>8, <2>9 DEF ReviewInv
  <2>10. overlapped' \/ workflow'.approval \in {0, workflow'.final}
    BY <2>2, <2>3 DEF ReviewInv, Commit
  <2>11. QED
    BY <2>1, <2>2, <2>3, <2>5, <2>6, <2>9, <2>10 DEF ReviewInv
<1>8. CASE plan.decision # << >>
  <2>1. PICK d : plan.decision = <<d>> /\ plan.decision[1] = d
    BY <1>4, <1>8
  <2>2. Reviewed(d) /\ seen.final = 0
    BY <1>2, <1>8, <2>1 DEF PlanReviewed, GoodPlan
  <2>3. /\ Len(decisions') = n + 1 /\ decisions'[n + 1] = d
        /\ \A i \in 1..n : decisions'[i] = decisions[i]
    <3>1. decisions' = Append(decisions, d)
      BY <1>5, <1>6, <2>1
    <3>2. QED
      BY <1>3, <1>6, <3>1
  <2>4. workflow'.final = n + 1
    BY <1>1, <1>3, <1>8, <2>2, CommitRow
  <2>5. workflow'.approval = workflow.approval
    BY <1>1, <1>2, CommitColumns DEF PlanReviewed
  <2>6. workflow'.status = IF plan.row.status # seen.status THEN plan.row.status ELSE workflow.status
    BY <1>1, CommitColumns
  <2>7. workflow'.status = "APPROVED_FOR_PRODUCTION" => workflow.status = "APPROVED_FOR_PRODUCTION"
    BY <1>2, <2>6 DEF PlanReviewed
  <2>8. tx' = [tx EXCEPT ![w] = NoTx] /\ DOMAIN tx = Workers
    BY DEF Commit, DecisionInv
  <2>9. ~tx'[w].open /\ \A v \in Workers : v # w => tx'[v] = tx[v]
    BY <2>8 DEF NoTx
  <2>10. ASSUME NEW v \in Workers, tx'[v].open PROVE PlanReviewed(tx'[v].seen, tx'[v].plan)
    BY <2>9, <2>10 DEF ReviewInv
  <2>11. \A i \in 1..Len(decisions') : Reviewed(decisions'[i])
    <3>1. \A i \in 1..n : Reviewed(decisions'[i])
      BY <1>3, <2>3 DEF ReviewInv
    <3>2. \A i \in 1..(n + 1) : i \in 1..n \/ i = n + 1
      OBVIOUS
    <3>3. QED
      BY <2>2, <2>3, <3>1, <3>2
  <2>12. workflow'.approval \in 0..Len(decisions') /\ workflow'.final \in 0..Len(decisions')
         /\ workflow'.final # 0
    BY <1>3, <2>3, <2>4, <2>5 DEF ReviewInv
  <2>13. ASSUME workflow'.approval # 0 PROVE decisions'[workflow'.approval].approved
    <3>1. workflow.approval \in 1..n
      BY <1>3, <2>5, <2>13 DEF ReviewInv
    <3>2. decisions'[workflow'.approval] = decisions[workflow.approval]
      BY <2>3, <2>5, <3>1
    <3>3. QED
      BY <2>5, <2>13, <3>2 DEF ReviewInv
  <2>14. workflow'.status = "APPROVED_FOR_PRODUCTION" => workflow'.approval # 0
    BY <2>5, <2>7 DEF ReviewInv
  <2>15. overlapped' \/ workflow'.approval \in {0, workflow'.final}
    <3>1. CASE overlapped
      BY <3>1 DEF Commit
    <3>2. CASE ~overlapped
      <4>1. tx[w].open /\ FreshRow(seen)
        BY <1>1, <3>2 DEF Commit, DecisionInv
      <4>2. seen.status \in RunningStatus
        BY <1>2, <1>8 DEF GoodPlan
      <4>3. workflow.final = 0
        BY <2>2, <4>1, <4>2 DEF FreshRow, RunningStatus
      <4>4. QED
        BY <2>5, <3>2, <4>3 DEF ReviewInv
    <3>3. QED
      BY <3>1, <3>2
  <2>16. QED
    BY <2>10, <2>11, <2>12, <2>13, <2>14, <2>15 DEF ReviewInv
<1>9. QED
  BY <1>7, <1>8

LEMMA ApproveReviewed ==
  ASSUME IsSequence, DecisionInv, ReviewInv, approve_decision_for_production
  PROVE  ReviewInv'
<1>1. PICK n \in Nat : n = Len(decisions)
  BY DEF IsSequence
<1>2. PICK S : decisions \in Seq(S)
  BY DEF IsSequence
<1>3. PICK f \in 1..n : f = workflow.final
  BY <1>1 DEF approve_decision_for_production, ReviewInv
<1>4. PICK d : d = [decisions[f] EXCEPT !.approved = TRUE]
  OBVIOUS
<1>5. decisions' = [decisions EXCEPT ![f] = d]
  BY <1>3, <1>4 DEF approve_decision_for_production
<1>6. Reviewed(decisions[f])
  BY <1>1, <1>3 DEF ReviewInv
<1>7. Reviewed(d)
  BY <1>4, <1>6 DEF Reviewed
<1>8. d.approved
  <2>1. "approved" \in DOMAIN decisions[f]
    BY <1>6 DEF Reviewed
  <2>2. QED
    BY <1>4, <2>1, Zenon
<1>9. /\ Len(decisions') = n /\ decisions'[f] = d
      /\ \A i \in 1..n : i # f => decisions'[i] = decisions[i]
  BY <1>1, <1>2, <1>5
<1>10. /\ workflow'.status = "APPROVED_FOR_PRODUCTION" /\ workflow'.approval = f
       /\ workflow'.final = f
  BY <1>3 DEF approve_decision_for_production, DecisionInv, WorkflowRows
<1>11. \A i \in 1..Len(decisions') : Reviewed(decisions'[i])
  BY <1>1, <1>7, <1>9 DEF ReviewInv
<1>12. decisions'[workflow'.approval].approved
  BY <1>8, <1>9, <1>10
<1>13. workflow'.final \in 0..Len(decisions') /\ workflow'.approval \in 0..Len(decisions')
       /\ workflow'.final # 0 /\ workflow'.approval # 0
  BY <1>9, <1>10
<1>14. tx' = tx
  BY DEF approve_decision_for_production
<1>15. \A w \in Workers : tx'[w].open => PlanReviewed(tx'[w].seen, tx'[w].plan)
  BY <1>14 DEF ReviewInv
<1>16. QED
  BY <1>10, <1>11, <1>12, <1>13, <1>15 DEF ReviewInv

LEMMA ReviewStep ==
  ASSUME IsSequence, DataTyped, DecisionInv, ReviewInv, [DecisionNext]_decisionVars
  PROVE  ReviewInv'
<1>1. CASE UNCHANGED <<workflow, decisions, tx, overlapped>>
  BY <1>1 DEF ReviewInv, PlanReviewed
<1>2. CASE start_decision_workflow
  <2>1. /\ workflow'.status = "SNAPSHOT_READY" /\ workflow'.final = workflow.final
        /\ workflow'.approval = workflow.approval /\ UNCHANGED <<decisions, tx, overlapped>>
    BY <1>2 DEF start_decision_workflow, DecisionInv, WorkflowRows
  <2>2. QED
    BY <2>1 DEF ReviewInv, PlanReviewed
<1>3. CASE approve_decision_for_production
  BY <1>3, ApproveReviewed
<1>4. ASSUME NEW w \in Workers, NEW k, Begin(w, k) PROVE ReviewInv'
  <2>1. PICK plan : plan = _advance_workflow(workflow)
    OBVIOUS
  <2>2. PlanReviewed(workflow, plan)
    BY <2>1, AdvanceReviewed DEF DecisionInv
  <2>3. PICK opened : /\ opened = [open |-> TRUE, key |-> k, seen |-> workflow, plan |-> plan]
                      /\ tx' = [tx EXCEPT ![w] = opened]
    BY <1>4, <2>1 DEF Begin
  <2>4. /\ opened.plan = plan /\ opened.seen = workflow /\ tx'[w] = opened
        /\ \A v \in Workers : v # w => tx'[v] = tx[v]
    BY <2>3 DEF DecisionInv
  <2>5. UNCHANGED <<workflow, decisions>> /\ (overlapped => overlapped')
    BY <1>4 DEF Begin
  <2>6. ASSUME NEW v \in Workers, tx'[v].open
        PROVE  PlanReviewed(tx'[v].seen, tx'[v].plan) /\ (tx'[v].seen.final # 0 => workflow'.final # 0)
    <3>1. CASE v = w
      BY <2>2, <2>4, <2>5, <3>1
    <3>2. CASE v # w
      BY <2>4, <2>5, <2>6, <3>2 DEF ReviewInv
    <3>3. QED
      BY <3>1, <3>2
  <2>7. QED
    BY <2>5, <2>6 DEF ReviewInv
<1>5. ASSUME NEW w \in Workers, Commit(w) PROVE ReviewInv'
  BY <1>5, CommitReviewed
<1>6. ASSUME NEW w \in Workers, Raises(w) \/ Conflicts(w) \/ Crash(w) PROVE ReviewInv'
  <2>1. /\ tx' = [tx EXCEPT ![w] = NoTx] /\ DOMAIN tx = Workers
        /\ UNCHANGED <<workflow, decisions, overlapped>>
    BY <1>6 DEF Raises, Conflicts, Fails, Crash, DecisionInv
  <2>2. ~tx'[w].open /\ \A v \in Workers : v # w => tx'[v] = tx[v]
    BY <2>1 DEF NoTx
  <2>3. ASSUME NEW v \in Workers, tx'[v].open
        PROVE  PlanReviewed(tx'[v].seen, tx'[v].plan) /\ (tx'[v].seen.final # 0 => workflow'.final # 0)
    BY <2>1, <2>2, <2>3 DEF ReviewInv
  <2>4. QED
    BY <2>1, <2>3 DEF ReviewInv
<1>7. QED
  BY <1>1, <1>2, <1>3, <1>4, <1>5, <1>6 DEF DecisionNext, Owner, WorkerStep, decisionVars, Resume,
     RunFinishes, RunEnds, RunOrphaned

\* Every decision was made of a candidate that each required controller reviewed
\* and none objects to, a workflow that awaits approval has such a decision, and
\* an approval is of a decision that is marked approved: also when two advances
\* overlap; of the final one unless they do (_materialize_final_decision, approve_decision_for_production).
THEOREM DecidedOnReviews == DecisionSpec => []DecidedAfterReview
<1>1. DecisionInit => ReviewInv
  BY DEF DecisionInit, ReviewInv, NoTx
<1>2. IsSequence /\ DataTyped /\ DecisionInv /\ ReviewInv /\ [DecisionNext]_decisionVars => ReviewInv'
  BY ReviewStep
<1>3. IsSequence /\ ReviewInv => DecidedAfterReview
  <2> SUFFICES ASSUME IsSequence, ReviewInv PROVE DecidedAfterReview
    OBVIOUS
  <2>1. PICK n \in Nat : n = Len(decisions)
    BY DEF IsSequence
  <2>2. workflow.status \in {"AWAITING_DECISION_APPROVAL", "APPROVED_FOR_PRODUCTION"}
          => workflow.final \in 1..Len(decisions)
    BY <2>1 DEF ReviewInv
  <2>3. QED
    BY <2>2 DEF ReviewInv, Reviewed, DecidedAfterReview
<1>4. QED
  BY <1>1, <1>2, <1>3, DataInvariant, DecisionInvariant, PTL DEF DecisionSpec
-----------------------------------------------------------------------------
\* The candidates a workflow may have by the time its row is this: one for each
\* revision, and the first once it is with the controllers.
Rounds(row) ==
  IF row.status \in {"NONE", "SNAPSHOT_READY", "SPECIALISTS_RUNNING", "CHIEF_RUNNING"}
  THEN row.rev ELSE row.rev + 1

\* A plan that adds a candidate makes room for it, no plan takes room away, and
\* none counts beyond the limit.
PlanRounds(row, p) ==
  /\ Rounds(p.row) >= Rounds(row)
  /\ p.candidate # "none" => row.status = "CHIEF_RUNNING" /\ Rounds(p.row) >= Rounds(row) + 1
  /\ row.rev <= MaxRounds => p.row.rev <= MaxRounds

LEMMA RoundsTyped == ASSUME NEW row \in WorkflowRows PROVE Rounds(row) \in Nat
BY DEF Rounds, WorkflowRows

\* A plan that adds no candidate and leaves the rounds as they are.
LEMMA SameRounds ==
  ASSUME NEW row \in WorkflowRows, NEW p, p.candidate = "none", Rounds(p.row) = Rounds(row),
         row.rev <= MaxRounds => p.row.rev <= MaxRounds
  PROVE  PlanRounds(row, p)
BY RoundsTyped DEF PlanRounds

LEMMA ReviseRounds ==
  ASSUME NEW row \in WorkflowRows, row.status = "CONTROLLERS_RUNNING"
  PROVE  PlanRounds(row, Revise(row))
<1>1. row.rev \in Nat /\ MaxRounds \in Nat /\ Rounds(row) = row.rev + 1
  BY DecisionAssumption DEF WorkflowRows, Rounds
<1>2. PICK escalated : escalated = [row EXCEPT !.status = "ESCALATED"]
  OBVIOUS
<1>3. Rounds(escalated) = row.rev + 1 /\ escalated.rev = row.rev
  BY <1>2 DEF WorkflowRows, Rounds
<1>4. PlanRounds(row, Stop(escalated, "REVISION_REQUIRED"))
  BY <1>1, <1>3, StopFields, SameRounds
<1>5. PICK next : next = [row EXCEPT !.rev = @ + 1]
  OBVIOUS
<1>6. next \in WorkflowRows /\ next.status = row.status /\ next.rev = row.rev + 1
  BY <1>5 DEF WorkflowRows
<1>7. PICK chief : chief = [next EXCEPT !.status = "CHIEF_RUNNING"]
  OBVIOUS
<1>8. chief.status = "CHIEF_RUNNING" /\ chief.rev = row.rev + 1
  BY <1>6, <1>7 DEF WorkflowRows
<1>9. PICK q : q = ToChief(next)
  OBVIOUS
<1>10. IsPlan(q) /\ q.candidate = "none" /\ (q.row = next \/ q.row = chief)
  <2>1. PICK key : q = Raise(next) \/ q = Plan(chief, {Chief}, key)
    BY <1>7, <1>9, ToChiefCases
  <2>2. QED
    BY <2>1, RaiseFields, PlanFields
<1>11. PICK z : z = [q EXCEPT !.judgement = "REVISION_REQUIRED"]
  OBVIOUS
<1>12. z.row = q.row /\ z.candidate = "none"
  BY <1>10, <1>11 DEF IsPlan
<1>13. Rounds(next) = row.rev + 2 /\ Rounds(chief) = row.rev + 1
  BY <1>1, <1>6, <1>8 DEF Rounds
<1>14. row.rev < MaxRounds => PlanRounds(row, z)
  BY <1>1, <1>6, <1>8, <1>10, <1>12, <1>13 DEF PlanRounds
<1>15. \/ Revise(row) = Stop(escalated, "REVISION_REQUIRED")
       \/ ~(row.rev >= MaxRounds) /\ Revise(row) = z
  BY <1>2, <1>5, <1>9, <1>11, Zenon DEF Revise
<1>16. ~(row.rev >= MaxRounds) => row.rev < MaxRounds
  BY <1>1
<1>17. QED
  BY <1>4, <1>14, <1>15, <1>16

\* Every plan _advance_workflow makes keeps within the rounds.
LEMMA AdvanceRounds ==
  ASSUME NEW row \in WorkflowRows
  PROVE  PlanRounds(row, _advance_workflow(row))
<1> DEFINE p == _advance_workflow(row)
           verdicts == [c \in Controllers |-> runs[c].last]
<1>1. PlanRounds(row, Raise(row)) /\ PlanRounds(row, Stop(row, "NONE"))
  BY RaiseFields, StopFields, SameRounds
<1>2. ASSUME NEW R, NEW key PROVE PlanRounds(row, Plan(row, R, key))
  BY PlanFields, SameRounds
<1>3. ASSUME row.status = "SNAPSHOT_READY", NEW key
      PROVE  PlanRounds(row, Plan([row EXCEPT !.status = "SPECIALISTS_RUNNING"], Specialists, key))
  <2>1. PICK next : next = [row EXCEPT !.status = "SPECIALISTS_RUNNING"]
    OBVIOUS
  <2>2. next.rev = row.rev /\ Rounds(next) = Rounds(row)
    BY <1>3, <2>1 DEF WorkflowRows, Rounds
  <2>3. PlanRounds(row, Plan(next, Specialists, key))
    BY <2>2, PlanFields, SameRounds
  <2>4. QED
    BY <2>1, <2>3
<1>4. ASSUME row.status = "SPECIALISTS_RUNNING"
      PROVE  PlanRounds(row, [ToChief(row) EXCEPT !.contribute = ~contributed])
  <2>1. PICK next : next = [row EXCEPT !.status = "CHIEF_RUNNING"]
    OBVIOUS
  <2>2. next.rev = row.rev /\ Rounds(next) = Rounds(row)
    BY <1>4, <2>1 DEF WorkflowRows, Rounds
  <2>3. PICK q : q = ToChief(row)
    OBVIOUS
  <2>4. PICK key : q = Raise(row) \/ q = Plan(next, {Chief}, key)
    BY <2>1, <2>3, ToChiefCases
  <2>5. IsPlan(q) /\ q.candidate = "none" /\ (q.row = row \/ q.row = next)
    BY <2>4, RaiseFields, PlanFields
  <2>6. PICK z : z = [q EXCEPT !.contribute = ~contributed]
    OBVIOUS
  <2>7. z.row = q.row /\ z.candidate = "none"
    BY <2>5, <2>6 DEF IsPlan
  <2>8. PlanRounds(row, z)
    BY <2>2, <2>5, <2>7, SameRounds
  <2>9. QED
    BY <2>3, <2>6, <2>8
<1>5. ASSUME row.status = "CHIEF_RUNNING", NEW key
      PROVE  PlanRounds(row, [Plan([row EXCEPT !.status = "CONTROLLERS_RUNNING"], {}, key)
                              EXCEPT !.candidate = runs[Chief].last])
  <2>1. PICK next : next = [row EXCEPT !.status = "CONTROLLERS_RUNNING"]
    OBVIOUS
  <2>2. next.rev = row.rev /\ Rounds(next) = Rounds(row) + 1 /\ Rounds(row) \in Nat
    BY <1>5, <2>1, RoundsTyped DEF WorkflowRows, Rounds
  <2>3. PICK q : q = Plan(next, {}, key)
    OBVIOUS
  <2>4. IsPlan(q) /\ q.row = next
    BY <2>3, PlanFields
  <2>5. PICK z : z = [q EXCEPT !.candidate = runs[Chief].last]
    OBVIOUS
  <2>6. z.row = next
    BY <2>4, <2>5 DEF IsPlan
  <2>7. PlanRounds(row, z)
    BY <1>5, <2>2, <2>6 DEF PlanRounds
  <2>8. QED
    BY <2>1, <2>3, <2>5, <2>7
<1>6. ASSUME row.status = "CONTROLLERS_RUNNING"
      PROVE  PlanRounds(row, Stop([row EXCEPT !.status = "BLOCKED"], "BLOCKED"))
  <2>1. PICK next : next = [row EXCEPT !.status = "BLOCKED"]
    OBVIOUS
  <2>2. next.rev = row.rev /\ Rounds(next) = Rounds(row)
    BY <1>6, <2>1 DEF WorkflowRows, Rounds
  <2>3. PlanRounds(row, Stop(next, "BLOCKED"))
    BY <2>2, StopFields, SameRounds
  <2>4. QED
    BY <2>1, <2>3
<1>7. ASSUME row.status = "CONTROLLERS_RUNNING" PROVE PlanRounds(row, Accept(row, verdicts))
  <2>1. PICK next : next = [row EXCEPT !.status = "AWAITING_DECISION_APPROVAL"]
    OBVIOUS
  <2>2. next.rev = row.rev /\ Rounds(next) = Rounds(row)
    BY <1>7, <2>1 DEF WorkflowRows, Rounds
  <2>3. PICK d : d = <<[from |-> candidate.version, kind |-> candidate.kind,
                        verdicts |-> verdicts, approved |-> FALSE]>>
    OBVIOUS
  <2>4. PICK q : q = Stop(next, "MATERIALIZED")
    OBVIOUS
  <2>5. IsPlan(q) /\ q.row = next /\ q.candidate = "none"
    BY <2>4, StopFields
  <2>6. PICK z : z = [q EXCEPT !.decision = d]
    OBVIOUS
  <2>7. z.row = next /\ z.candidate = "none"
    BY <2>5, <2>6 DEF IsPlan
  <2>8. PlanRounds(row, z) /\ PlanRounds(row, Stop(next, "ACCEPTED"))
    BY <2>2, <2>7, StopFields, SameRounds
  <2>9. Accept(row, verdicts) = Stop(next, "ACCEPTED") \/ Accept(row, verdicts) = Raise(row)
          \/ Accept(row, verdicts) = z
    BY <2>1, <2>3, <2>4, <2>6, Zenon DEF Accept
  <2>10. QED
    BY <1>1, <2>8, <2>9
<1>8. \/ p = Raise(row) \/ p = Stop(row, "NONE")
      \/ \E R, key : p = Plan(row, R, key)
      \/ /\ row.status = "SNAPSHOT_READY"
         /\ \E key : p = Plan([row EXCEPT !.status = "SPECIALISTS_RUNNING"], Specialists, key)
      \/ /\ row.status = "SPECIALISTS_RUNNING"
         /\ p = [ToChief(row) EXCEPT !.contribute = ~contributed]
      \/ /\ row.status = "CHIEF_RUNNING"
         /\ \E key : p = [Plan([row EXCEPT !.status = "CONTROLLERS_RUNNING"], {}, key)
                          EXCEPT !.candidate = runs[Chief].last]
      \/ /\ row.status = "CONTROLLERS_RUNNING"
         /\ \/ p = Stop([row EXCEPT !.status = "BLOCKED"], "BLOCKED")
            \/ p = Revise(row)
            \/ p = Accept(row, verdicts)
  BY AdvanceCases, Zenon
<1> HIDE DEF p, verdicts
<1>9. PlanRounds(row, p)
  <2>1. CASE /\ row.status = "SNAPSHOT_READY"
             /\ \E key : p = Plan([row EXCEPT !.status = "SPECIALISTS_RUNNING"], Specialists, key)
    BY <1>3, <2>1, Zenon
  <2>2. CASE /\ row.status = "SPECIALISTS_RUNNING"
             /\ p = [ToChief(row) EXCEPT !.contribute = ~contributed]
    BY <1>4, <2>2, Zenon
  <2>3. CASE /\ row.status = "CHIEF_RUNNING"
             /\ \E key : p = [Plan([row EXCEPT !.status = "CONTROLLERS_RUNNING"], {}, key)
                              EXCEPT !.candidate = runs[Chief].last]
    BY <1>5, <2>3, Zenon
  <2>4. CASE /\ row.status = "CONTROLLERS_RUNNING"
             /\ \/ p = Stop([row EXCEPT !.status = "BLOCKED"], "BLOCKED")
                \/ p = Revise(row)
                \/ p = Accept(row, verdicts)
    BY <1>6, <1>7, <2>4, ReviseRounds, Zenon
  <2>5. CASE p = Raise(row) \/ p = Stop(row, "NONE") \/ \E R, key : p = Plan(row, R, key)
    BY <1>1, <1>2, <2>5, Zenon
  <2>6. QED
    BY <1>8, <2>1, <2>2, <2>3, <2>4, <2>5, Zenon
<1>10. QED
  BY <1>9 DEF p

\* Why the chief's revisions are bounded: the row counts the candidates, and the
\* one advance that is open looks at the latest.
RoundsInv ==
  /\ \A w \in Workers : tx[w].open => PlanRounds(tx[w].seen, tx[w].plan)
  /\ overlapped \/
       /\ candidate.version <= Rounds(workflow)
       /\ workflow.rev <= MaxRounds
       /\ \A w \in Workers : tx[w].open => tx[w].plan.version = candidate.version

LEMMA CommitRounds ==
  ASSUME IsSequence, DataTyped, DecisionInv, RoundsInv, NEW w \in Workers, Commit(w)
  PROVE  RoundsInv'
<1>1. PICK seen, plan : seen = tx[w].seen /\ plan = tx[w].plan
  OBVIOUS
<1>2. tx[w].open /\ DOMAIN tx = Workers /\ tx' = [tx EXCEPT ![w] = NoTx] /\ overlapped' = overlapped
  BY DEF Commit, DecisionInv
<1>3. ~tx'[w].open /\ \A v \in Workers : v # w => tx'[v] = tx[v]
  BY <1>2 DEF NoTx
<1>4. \A v \in Workers : tx'[v].open => PlanRounds(tx'[v].seen, tx'[v].plan)
  BY <1>3 DEF RoundsInv
<1>5. ASSUME ~overlapped
      PROVE  /\ candidate'.version <= Rounds(workflow')
             /\ workflow'.rev <= MaxRounds
             /\ \A v \in Workers : ~tx'[v].open
  <2>1. \A v \in Workers : ~tx'[v].open
    BY <1>2, <1>3, <1>5 DEF DecisionInv
  <2>2. /\ seen \in WorkflowRows /\ GoodPlan(seen, plan) /\ FreshRow(seen) /\ workflow \in WorkflowRows
        /\ PlanRounds(seen, plan) /\ plan.version = candidate.version
        /\ candidate.version <= Rounds(workflow) /\ workflow.rev <= MaxRounds
    BY <1>1, <1>2, <1>5 DEF DecisionInv, RoundsInv
  <2>3. workflow' \in WorkflowRows /\ plan.row \in WorkflowRows /\ candidate.version \in Nat
    BY <2>2, CommitRow DEF GoodPlan, DataTyped
  <2>4. /\ Rounds(workflow) \in Nat /\ Rounds(workflow') \in Nat /\ Rounds(plan.row) \in Nat
        /\ MaxRounds \in Nat
    BY <2>2, <2>3, RoundsTyped, DecisionAssumption
  <2>5. candidate'.version = IF plan.candidate # "none" THEN candidate.version + 1
                             ELSE candidate.version
    <3>1. candidate' = IF plan.candidate # "none"
                       THEN [version |-> plan.version + 1, status |-> "UNDER_REVIEW",
                             kind |-> plan.candidate]
                       ELSE IF plan.judgement = "NONE" \/ candidate.version > plan.version
                       THEN candidate ELSE [candidate EXCEPT !.status = plan.judgement]
      BY <1>1 DEF Commit
    <3>2. [candidate EXCEPT !.status = plan.judgement].version = candidate.version
      BY DEF DataTyped
    <3>3. QED
      BY <2>2, <3>1, <3>2
  <2>6. CASE seen = workflow
    <3>1. workflow'.status = plan.row.status /\ workflow'.rev = plan.row.rev
      BY <1>1, <2>6, CommitColumns
    <3>2. Rounds(workflow') = Rounds(plan.row)
      BY <3>1 DEF Rounds
    <3>3. /\ Rounds(plan.row) >= Rounds(workflow)
          /\ plan.candidate # "none" => Rounds(plan.row) >= Rounds(workflow) + 1
          /\ plan.row.rev <= MaxRounds
      BY <2>2, <2>6 DEF PlanRounds
    <3>4. candidate'.version <= Rounds(workflow')
      BY <2>2, <2>3, <2>4, <2>5, <3>2, <3>3
    <3>5. QED
      BY <2>1, <3>1, <3>3, <3>4
  <2>7. CASE seen # workflow
    <3>1. seen.status = "AWAITING_DECISION_APPROVAL"
      BY <2>2, <2>7 DEF FreshRow
    <3>2. plan.row = seen /\ plan.candidate = "none"
      BY <2>2, <3>1 DEF GoodPlan, RunningStatus, PlanRounds
    <3>3. workflow'.status = workflow.status /\ workflow'.rev = workflow.rev
      BY <1>1, <3>2, CommitRow
    <3>4. Rounds(workflow') = Rounds(workflow)
      BY <3>3 DEF Rounds
    <3>5. QED
      BY <2>1, <2>2, <2>5, <3>2, <3>3, <3>4
  <2>8. QED
    BY <2>6, <2>7
<1>6. QED
  BY <1>2, <1>4, <1>5 DEF RoundsInv

LEMMA RoundsStep ==
  ASSUME IsSequence, DataTyped, DecisionInv, RoundsInv, [DecisionNext]_decisionVars
  PROVE  RoundsInv'
<1>0. DOMAIN tx = Workers /\ workflow \in WorkflowRows
  BY DEF DecisionInv
<1>1. CASE UNCHANGED <<workflow, candidate, tx, overlapped>>
  BY <1>1 DEF RoundsInv, PlanRounds, Rounds
<1>2. ASSUME UNCHANGED <<candidate, tx, overlapped>>, workflow'.rev = workflow.rev,
             Rounds(workflow') = Rounds(workflow)
      PROVE  RoundsInv'
  BY <1>2 DEF RoundsInv, PlanRounds
<1>3. CASE start_decision_workflow
  <2>1. workflow'.status = "SNAPSHOT_READY" /\ workflow'.rev = workflow.rev /\ workflow.status = "NONE"
    BY <1>0, <1>3 DEF start_decision_workflow, WorkflowRows
  <2>2. Rounds(workflow') = Rounds(workflow) /\ UNCHANGED <<candidate, tx, overlapped>>
    BY <1>3, <2>1 DEF start_decision_workflow, Rounds
  <2>3. QED
    BY <1>2, <2>1, <2>2
<1>4. CASE approve_decision_for_production
  <2>1. /\ workflow'.status = "APPROVED_FOR_PRODUCTION" /\ workflow'.rev = workflow.rev
        /\ workflow.status = "AWAITING_DECISION_APPROVAL"
    BY <1>0, <1>4 DEF approve_decision_for_production, WorkflowRows
  <2>2. Rounds(workflow') = Rounds(workflow) /\ UNCHANGED <<candidate, tx, overlapped>>
    BY <1>4, <2>1 DEF approve_decision_for_production, Rounds
  <2>3. QED
    BY <1>2, <2>1, <2>2
<1>5. ASSUME NEW w \in Workers, NEW k, Begin(w, k) PROVE RoundsInv'
  <2>1. PICK plan : plan = _advance_workflow(workflow)
    OBVIOUS
  <2>2. PlanRounds(workflow, plan) /\ plan.version = candidate.version
    BY <1>0, <2>1, AdvanceRounds, AdvanceTyped
  <2>3. PICK opened : /\ opened = [open |-> TRUE, key |-> k, seen |-> workflow, plan |-> plan]
                      /\ tx' = [tx EXCEPT ![w] = opened]
    BY <1>5, <2>1 DEF Begin
  <2>4. /\ opened.plan = plan /\ opened.seen = workflow /\ tx'[w] = opened
        /\ \A v \in Workers : v # w => tx'[v] = tx[v]
    BY <1>0, <2>3
  <2>5. UNCHANGED <<workflow, candidate>> /\ (overlapped => overlapped')
    BY <1>5 DEF Begin
  <2>6. ASSUME NEW v \in Workers, tx'[v].open
        PROVE  /\ PlanRounds(tx'[v].seen, tx'[v].plan)
               /\ overlapped \/ tx'[v].plan.version = candidate.version
    <3>1. CASE v = w
      BY <2>2, <2>4, <3>1
    <3>2. CASE v # w
      BY <2>4, <2>6, <3>2 DEF RoundsInv
    <3>3. QED
      BY <3>1, <3>2
  <2>7. QED
    BY <2>5, <2>6 DEF RoundsInv
<1>6. ASSUME NEW w \in Workers, Commit(w) PROVE RoundsInv'
  BY <1>6, CommitRounds
<1>7. ASSUME NEW w \in Workers, Raises(w) \/ Conflicts(w) \/ Crash(w) PROVE RoundsInv'
  <2>1. tx' = [tx EXCEPT ![w] = NoTx] /\ UNCHANGED <<workflow, candidate, overlapped>>
    BY <1>7 DEF Raises, Conflicts, Fails, Crash
  <2>2. ~tx'[w].open /\ \A v \in Workers : v # w => tx'[v] = tx[v]
    BY <1>0, <2>1 DEF NoTx
  <2>3. QED
    BY <2>1, <2>2 DEF RoundsInv
<1>8. QED
  BY <1>1, <1>3, <1>4, <1>5, <1>6, <1>7 DEF DecisionNext, Owner, WorkerStep, decisionVars, Resume,
     RunFinishes, RunEnds, RunOrphaned

LEMMA RoundsInvariant == DecisionSpec => []RoundsInv
<1>1. DecisionInit => RoundsInv
  <2>1. MaxRounds \in Nat
    BY DecisionAssumption
  <2>2. QED
    BY <2>1 DEF DecisionInit, RoundsInv, NoTx, Rounds
<1>2. IsSequence /\ DataTyped /\ DecisionInv /\ RoundsInv /\ [DecisionNext]_decisionVars => RoundsInv'
  BY RoundsStep
<1>3. QED
  BY <1>1, <1>2, DataInvariant, DecisionInvariant, PTL DEF DecisionSpec

\* The chief writes a first candidate and at most max_revision_rounds revisions
\* of it, unless two advances of the workflow overlapped (_advance_workflow: the
\* limit is compared with revision_count, which every revision increments).
THEOREM RevisionsAreBounded == DecisionSpec => []RevisionsBounded
<1>1. DataTyped /\ DecisionInv /\ RoundsInv => RevisionsBounded
  <2> SUFFICES ASSUME DataTyped, DecisionInv, RoundsInv, ~overlapped
               PROVE  candidate.version <= MaxRounds + 1
    BY DEF RevisionsBounded
  <2>1. /\ candidate.version \in Nat /\ workflow.rev \in Nat /\ MaxRounds \in Nat
        /\ candidate.version <= Rounds(workflow) /\ workflow.rev <= MaxRounds
    BY DecisionAssumption DEF DataTyped, DecisionInv, RoundsInv, WorkflowRows
  <2>2. QED
    BY <2>1 DEF Rounds
<1>2. QED
  BY <1>1, RoundsInvariant, DataInvariant, DecisionInvariant, PTL
-----------------------------------------------------------------------------
(* The sum of the runs, which the key of a poll contains.                  *)

\* f is the function by which MapThenSumSet adds up the runs of R.
Adds(f, R, run) ==
  f = [s \in SUBSET R |-> IF s = {} THEN 0
                          ELSE LET x == CHOOSE x \in s : TRUE IN run[x].n + f[s \ {x}]]

Total(run, R) == (CHOOSE f : Adds(f, R, run))[R]

LEMMA SumIsTotal ==
  ASSUME NEW CONSTANT R
  PROVE  SumRuns(R) = Total(runs, R) /\ SumRuns(R)' = Total(runs', R)
<1>1. SumRuns(R) = Total(runs, R)
  BY Zenon DEF SumRuns, MapThenSumSet, MapThenFoldSet, Adds, Total
<1>2. SumRuns(R)' = Total(runs', R)
  BY Zenon DEF SumRuns, MapThenSumSet, MapThenFoldSet, Adds, Total
<1>3. QED
  BY <1>1, <1>2

\* A set of numbers that is not empty has a least member.
LEMMA LeastNumber ==
  ASSUME NEW T, T \subseteq Nat, T # {}
  PROVE  \E x \in T : \A y \in T : x <= y
<1>1. \E x \in T : \A y \in T : ~(<<y, x>> \in OpToRel(<, Nat))
  BY NatLessThanWellFounded, WFMin
<1>2. PICK x \in T : \A y \in T : ~(<<y, x>> \in {p \in Nat \X Nat : p[1] < p[2]})
  BY <1>1, Zenon DEF OpToRel
<1>3. ASSUME NEW y \in T PROVE x <= y
  <2>1. x \in Nat /\ y \in Nat
    OBVIOUS
  <2>2. ~(<<y, x>>[1] < <<y, x>>[2])
    BY <1>2, <2>1, Zenon
  <2>3. QED
    BY <2>1, <2>2
<1>4. QED
  BY <1>3

\* A member of a set that is not empty, and what is left.
LEMMA OneLess ==
  ASSUME NEW R, IsFiniteSet(R), NEW s \in SUBSET R, s # {}, NEW x, x = CHOOSE y \in s : TRUE
  PROVE  /\ x \in s /\ s \ {x} \in SUBSET R
         /\ Cardinality(s) \in Nat /\ Cardinality(s \ {x}) = Cardinality(s) - 1
<1>1. x \in s
  BY Zenon
<1>2. IsFiniteSet(s)
  BY FS_Subset
<1>3. QED
  BY <1>1, <1>2, FS_RemoveElement, FS_CardinalityType

\* There is such a function: it is built up from the smaller sets.
LEMMA TotalAdds ==
  ASSUME NEW R, IsFiniteSet(R), NEW run
  PROVE  Adds(CHOOSE f : Adds(f, R, run), R, run)
<1> DEFINE Pick(s) == CHOOSE x \in s : TRUE
           Upto(n) == {s \in SUBSET R : Cardinality(s) <= n}
           Sum(f, s) == IF s = {} THEN 0 ELSE run[Pick(s)].n + f[s \ {Pick(s)}]
           Sums(f, n) == \A s \in Upto(n) : f[s] = Sum(f, s)
           Unbuilt == {n \in Nat : ~\E f : Sums(f, n)}
<1>1. \A s \in SUBSET R : Cardinality(s) \in Nat
  BY FS_Subset, FS_CardinalityType
<1>2. ASSUME NEW s \in SUBSET R, s # {}
      PROVE  s \ {Pick(s)} \in SUBSET R /\ Cardinality(s \ {Pick(s)}) = Cardinality(s) - 1
  BY <1>2, OneLess
<1> HIDE DEF Pick
<1>3. Unbuilt = {}
  <2> SUFFICES ASSUME Unbuilt # {} PROVE FALSE
    OBVIOUS
  <2>1. Unbuilt \subseteq Nat
    OBVIOUS
  <2>2. PICK n \in Unbuilt : \A m \in Unbuilt : n <= m
    BY <2>1, LeastNumber
  <2>3. n \in Nat /\ ~\E f : Sums(f, n)
    OBVIOUS
  <2>4. PICK g : n # 0 => Sums(g, n - 1)
    <3>1. n # 0 => n - 1 \in Nat /\ ~(n <= n - 1)
      BY <2>3
    <3>2. n # 0 => n - 1 \notin Unbuilt
      BY <2>2, <3>1
    <3>3. QED
      BY <3>1, <3>2
  <2> DEFINE h == [s \in SUBSET R |-> Sum(g, s)]
  <2>5. ASSUME NEW s \in Upto(n) PROVE h[s] = Sum(h, s)
    <3>1. CASE s = {}
      BY <3>1
    <3>2. CASE s # {}
      <4> DEFINE t == s \ {Pick(s)}
      <4>1. t \in SUBSET R /\ Cardinality(t) = Cardinality(s) - 1 /\ Cardinality(s) <= n
        BY <1>2, <3>2
      <4>2. Cardinality(s) \in Nat /\ Cardinality(t) \in Nat
        BY <1>1, <4>1
      <4>3. n # 0 /\ Cardinality(t) <= n - 1
        BY <2>3, <4>1, <4>2
      <4>4. g[t] = Sum(g, t)
        BY <2>4, <4>1, <4>3
      <4>5. h[t] = g[t]
        BY <4>1, <4>4
      <4>6. QED
        BY <3>2, <4>5
    <3>3. QED
      BY <3>1, <3>2
  <2>6. Sums(h, n)
    BY <2>5
  <2>7. QED
    BY <2>3, <2>6
<1>4. Cardinality(R) \in Nat /\ \A s \in SUBSET R : Cardinality(s) <= Cardinality(R)
  BY FS_Subset, FS_CardinalityType
<1>5. PICK g : Sums(g, Cardinality(R))
  BY <1>3, <1>4
<1>6. \A s \in SUBSET R : g[s] = Sum(g, s)
  BY <1>4, <1>5
<1> DEFINE h == [s \in SUBSET R |-> g[s]]
<1>7. \A s \in SUBSET R : Sum(h, s) = Sum(g, s)
  BY <1>2
<1>8. h = [s \in SUBSET R |-> Sum(h, s)]
  BY <1>6, <1>7
<1>9. \E f : Adds(f, R, run)
  <2>1. PICK f : f = h
    OBVIOUS
  <2>2. f = [s \in SUBSET R |-> Sum(f, s)]
    BY <1>8, <2>1
  <2>3. Adds(f, R, run)
    BY <2>2, Zenon DEF Adds, Pick
  <2>4. QED
    BY <2>3
<1>10. QED
  BY <1>9

\* What one more run for each role of M adds.
LEMMA TotalGrows ==
  ASSUME NEW R, IsFiniteSet(R), NEW M \in SUBSET R, NEW old, NEW new,
         \A r \in R : old[r].n \in Nat /\ new[r].n = IF r \in M THEN old[r].n + 1 ELSE old[r].n
  PROVE  Total(new, R) = Total(old, R) + Cardinality(M) /\ Total(old, R) \in Nat
<1> DEFINE Pick(s) == CHOOSE x \in s : TRUE
           Sum(f, run, s) == IF s = {} THEN 0 ELSE run[Pick(s)].n + f[s \ {Pick(s)}]
<1>1. PICK f : f = CHOOSE g : Adds(g, R, old)
  OBVIOUS
<1>2. PICK h : h = CHOOSE g : Adds(g, R, new)
  OBVIOUS
<1>3. \A s \in SUBSET R : f[s] = Sum(f, old, s) /\ h[s] = Sum(h, new, s)
  <2>1. Adds(f, R, old) /\ Adds(h, R, new)
    BY <1>1, <1>2, TotalAdds, Zenon
  <2>2. f = [s \in SUBSET R |-> Sum(f, old, s)] /\ h = [s \in SUBSET R |-> Sum(h, new, s)]
    BY <2>1, Zenon DEF Adds
  <2> HIDE DEF Sum
  <2>3. QED
    BY <2>2
<1>4. ASSUME NEW s \in SUBSET R, s # {}
      PROVE  /\ Pick(s) \in s /\ s \ {Pick(s)} \in SUBSET R
             /\ Cardinality(s) \in Nat /\ Cardinality(s \ {Pick(s)}) = Cardinality(s) - 1
  BY <1>4, OneLess
<1>5. \A s \in SUBSET R : Cardinality(s) \in Nat /\ Cardinality(M \cap s) \in Nat
  <2>1. \A s \in SUBSET R : IsFiniteSet(s) /\ IsFiniteSet(M \cap s)
    BY FS_Subset
  <2>2. QED
    BY <2>1, FS_CardinalityType
<1>6. ASSUME NEW s \in SUBSET R, s # {}
      PROVE  Cardinality(M \cap s) = IF Pick(s) \in M THEN Cardinality(M \cap (s \ {Pick(s)})) + 1
                                     ELSE Cardinality(M \cap (s \ {Pick(s)}))
  <2>1. Pick(s) \in s
    BY <1>4, <1>6
  <2> DEFINE t == M \cap (s \ {Pick(s)})
  <2>2. IsFiniteSet(t) /\ Pick(s) \notin t
    BY FS_Subset
  <2>3. M \cap s = IF Pick(s) \in M THEN t \cup {Pick(s)} ELSE t
    BY <2>1
  <2>4. QED
    BY <2>2, <2>3, FS_AddElement
<1> DEFINE Right(s) == f[s] \in Nat /\ h[s] = f[s] + Cardinality(M \cap s)
           Wrong == {n \in Nat : \E s \in SUBSET R : Cardinality(s) = n /\ ~Right(s)}
<1> HIDE DEF Pick
<1>7. Wrong = {}
  <2> SUFFICES ASSUME Wrong # {} PROVE FALSE
    OBVIOUS
  <2>1. Wrong \subseteq Nat
    OBVIOUS
  <2>2. PICK n \in Wrong : \A m \in Wrong : n <= m
    BY <2>1, LeastNumber
  <2>3. PICK s \in SUBSET R : Cardinality(s) = n /\ ~Right(s)
    OBVIOUS
  <2>4. CASE s = {}
    <3>1. f[s] = 0 /\ h[s] = 0
      BY <1>3, <2>4
    <3>2. M \cap s = {}
      BY <2>4
    <3>3. Cardinality(M \cap s) = 0
      BY <3>2, FS_EmptySet
    <3>4. Right(s)
      BY <3>1, <3>3
    <3>5. QED
      BY <2>3, <3>4
  <2>5. CASE s # {}
    <3>1. PICK t : t = s \ {Pick(s)}
      OBVIOUS
    <3>2. t \in SUBSET R /\ Cardinality(t) \in Nat /\ Cardinality(t) = n - 1 /\ n \in Nat
      BY <1>4, <1>5, <2>3, <2>5, <3>1
    <3>3. Right(t)
      <4>1. ~(n <= Cardinality(t))
        BY <3>2
      <4>2. Cardinality(t) \notin Wrong
        BY <2>2, <4>1
      <4>3. QED
        BY <3>2, <4>2
    <3>4. f[s] = old[Pick(s)].n + f[t] /\ h[s] = new[Pick(s)].n + h[t]
      BY <1>3, <2>5, <3>1
    <3>5. Pick(s) \in R
      BY <1>4, <2>5
    <3>6. Cardinality(M \cap s) = IF Pick(s) \in M THEN Cardinality(M \cap t) + 1
                                  ELSE Cardinality(M \cap t)
      BY <1>6, <2>5, <3>1
    <3>7. Cardinality(M \cap t) \in Nat
      BY <1>5, <3>2
    <3>8. Right(s)
      BY <3>3, <3>4, <3>5, <3>6, <3>7
    <3>9. QED
      BY <2>3, <3>8
  <2>6. QED
    BY <2>4, <2>5
<1>8. Right(R)
  BY <1>5, <1>7
<1>9. M \cap R = M
  OBVIOUS
<1>10. Total(old, R) = f[R] /\ Total(new, R) = h[R]
  BY <1>1, <1>2 DEF Total
<1>11. QED
  BY <1>8, <1>9, <1>10

\* The sum depends on nothing but the counts.
LEMMA TotalSame ==
  ASSUME NEW R, IsFiniteSet(R), NEW old, NEW new,
         \A r \in R : old[r].n \in Nat /\ new[r].n = old[r].n
  PROVE  Total(new, R) = Total(old, R)
<1>1. {} \in SUBSET R /\ Cardinality({}) = 0
  BY FS_EmptySet
<1>2. \A r \in R : old[r].n \in Nat /\ new[r].n = IF r \in {} THEN old[r].n + 1 ELSE old[r].n
  OBVIOUS
<1>3. Total(new, R) = Total(old, R) + Cardinality({}) /\ Total(old, R) \in Nat
  BY <1>1, <1>2, TotalGrows
<1>4. QED
  BY <1>1, <1>3

LEMMA TotalOfOne ==
  ASSUME NEW run, NEW r, run[r].n \in Nat
  PROVE  Total(run, {r}) = run[r].n
<1>1. PICK f : f = CHOOSE g : Adds(g, {r}, run)
  OBVIOUS
<1>2. Adds(f, {r}, run)
  BY <1>1, TotalAdds, FS_Singleton, Zenon
<1>3. f = [s \in SUBSET {r} |-> IF s = {} THEN 0
                                ELSE LET x == CHOOSE x \in s : TRUE IN run[x].n + f[s \ {x}]]
  BY <1>2, Zenon DEF Adds
<1>4. (CHOOSE x \in {r} : TRUE) = r
  OBVIOUS
<1>5. f[{}] = 0
  BY <1>3
<1>6. {r} \ {r} = {}
  OBVIOUS
<1>7. f[{r}] = run[r].n + f[{}]
  BY <1>3, <1>4, <1>6
<1>8. QED
  BY <1>1, <1>5, <1>7 DEF Total

-----------------------------------------------------------------------------
(* Why a stalled workflow is explained.                                    *)

\* The poll of a workflow with this status, latest candidate and runs.
PollFor(status, v, run) ==
  CASE status = "SPECIALISTS_RUNNING" -> Key("after-specialists", 0, Total(run, Specialists))
    [] status = "CHIEF_RUNNING"       -> Key("after-chief", v + 1, run[Chief].n)
    [] status = "CONTROLLERS_RUNNING" -> Key("after-controllers", v, Total(run, Controllers))
    [] OTHER                          -> Key("start", 0, 0)

\* How many runs each role has when a plan with these is committed.
Planned(planned) == [r \in Roles |-> [n |-> IF r \in DOMAIN planned THEN planned[r] ELSE runs[r].n]]

\* A plan that ends makes no poll, one that waits makes the poll of the runs
\* there will be, or finds it, and one that moves the row on makes a new job.
Ends(p) ==
  p.row.status \notin RunningStatus /\ p.candidate = "none" /\ p.jobs \subseteq {Key("start", 0, 0)}

Waits(row, p) ==
  /\ p.row.status = row.status /\ row.status \in RunningStatus \ {"SNAPSHOT_READY"}
  /\ p.candidate = "none"
  /\ LET key == PollFor(row.status, candidate.version, Planned(p.runs)) IN
     p.jobs = {key} \/ (p.jobs = {} /\ key \in DOMAIN jobs)

Moves(row, p) ==
  \/ /\ row.status = "SNAPSHOT_READY" /\ p.row.status = "SPECIALISTS_RUNNING" /\ p.candidate = "none"
     /\ p.jobs = {Key("after-specialists", 0, 0)}
  \/ /\ row.status \in {"SPECIALISTS_RUNNING", "CONTROLLERS_RUNNING"}
     /\ p.row.status = "CHIEF_RUNNING" /\ p.candidate = "none"
     /\ p.jobs = {Key("after-chief", candidate.version + 1, 0)}
  \/ /\ row.status = "CHIEF_RUNNING" /\ p.row.status = "CONTROLLERS_RUNNING" /\ p.candidate # "none"
     /\ p.jobs = {Key("after-controllers", candidate.version + 1, 0)}

Foreseen(row, p) == p.raises \/ Ends(p) \/ Waits(row, p) \/ Moves(row, p)

\* No job looks at what the workflow has not come to yet.
JobsBehind ==
  \A k \in DOMAIN jobs :
    /\ k.at = "after-specialists" => workflow.status # "SNAPSHOT_READY"
    /\ k.at = "after-chief" =>
         /\ k.v \in Nat /\ k.v <= candidate.version + 1
         /\ k.v = candidate.version + 1 =>
              workflow.status \notin {"SNAPSHOT_READY", "SPECIALISTS_RUNNING", "CONTROLLERS_RUNNING"}
    /\ k.at = "after-controllers" => k.v \in Nat /\ k.v <= candidate.version

LEMMA PlanJobs ==
  ASSUME NEW row, NEW roles, NEW key
  PROVE  LET p == Plan(row, roles, key) IN p.jobs = {key} \ DOMAIN jobs
BY DEF Plan

LEMMA StopJobs ==
  ASSUME NEW row, NEW judgement
  PROVE  Stop(row, judgement).jobs \subseteq {Key("start", 0, 0)}
<1>1. PICK p : p = Plan(row, {}, Key("start", 0, 0))
  OBVIOUS
<1>2. IsPlan(p) /\ p.jobs \subseteq {Key("start", 0, 0)}
  BY <1>1, PlanFields, PlanJobs
<1>3. PICK q : q = [p EXCEPT !.judgement = judgement]
  OBVIOUS
<1>4. q.jobs = p.jobs
  BY <1>2, <1>3 DEF IsPlan
<1>5. QED
  BY <1>1, <1>2, <1>3, <1>4 DEF Stop

\* The generation in a poll's key is what the runs will add up to.
LEMMA GenerationIsPlanned ==
  ASSUME DataTyped, NEW CONSTANT R, R \subseteq Roles, IsFiniteSet(R), NEW planned,
         DOMAIN planned = Missing(R), \A r \in Missing(R) : planned[r] = runs[r].n + 1
  PROVE  Generation(R) = Total(Planned(planned), R)
<1>1. Missing(R) \in SUBSET R
  BY DEF Missing
<1>2. \A r \in R : /\ runs[r].n \in Nat
                   /\ Planned(planned)[r].n = IF r \in Missing(R) THEN runs[r].n + 1 ELSE runs[r].n
  BY DEF DataTyped, Planned
<1>3. Total(Planned(planned), R) = Total(runs, R) + Cardinality(Missing(R))
  BY <1>1, <1>2, TotalGrows
<1>4. QED
  BY <1>3, SumIsTotal DEF Generation

LEMMA PollWaits ==
  ASSUME DataTyped, NEW row, NEW CONSTANT R, R \subseteq Roles, IsFiniteSet(R), NEW at, NEW v, NEW p,
         p = Poll(row, R, at, v)
  PROVE  /\ IsPlan(p) /\ p.row = row /\ p.candidate = "none"
         /\ LET key == Key(at, v, Total(Planned(p.runs), R)) IN
            p.jobs = {key} \/ (p.jobs = {} /\ key \in DOMAIN jobs)
<1>1. PICK key : key = Key(at, v, Generation(R))
  OBVIOUS
<1>2. p = Plan(row, R, key)
  BY <1>1 DEF Poll
<1>3. /\ IsPlan(p) /\ p.row = row /\ p.candidate = "none" /\ DOMAIN p.runs = Missing(R)
      /\ \A r \in Missing(R) : p.runs[r] = runs[r].n + 1
      /\ p.jobs = {key} \ DOMAIN jobs
  BY <1>2, PlanFields, PlanJobs
<1>4. key = Key(at, v, Total(Planned(p.runs), R))
  BY <1>1, <1>3, GenerationIsPlanned
<1>5. QED
  BY <1>3, <1>4

\* The plans _advance_workflow can make, each with its key.
LEMMA AdvanceKeys ==
  ASSUME NEW row \in WorkflowRows
  PROVE  LET p == _advance_workflow(row) IN
         \/ p = Raise(row)
         \/ row.status \notin RunningStatus /\ p = Stop(row, "NONE")
         \/ /\ row.status = "SNAPSHOT_READY"
            /\ p = Plan([row EXCEPT !.status = "SPECIALISTS_RUNNING"], Specialists,
                        Key("after-specialists", 0, 0))
         \/ /\ row.status = "SPECIALISTS_RUNNING"
            /\ \/ p = Poll(row, Specialists, "after-specialists", 0)
               \/ p = [ToChief(row) EXCEPT !.contribute = ~contributed]
         \/ /\ row.status = "CHIEF_RUNNING"
            /\ \/ p = Poll(row, {Chief}, "after-chief", _next_candidate_version)
               \/ /\ AllReady({Chief})
                  /\ p = [Plan([row EXCEPT !.status = "CONTROLLERS_RUNNING"], {},
                               Key("after-controllers", _next_candidate_version, 0))
                          EXCEPT !.candidate = runs[Chief].last]
         \/ /\ row.status = "CONTROLLERS_RUNNING"
            /\ \/ p = Poll(row, Controllers, "after-controllers", candidate.version)
               \/ p = Stop([row EXCEPT !.status = "BLOCKED"], "BLOCKED")
               \/ p = Revise(row)
               \/ \E verdicts : p = Accept(row, verdicts)
<1> DEFINE p == _advance_workflow(row)
           verdicts == [c \in Controllers |-> runs[c].last]
           outcome == governed_controller_outcome(candidate.kind, verdicts)
<1>1. CASE row.status = "SNAPSHOT_READY"
  <2>1. p = AdvanceSnapshot(row)
    BY <1>1, Zenon DEF _advance_workflow
  <2>2. QED
    BY <1>1, <2>1, Zenon DEF AdvanceSnapshot
<1>2. CASE row.status = "SPECIALISTS_RUNNING"
  <2>1. p = AdvanceSpecialists(row)
    BY <1>2, Zenon DEF _advance_workflow
  <2>2. QED
    BY <1>2, <2>1, Zenon DEF AdvanceSpecialists
<1>3. CASE row.status = "CHIEF_RUNNING"
  <2>1. p = AdvanceChief(row)
    BY <1>3, Zenon DEF _advance_workflow
  <2>2. QED
    BY <1>3, <2>1, Zenon DEF AdvanceChief
<1>4. CASE row.status = "CONTROLLERS_RUNNING"
  <2>1. p = AdvanceControllers(row)
    BY <1>4, Zenon DEF _advance_workflow
  <2> DEFINE judged == CASE outcome = "RAISE" -> Raise(row)
                         [] outcome = "BLOCK" -> Stop([row EXCEPT !.status = "BLOCKED"], "BLOCKED")
                         [] outcome \in {"REVISE", "CONDITIONS"} -> Revise(row)
                         [] outcome = "PASS" -> Accept(row, verdicts)
  <2>2. outcome \in {"RAISE", "BLOCK", "REVISE", "CONDITIONS", "PASS"}
    BY DEF governed_controller_outcome
  <2>3. \/ AdvanceControllers(row) = Raise(row)
        \/ AdvanceControllers(row) = Poll(row, Controllers, "after-controllers", candidate.version)
        \/ AdvanceControllers(row) = judged
    BY Zenon DEF AdvanceControllers
  <2> HIDE DEF outcome, verdicts
  <2>4. \/ judged = Raise(row) \/ judged = Revise(row)
        \/ judged = Stop([row EXCEPT !.status = "BLOCKED"], "BLOCKED")
        \/ judged = Accept(row, verdicts)
    BY <2>2, Zenon
  <2> HIDE DEF judged
  <2>5. QED
    BY <1>4, <2>1, <2>3, <2>4, Zenon
<1>5. CASE row.status \notin RunningStatus
  <2>1. p = Stop(row, "NONE")
    BY <1>5, Zenon DEF _advance_workflow, RunningStatus
  <2>2. QED
    BY <1>5, <2>1
<1>6. QED
  BY <1>1, <1>2, <1>3, <1>4, <1>5 DEF RunningStatus

\* A first job of a stage that the workflow has not come to is new.
LEMMA NewJob ==
  ASSUME DataTyped, JobsBehind, workflow \in WorkflowRows
  PROVE  /\ workflow.status = "SNAPSHOT_READY" => Key("after-specialists", 0, 0) \notin DOMAIN jobs
         /\ workflow.status \in {"SPECIALISTS_RUNNING", "CONTROLLERS_RUNNING"} =>
              Key("after-chief", candidate.version + 1, 0) \notin DOMAIN jobs
         /\ Key("after-controllers", candidate.version + 1, 0) \notin DOMAIN jobs
<1>1. candidate.version \in Nat
  BY DEF DataTyped
<1>2. \A at, v, g : Key(at, v, g).at = at /\ Key(at, v, g).v = v
  BY DEF Key
<1>3. ASSUME Key("after-specialists", 0, 0) \in DOMAIN jobs PROVE workflow.status # "SNAPSHOT_READY"
  BY <1>2, <1>3 DEF JobsBehind
<1>4. ASSUME Key("after-chief", candidate.version + 1, 0) \in DOMAIN jobs
      PROVE  workflow.status \notin {"SPECIALISTS_RUNNING", "CONTROLLERS_RUNNING"}
  BY <1>2, <1>4 DEF JobsBehind
<1>5. ASSUME Key("after-controllers", candidate.version + 1, 0) \in DOMAIN jobs PROVE FALSE
  <2>1. candidate.version + 1 <= candidate.version
    BY <1>2, <1>5 DEF JobsBehind
  <2>2. QED
    BY <1>1, <2>1
<1>6. QED
  BY <1>3, <1>4, <1>5

\* The plan that goes on to the chief, whatever else it writes.
LEMMA ToChiefForeseen ==
  ASSUME DataTyped, JobsBehind, workflow \in WorkflowRows, NEW row, NEW q,
         workflow.status \in {"SPECIALISTS_RUNNING", "CONTROLLERS_RUNNING"},
         row \in WorkflowRows, row.status = workflow.status, q = ToChief(row)
  PROVE  /\ IsPlan(q)
         /\ \/ q.raises
            \/ /\ q.row.status = "CHIEF_RUNNING" /\ q.candidate = "none"
               /\ q.jobs = {Key("after-chief", candidate.version + 1, 0)}
<1>1. PICK next : next = [row EXCEPT !.status = "CHIEF_RUNNING"]
  OBVIOUS
<1>2. next.status = "CHIEF_RUNNING"
  BY <1>1 DEF WorkflowRows
<1>3. PICK key : key = Key("after-chief", candidate.version + 1, 0)
  OBVIOUS
<1>4. q = Raise(row) \/ q = Plan(next, {Chief}, key)
  BY <1>1, <1>3, ToChiefCases DEF _next_candidate_version
<1>5. key \notin DOMAIN jobs
  BY <1>3, NewJob
<1>6. CASE q = Raise(row)
  BY <1>6, RaiseFields, RaiseRaises
<1>7. CASE q = Plan(next, {Chief}, key)
  <2>1. IsPlan(q) /\ q.row = next /\ q.candidate = "none" /\ q.jobs = {key} \ DOMAIN jobs
    BY <1>7, PlanFields, PlanJobs
  <2>2. QED
    BY <1>2, <1>3, <1>5, <2>1
<1>8. QED
  BY <1>4, <1>6, <1>7

\* _advance_workflow looks again at what is not ready, and makes the first job of
\* the next stage otherwise.
LEMMA AdvanceForeseen ==
  ASSUME DataTyped, JobsBehind, workflow \in WorkflowRows
  PROVE  Foreseen(workflow, _advance_workflow(workflow))
<1> DEFINE row == workflow
<1>0. PICK p : p = _advance_workflow(row)
  OBVIOUS
<1>1. /\ Specialists \subseteq Roles /\ {Chief} \subseteq Roles /\ Controllers \subseteq Roles
      /\ IsFiniteSet(Specialists) /\ IsFiniteSet({Chief}) /\ IsFiniteSet(Controllers)
      /\ Chief \in Roles
  BY DecisionAssumption, FS_Singleton DEF Roles
<1>2. SUFFICES Foreseen(row, p)
  BY <1>0
<1>3. CASE p = Raise(row)
  BY <1>3, RaiseRaises DEF Foreseen
<1>4. CASE row.status \notin RunningStatus /\ p = Stop(row, "NONE")
  <2>1. p.row = row /\ p.candidate = "none" /\ p.jobs \subseteq {Key("start", 0, 0)}
    BY <1>4, StopFields, StopJobs
  <2>2. QED
    BY <1>4, <2>1 DEF Foreseen, Ends
<1>5. CASE /\ row.status = "SNAPSHOT_READY"
           /\ p = Plan([row EXCEPT !.status = "SPECIALISTS_RUNNING"], Specialists,
                       Key("after-specialists", 0, 0))
  <2>1. PICK next, key : /\ next = [row EXCEPT !.status = "SPECIALISTS_RUNNING"]
                         /\ key = Key("after-specialists", 0, 0)
    OBVIOUS
  <2>2. next.status = "SPECIALISTS_RUNNING" /\ key \notin DOMAIN jobs
    BY <1>5, <2>1, NewJob DEF WorkflowRows
  <2>3. p = Plan(next, Specialists, key)
    BY <1>5, <2>1
  <2>4. p.row = next /\ p.candidate = "none" /\ p.jobs = {key} \ DOMAIN jobs
    BY <2>3, PlanFields, PlanJobs
  <2>5. QED
    BY <1>5, <2>1, <2>2, <2>4 DEF Foreseen, Moves
<1>6. CASE row.status = "SPECIALISTS_RUNNING" /\ p = Poll(row, Specialists, "after-specialists", 0)
  <2>1. /\ p.row = row /\ p.candidate = "none"
        /\ LET key == Key("after-specialists", 0, Total(Planned(p.runs), Specialists)) IN
           p.jobs = {key} \/ (p.jobs = {} /\ key \in DOMAIN jobs)
    BY <1>1, <1>6, PollWaits
  <2>2. PollFor(row.status, candidate.version, Planned(p.runs))
          = Key("after-specialists", 0, Total(Planned(p.runs), Specialists))
    BY <1>6, Zenon DEF PollFor
  <2>3. QED
    BY <1>6, <2>1, <2>2 DEF Foreseen, Waits, RunningStatus
<1>7. CASE row.status = "SPECIALISTS_RUNNING" /\ p = [ToChief(row) EXCEPT !.contribute = ~contributed]
  <2>1. PICK q : q = ToChief(row)
    OBVIOUS
  <2>2. /\ IsPlan(q)
        /\ \/ q.raises
           \/ /\ q.row.status = "CHIEF_RUNNING" /\ q.candidate = "none"
              /\ q.jobs = {Key("after-chief", candidate.version + 1, 0)}
    BY <1>7, <2>1, ToChiefForeseen
  <2>3. p.raises = q.raises /\ p.row = q.row /\ p.candidate = q.candidate /\ p.jobs = q.jobs
    <3>1. p = [q EXCEPT !.contribute = ~contributed]
      BY <1>7, <2>1
    <3>2. QED
      BY <2>2, <3>1 DEF IsPlan
  <2>4. QED
    BY <1>7, <2>2, <2>3 DEF Foreseen, Moves
<1>8. CASE row.status = "CHIEF_RUNNING" /\ p = Poll(row, {Chief}, "after-chief", _next_candidate_version)
  <2>1. /\ p.row = row /\ p.candidate = "none"
        /\ LET key == Key("after-chief", candidate.version + 1, Total(Planned(p.runs), {Chief})) IN
           p.jobs = {key} \/ (p.jobs = {} /\ key \in DOMAIN jobs)
    <3>1. PICK v : v = candidate.version + 1
      OBVIOUS
    <3>2. p = Poll(row, {Chief}, "after-chief", v)
      BY <1>8, <3>1, Zenon DEF _next_candidate_version
    <3>3. /\ p.row = row /\ p.candidate = "none"
          /\ LET key == Key("after-chief", v, Total(Planned(p.runs), {Chief})) IN
             p.jobs = {key} \/ (p.jobs = {} /\ key \in DOMAIN jobs)
      BY <1>1, <3>2, PollWaits
    <3>4. QED
      BY <3>1, <3>3
  <2>2. Planned(p.runs)[Chief].n \in Nat
    <3>1. PICK key : p = Plan(row, {Chief}, key)
      BY <1>8 DEF Poll
    <3>2. DOMAIN p.runs = Missing({Chief}) /\ \A r \in Missing({Chief}) : p.runs[r] = runs[r].n + 1
      BY <3>1, PlanFields
    <3>3. runs[Chief].n \in Nat
      BY <1>1 DEF DataTyped
    <3>4. QED
      BY <1>1, <3>2, <3>3 DEF Planned
  <2>3. Total(Planned(p.runs), {Chief}) = Planned(p.runs)[Chief].n
    BY <2>2, TotalOfOne
  <2>4. PollFor(row.status, candidate.version, Planned(p.runs))
          = Key("after-chief", candidate.version + 1, Planned(p.runs)[Chief].n)
    BY <1>8, Zenon DEF PollFor
  <2>5. QED
    BY <1>8, <2>1, <2>3, <2>4 DEF Foreseen, Waits, RunningStatus
<1>9. CASE /\ row.status = "CHIEF_RUNNING" /\ AllReady({Chief})
           /\ p = [Plan([row EXCEPT !.status = "CONTROLLERS_RUNNING"], {},
                        Key("after-controllers", _next_candidate_version, 0))
                   EXCEPT !.candidate = runs[Chief].last]
  <2>1. PICK next, key : /\ next = [row EXCEPT !.status = "CONTROLLERS_RUNNING"]
                         /\ key = Key("after-controllers", candidate.version + 1, 0)
    OBVIOUS
  <2>2. next.status = "CONTROLLERS_RUNNING" /\ key \notin DOMAIN jobs
    BY <2>1, NewJob DEF WorkflowRows
  <2>3. PICK q : q = Plan(next, {}, key)
    OBVIOUS
  <2>4. IsPlan(q) /\ q.row = next /\ q.jobs = {key} \ DOMAIN jobs
    BY <2>3, PlanFields, PlanJobs
  <2>5. p = [q EXCEPT !.candidate = runs[Chief].last]
    BY <1>9, <2>1, <2>3 DEF _next_candidate_version
  <2>6. p.row = next /\ p.jobs = q.jobs /\ p.candidate = runs[Chief].last
    BY <2>4, <2>5 DEF IsPlan
  <2>7. runs[Chief].last # "none"
    <3>1. runs[Chief].last \in Outputs(Chief)
      BY <1>9 DEF AllReady, RunState, CanMaterialize
    <3>2. QED
      BY <3>1, OutputTypes, DecisionAssumption DEF Kinds
  <2>8. QED
    BY <1>9, <2>1, <2>2, <2>4, <2>6, <2>7 DEF Foreseen, Moves
<1>10. CASE /\ row.status = "CONTROLLERS_RUNNING"
            /\ p = Poll(row, Controllers, "after-controllers", candidate.version)
  <2>1. /\ p.row = row /\ p.candidate = "none"
        /\ LET key == Key("after-controllers", candidate.version, Total(Planned(p.runs), Controllers)) IN
           p.jobs = {key} \/ (p.jobs = {} /\ key \in DOMAIN jobs)
    <3>1. PICK v : v = candidate.version
      OBVIOUS
    <3>2. p = Poll(row, Controllers, "after-controllers", v)
      BY <1>10, <3>1, Zenon
    <3>3. /\ p.row = row /\ p.candidate = "none"
          /\ LET key == Key("after-controllers", v, Total(Planned(p.runs), Controllers)) IN
             p.jobs = {key} \/ (p.jobs = {} /\ key \in DOMAIN jobs)
      BY <1>1, <3>2, PollWaits
    <3>4. QED
      BY <3>1, <3>3
  <2>2. PollFor(row.status, candidate.version, Planned(p.runs))
          = Key("after-controllers", candidate.version, Total(Planned(p.runs), Controllers))
    BY <1>10, Zenon DEF PollFor
  <2>3. QED
    BY <1>10, <2>1, <2>2 DEF Foreseen, Waits, RunningStatus
<1>11. CASE /\ row.status = "CONTROLLERS_RUNNING"
            /\ p = Stop([row EXCEPT !.status = "BLOCKED"], "BLOCKED")
  <2>1. PICK next : next = [row EXCEPT !.status = "BLOCKED"]
    OBVIOUS
  <2>2. next.status = "BLOCKED" /\ p = Stop(next, "BLOCKED")
    BY <1>11, <2>1 DEF WorkflowRows
  <2>3. p.row = next /\ p.candidate = "none" /\ p.jobs \subseteq {Key("start", 0, 0)}
    BY <2>2, StopFields, StopJobs
  <2>4. QED
    BY <2>2, <2>3 DEF Foreseen, Ends, RunningStatus
<1>12. CASE row.status = "CONTROLLERS_RUNNING" /\ p = Revise(row)
  <2>1. PICK escalated : escalated = [row EXCEPT !.status = "ESCALATED"]
    OBVIOUS
  <2>2. PICK next : next = [row EXCEPT !.rev = @ + 1]
    OBVIOUS
  <2>3. PICK q : q = ToChief(next)
    OBVIOUS
  <2>4. PICK z : z = [q EXCEPT !.judgement = "REVISION_REQUIRED"]
    OBVIOUS
  <2>5. p = Stop(escalated, "REVISION_REQUIRED") \/ p = z
    BY <1>12, <2>1, <2>2, <2>3, <2>4, Zenon DEF Revise
  <2>6. CASE p = Stop(escalated, "REVISION_REQUIRED")
    <3>1. escalated.status = "ESCALATED"
      BY <2>1 DEF WorkflowRows
    <3>2. p.row = escalated /\ p.candidate = "none" /\ p.jobs \subseteq {Key("start", 0, 0)}
      BY <2>6, StopFields, StopJobs
    <3>3. QED
      BY <3>1, <3>2 DEF Foreseen, Ends, RunningStatus
  <2>7. CASE p = z
    <3>1. next \in WorkflowRows /\ next.status = row.status
      BY <2>2 DEF WorkflowRows
    <3>2. /\ IsPlan(q)
          /\ \/ q.raises
             \/ /\ q.row.status = "CHIEF_RUNNING" /\ q.candidate = "none"
                /\ q.jobs = {Key("after-chief", candidate.version + 1, 0)}
      BY <1>12, <2>3, <3>1, ToChiefForeseen
    <3>3. z.raises = q.raises /\ z.row = q.row /\ z.candidate = q.candidate /\ z.jobs = q.jobs
      BY <2>4, <3>2 DEF IsPlan
    <3>4. QED
      BY <1>12, <2>7, <3>2, <3>3 DEF Foreseen, Moves
  <2>8. QED
    BY <2>5, <2>6, <2>7
<1>13. ASSUME NEW verdicts, p = Accept(row, verdicts) PROVE Foreseen(row, p)
  <2>1. PICK next : next = [row EXCEPT !.status = "AWAITING_DECISION_APPROVAL"]
    OBVIOUS
  <2>2. next.status = "AWAITING_DECISION_APPROVAL"
    BY <2>1 DEF WorkflowRows
  <2>3. PICK d : d = <<[from |-> candidate.version, kind |-> candidate.kind,
                        verdicts |-> verdicts, approved |-> FALSE]>>
    OBVIOUS
  <2>4. PICK q : q = Stop(next, "MATERIALIZED")
    OBVIOUS
  <2>5. PICK z : z = [q EXCEPT !.decision = d]
    OBVIOUS
  <2>6. p = Stop(next, "ACCEPTED") \/ p = Raise(row) \/ p = z
    BY <1>13, <2>1, <2>3, <2>4, <2>5, Zenon DEF Accept
  <2>7. CASE p = Stop(next, "ACCEPTED")
    <3>1. p.row = next /\ p.candidate = "none" /\ p.jobs \subseteq {Key("start", 0, 0)}
      BY <2>7, StopFields, StopJobs
    <3>2. QED
      BY <2>2, <3>1 DEF Foreseen, Ends, RunningStatus
  <2>8. CASE p = z
    <3>1. IsPlan(q) /\ q.row = next /\ q.candidate = "none" /\ q.jobs \subseteq {Key("start", 0, 0)}
      BY <2>4, StopFields, StopJobs
    <3>2. z.row = q.row /\ z.candidate = q.candidate /\ z.jobs = q.jobs
      BY <2>5, <3>1 DEF IsPlan
    <3>3. QED
      BY <2>2, <2>8, <3>1, <3>2 DEF Foreseen, Ends, RunningStatus
  <2>9. QED
    BY <1>3, <2>6, <2>7, <2>8
<1>14. \/ p = Raise(row)
       \/ row.status \notin RunningStatus /\ p = Stop(row, "NONE")
       \/ /\ row.status = "SNAPSHOT_READY"
          /\ p = Plan([row EXCEPT !.status = "SPECIALISTS_RUNNING"], Specialists,
                      Key("after-specialists", 0, 0))
       \/ /\ row.status = "SPECIALISTS_RUNNING"
          /\ \/ p = Poll(row, Specialists, "after-specialists", 0)
             \/ p = [ToChief(row) EXCEPT !.contribute = ~contributed]
       \/ /\ row.status = "CHIEF_RUNNING"
          /\ \/ p = Poll(row, {Chief}, "after-chief", _next_candidate_version)
             \/ /\ AllReady({Chief})
                /\ p = [Plan([row EXCEPT !.status = "CONTROLLERS_RUNNING"], {},
                             Key("after-controllers", _next_candidate_version, 0))
                        EXCEPT !.candidate = runs[Chief].last]
       \/ /\ row.status = "CONTROLLERS_RUNNING"
          /\ \/ p = Poll(row, Controllers, "after-controllers", candidate.version)
             \/ p = Stop([row EXCEPT !.status = "BLOCKED"], "BLOCKED")
             \/ p = Revise(row)
             \/ \E verdicts : p = Accept(row, verdicts)
  BY <1>0, AdvanceKeys, Zenon
<1>15. QED
  BY <1>3, <1>4, <1>5, <1>6, <1>7, <1>8, <1>9, <1>10, <1>11, <1>12, <1>13, <1>14, Zenon

\* Why a stall is explained: unless advances overlap, the open one makes the next
\* job or finds the poll there is.
PollInv ==
  /\ \A w \in Workers : tx[w].open => tx[w].key \in DOMAIN jobs
  /\ overlapped \/
       /\ JobsBehind
       /\ \A w \in Workers : tx[w].open =>
            /\ tx[w].seen = workflow \/ (~InFlight /\ tx[w].seen.status \notin RunningStatus)
            /\ Foreseen(tx[w].seen, tx[w].plan)
       /\ StallExplained

LEMMA CurrentPollIs ==
  /\ CurrentPoll = PollFor(workflow.status, candidate.version, runs)
  /\ CurrentPoll' = PollFor(workflow'.status, candidate'.version, runs')
<1>1. /\ SumRuns(Specialists) = Total(runs, Specialists) /\ SumRuns(Controllers) = Total(runs, Controllers)
      /\ SumRuns(Specialists)' = Total(runs', Specialists)
      /\ SumRuns(Controllers)' = Total(runs', Controllers)
  BY SumIsTotal
<1>2. CurrentPoll = PollFor(workflow.status, candidate.version, runs)
  BY <1>1, Zenon DEF CurrentPoll, PollFor, _next_candidate_version
<1>3. CurrentPoll' = PollFor(workflow'.status, candidate'.version, runs')
  BY <1>1, Zenon DEF CurrentPoll, PollFor, _next_candidate_version
<1>4. QED
  BY <1>2, <1>3

\* Only the number of runs counts.
LEMMA SamePoll ==
  ASSUME NEW old, NEW new, NEW status, NEW v,
         \A r \in Roles : old[r].n \in Nat /\ new[r].n = old[r].n
  PROVE  PollFor(status, v, new) = PollFor(status, v, old)
<1>1. /\ Total(new, Specialists) = Total(old, Specialists)
      /\ Total(new, Controllers) = Total(old, Controllers)
      /\ new[Chief].n = old[Chief].n
  BY TotalSame, DecisionAssumption DEF Roles
<1>2. QED
  BY <1>1, Zenon DEF PollFor

\* What a plan foresees stays so while others only add jobs and end runs.
LEMMA ForeseenStays ==
  ASSUME NEW row, NEW p, Foreseen(row, p), DOMAIN jobs \subseteq DOMAIN jobs',
         candidate'.version = candidate.version, \A r \in Roles : runs'[r].n = runs[r].n
  PROVE  Foreseen(row, p)'
<1>1. Planned(p.runs)' = Planned(p.runs)
  BY DEF Planned
<1>2. Ends(p)' = Ends(p) /\ Moves(row, p)' = Moves(row, p)
  BY DEF Ends, Moves
<1>3. Waits(row, p) => Waits(row, p)'
  BY <1>1 DEF Waits
<1>4. QED
  BY <1>2, <1>3 DEF Foreseen

LEMMA MoreJobs ==
  ASSUME NEW K, jobs' = WithJobs(K)
  PROVE  /\ DOMAIN jobs' = DOMAIN jobs \cup K
         /\ \A k \in DOMAIN jobs : jobs'[k] = jobs[k]
         /\ \A k \in K \ DOMAIN jobs : jobs'[k] = "QUEUED"
BY DEF WithJobs

\* Runs end and the owner resumes: the workflow and its advance stay.
LEMMA PollCalm ==
  ASSUME DataTyped, PollInv, UNCHANGED <<workflow, candidate, tx, overlapped>>,
         \A r \in Roles : runs'[r].n = runs[r].n,
         DOMAIN jobs \subseteq DOMAIN jobs', \A k \in DOMAIN jobs : jobs'[k] = jobs[k],
         \A k \in DOMAIN jobs' \ DOMAIN jobs : k.at \in Status
  PROVE  PollInv'
<1>1. \A w \in Workers : tx'[w].open => tx'[w].key \in DOMAIN jobs'
  BY DEF PollInv
<1>2. ASSUME ~overlapped
      PROVE  /\ JobsBehind'
             /\ \A w \in Workers : tx'[w].open =>
                  /\ tx'[w].seen = workflow' \/ (~InFlight' /\ tx'[w].seen.status \notin RunningStatus)
                  /\ Foreseen(tx[w].seen, tx[w].plan)'
             /\ StallExplained'
  <2>1. /\ JobsBehind /\ StallExplained
        /\ \A w \in Workers : tx[w].open =>
             /\ tx[w].seen = workflow \/ (~InFlight /\ tx[w].seen.status \notin RunningStatus)
             /\ Foreseen(tx[w].seen, tx[w].plan)
    BY <1>2 DEF PollInv
  <2>2. \A k \in DOMAIN jobs' \ DOMAIN jobs : k.at \notin {"after-specialists", "after-chief", "after-controllers"}
    BY DEF Status
  <2>3. JobsBehind'
    BY <2>1, <2>2 DEF JobsBehind
  <2>4. ASSUME NEW w \in Workers, tx[w].open PROVE Foreseen(tx[w].seen, tx[w].plan)'
    <3>1. PICK row, p : row = tx[w].seen /\ p = tx[w].plan
      OBVIOUS
    <3>2. Foreseen(row, p)
      BY <2>1, <2>4, <3>1
    <3>3. Foreseen(row, p)'
      BY <3>2, ForeseenStays
    <3>4. row = tx'[w].seen /\ p = tx'[w].plan
      BY <3>1
    <3>5. QED
      BY <3>3, <3>4
  <2>5. CurrentPoll' = CurrentPoll
    <3>1. \A r \in Roles : runs[r].n \in Nat /\ runs'[r].n = runs[r].n
      BY DEF DataTyped
    <3>2. PollFor(workflow.status, candidate.version, runs') = PollFor(workflow.status, candidate.version, runs)
      BY <3>1, SamePoll
    <3>3. QED
      BY <3>2, CurrentPollIs
  <2>6. InFlight' = InFlight
    BY DEF InFlight
  <2>7. StallExplained'
    BY <1>2, <2>1, <2>5, <2>6 DEF StallExplained
  <2>8. QED
    BY <2>1, <2>3, <2>4, <2>6, <2>7
<1>3. QED
  BY <1>1, <1>2 DEF PollInv

\* No advance is open, and the one that was has ended its job like this.
LEMMA PollClosed ==
  ASSUME PollInv, DecisionInv, NEW w \in Workers, tx[w].open, tx' = [tx EXCEPT ![w] = NoTx],
         overlapped' = overlapped, DOMAIN jobs \subseteq DOMAIN jobs',
         ~overlapped => JobsBehind' /\ StallExplained'
  PROVE  PollInv'
<1>1. ~tx'[w].open /\ \A v \in Workers : v # w => tx'[v] = tx[v]
  BY DEF DecisionInv, NoTx
<1>2. \A v \in Workers : tx'[v].open => tx'[v].key \in DOMAIN jobs'
  BY <1>1 DEF PollInv
<1>3. ~overlapped => \A v \in Workers : ~tx'[v].open
  BY <1>1 DEF DecisionInv
<1>4. QED
  BY <1>2, <1>3 DEF PollInv

\* An advance fails, or its worker dies and the job is due again.
LEMMA PollFails ==
  ASSUME PollInv, DecisionInv, NEW w \in Workers, Raises(w) \/ Conflicts(w) \/ Crash(w)
  PROVE  PollInv'
<1>1. /\ tx[w].open /\ tx' = [tx EXCEPT ![w] = NoTx] /\ UNCHANGED <<workflow, candidate, overlapped>>
      /\ \E s \in {"QUEUED", "FAILED"} : jobs' = [jobs EXCEPT ![tx[w].key] = s]
  BY DEF Raises, Conflicts, Fails, Crash
<1>2. PICK key, s : /\ key = tx[w].key /\ key \in DOMAIN jobs
                    /\ s \in {"QUEUED", "FAILED"} /\ jobs' = [jobs EXCEPT ![key] = s]
  BY <1>1 DEF PollInv
<1>3. DOMAIN jobs' = DOMAIN jobs /\ jobs'[key] = s /\ key \in DOMAIN jobs'
  BY <1>2
<1>4. JobsBehind => JobsBehind'
  BY <1>1, <1>3 DEF JobsBehind
<1>5. StallExplained'
  BY <1>2, <1>3 DEF StallExplained
<1>6. QED
  BY <1>1, <1>3, <1>4, <1>5, PollClosed DEF PollInv

\* The owner starts the workflow, whose first job is queued.
LEMMA PollStart ==
  ASSUME PollInv, DecisionInv, start_decision_workflow
  PROVE  PollInv'
<1>1. /\ workflow.status = "NONE" /\ DOMAIN jobs = {} /\ \A w \in Workers : ~tx[w].open
  BY DEF start_decision_workflow, DecisionInv
<1>2. PICK key : key = Key("start", 0, 0) /\ jobs' = WithJobs({key})
  BY DEF start_decision_workflow
<1>3. DOMAIN jobs' = {key} /\ jobs'[key] = "QUEUED" /\ key.at = "start"
  BY <1>1, <1>2, MoreJobs DEF Key
<1>4. \A w \in Workers : ~tx'[w].open
  BY <1>1 DEF start_decision_workflow
<1>5. JobsBehind'
  BY <1>3 DEF JobsBehind
<1>6. StallExplained'
  BY <1>3 DEF StallExplained
<1>7. QED
  BY <1>4, <1>5, <1>6 DEF PollInv

\* The owner approves: the workflow is not in flight any more.
LEMMA PollApprove ==
  ASSUME PollInv, DecisionInv, approve_decision_for_production
  PROVE  PollInv'
<1>1. /\ workflow.status = "AWAITING_DECISION_APPROVAL" /\ workflow'.status = "APPROVED_FOR_PRODUCTION"
      /\ UNCHANGED <<jobs, runs, candidate, tx, overlapped>>
  BY DEF approve_decision_for_production, DecisionInv, WorkflowRows
<1>2. ~InFlight /\ ~InFlight' /\ workflow.status \notin RunningStatus
  BY <1>1 DEF InFlight, RunningStatus
<1>3. JobsBehind => JobsBehind'
  BY <1>1 DEF JobsBehind
<1>4. ASSUME NEW w \in Workers, Foreseen(tx[w].seen, tx[w].plan) PROVE Foreseen(tx[w].seen, tx[w].plan)'
  BY <1>1, <1>4 DEF Foreseen, Ends, Waits, Moves, Planned
<1>5. StallExplained'
  BY <1>2 DEF StallExplained
<1>6. QED
  BY <1>1, <1>2, <1>3, <1>4, <1>5 DEF PollInv

\* An advance begins with a plan of the row as it is.
LEMMA PollBegin ==
  ASSUME DataTyped, PollInv, DecisionInv, NEW w \in Workers, NEW k \in DOMAIN jobs, Begin(w, k)
  PROVE  PollInv'
<1>1. PICK plan : plan = _advance_workflow(workflow)
  OBVIOUS
<1>2. PICK opened : /\ opened = [open |-> TRUE, key |-> k, seen |-> workflow, plan |-> plan]
                    /\ tx' = [tx EXCEPT ![w] = opened]
  BY <1>1 DEF Begin
<1>3. /\ opened.plan = plan /\ opened.seen = workflow /\ opened.key = k /\ tx'[w] = opened
      /\ \A v \in Workers : v # w => tx'[v] = tx[v]
  BY <1>2 DEF DecisionInv
<1>4. /\ UNCHANGED <<workflow, runs, candidate>> /\ jobs' = [jobs EXCEPT ![k] = "RUNNING"]
      /\ overlapped' = (overlapped \/ \E v \in Workers : tx[v].open)
  BY DEF Begin
<1>5. DOMAIN jobs' = DOMAIN jobs /\ jobs'[k] = "RUNNING"
  BY <1>4
<1>6. \A v \in Workers : tx'[v].open => tx'[v].key \in DOMAIN jobs'
  BY <1>3, <1>5 DEF PollInv
<1>7. ASSUME ~overlapped'
      PROVE  /\ JobsBehind' /\ StallExplained'
             /\ \A v \in Workers : tx'[v].open => v = w
             /\ Foreseen(workflow, plan)'
  <2>1. ~overlapped /\ \A v \in Workers : ~tx[v].open
    BY <1>4, <1>7
  <2>2. JobsBehind
    BY <2>1 DEF PollInv
  <2>3. JobsBehind'
    BY <1>4, <1>5, <2>2 DEF JobsBehind
  <2>4. StallExplained'
    BY <1>5 DEF StallExplained
  <2>5. \A v \in Workers : tx'[v].open => v = w
    BY <1>3, <2>1
  <2>6. Foreseen(workflow, plan)
    BY <1>1, <2>2, AdvanceForeseen DEF DecisionInv
  <2>7. PICK row : row = workflow
    OBVIOUS
  <2>8. Foreseen(row, plan)'
    BY <1>4, <1>5, <2>6, <2>7, ForeseenStays
  <2>9. Foreseen(workflow, plan)'
    BY <1>4, <2>7, <2>8
  <2>10. QED
    BY <2>3, <2>4, <2>5, <2>9
<1>8. ASSUME NEW v \in Workers, tx'[v].open, ~overlapped'
      PROVE  tx'[v].seen = workflow' /\ Foreseen(tx[v].seen, tx[v].plan)'
  <2>1. v = w
    BY <1>7, <1>8
  <2>2. tx'[v].seen = workflow' /\ tx'[v].plan = plan
    BY <1>3, <1>4, <2>1
  <2>3. QED
    BY <1>7, <1>8, <2>2
<1>9. QED
  BY <1>6, <1>7, <1>8 DEF PollInv

LEMMA PollKeys ==
  ASSUME NEW v, NEW run
  PROVE  /\ PollFor("SPECIALISTS_RUNNING", v, run) = Key("after-specialists", 0, Total(run, Specialists))
         /\ PollFor("CHIEF_RUNNING", v, run) = Key("after-chief", v + 1, run[Chief].n)
         /\ PollFor("CONTROLLERS_RUNNING", v, run) = Key("after-controllers", v, Total(run, Controllers))
<1>1. /\ "SPECIALISTS_RUNNING" # "CHIEF_RUNNING" /\ "SPECIALISTS_RUNNING" # "CONTROLLERS_RUNNING"
      /\ "CHIEF_RUNNING" # "CONTROLLERS_RUNNING"
  OBVIOUS
<1>2. QED
  BY <1>1, Zenon DEF PollFor

\* Jobs stay behind a workflow that moves to this status with this candidate, if
\* the new ones do.
LEMMA StillBehind ==
  ASSUME DataTyped, JobsBehind, workflow \in WorkflowRows,
         candidate'.version \in {candidate.version, candidate.version + 1},
         workflow'.status = "SNAPSHOT_READY" => workflow.status = "SNAPSHOT_READY",
         workflow'.status = "SPECIALISTS_RUNNING" =>
           workflow.status \in {"SNAPSHOT_READY", "SPECIALISTS_RUNNING"},
         workflow'.status = "CONTROLLERS_RUNNING" =>
           workflow.status = "CONTROLLERS_RUNNING" \/ candidate'.version = candidate.version + 1,
         \A k \in DOMAIN jobs' \ DOMAIN jobs :
           /\ k.at = "after-specialists" => workflow'.status # "SNAPSHOT_READY"
           /\ k.at = "after-chief" =>
                k.v = candidate'.version + 1 /\ workflow'.status = "CHIEF_RUNNING"
           /\ k.at = "after-controllers" => k.v = candidate'.version
  PROVE  JobsBehind'
<1>1. candidate.version \in Nat /\ candidate'.version \in Nat
  BY DEF DataTyped
<1>2. SUFFICES ASSUME NEW k \in DOMAIN jobs'
               PROVE  /\ k.at = "after-specialists" => workflow'.status # "SNAPSHOT_READY"
                      /\ k.at = "after-chief" =>
                           /\ k.v \in Nat /\ k.v <= candidate'.version + 1
                           /\ k.v = candidate'.version + 1 => workflow'.status \notin
                                {"SNAPSHOT_READY", "SPECIALISTS_RUNNING", "CONTROLLERS_RUNNING"}
                      /\ k.at = "after-controllers" => k.v \in Nat /\ k.v <= candidate'.version
  BY DEF JobsBehind
<1>3. CASE k \in DOMAIN jobs
  BY <1>1, <1>3 DEF JobsBehind
<1>4. CASE k \notin DOMAIN jobs
  BY <1>1, <1>4
<1>5. QED
  BY <1>3, <1>4

\* A commit makes the jobs of the plan, all of them new, and ends its own.
LEMMA CommitJobs ==
  ASSUME PollInv, NEW w \in Workers, Commit(w)
  PROVE  /\ DOMAIN jobs' = DOMAIN jobs \cup tx[w].plan.jobs
         /\ \A k \in tx[w].plan.jobs : k \notin DOMAIN jobs /\ jobs'[k] = "QUEUED"
<1>1. PICK plan, key : plan = tx[w].plan /\ key = tx[w].key
  OBVIOUS
<1>2. key \in DOMAIN jobs /\ plan.jobs \cap DOMAIN jobs = {}
  BY <1>1 DEF Commit, Conflict, PollInv
<1>3. PICK more : more = WithJobs(plan.jobs)
  OBVIOUS
<1>4. /\ DOMAIN more = DOMAIN jobs \cup plan.jobs
      /\ \A k \in plan.jobs : more[k] = "QUEUED"
  BY <1>2, <1>3 DEF WithJobs
<1>5. jobs' = [more EXCEPT ![key] = "SUCCEEDED"]
  BY <1>1, <1>3 DEF Commit
<1>6. QED
  BY <1>1, <1>2, <1>4, <1>5

LEMMA CommitCounts ==
  ASSUME DataTyped, NEW w \in Workers, Commit(w), tx[w].plan.version = candidate.version
  PROVE  /\ candidate'.version = IF tx[w].plan.candidate # "none" THEN candidate.version + 1
                                 ELSE candidate.version
         /\ tx[w].plan.candidate = "none" =>
              \A r \in Roles : /\ Planned(tx[w].plan.runs)[r].n \in Nat
                               /\ runs'[r].n = Planned(tx[w].plan.runs)[r].n
<1>1. PICK plan : plan = tx[w].plan
  OBVIOUS
<1>2. PlanTyped(plan) /\ plan.version = candidate.version
  BY <1>1 DEF DataTyped, Commit
<1>3. candidate' = IF plan.candidate # "none"
                   THEN [version |-> plan.version + 1, status |-> "UNDER_REVIEW", kind |-> plan.candidate]
                   ELSE IF plan.judgement = "NONE" \/ candidate.version > plan.version
                   THEN candidate ELSE [candidate EXCEPT !.status = plan.judgement]
  BY <1>1 DEF Commit
<1>4. [candidate EXCEPT !.status = plan.judgement].version = candidate.version
  BY DEF DataTyped
<1>5. candidate'.version = IF plan.candidate # "none" THEN candidate.version + 1 ELSE candidate.version
  BY <1>2, <1>3, <1>4
<1>6. ASSUME plan.candidate = "none", NEW r \in Roles
      PROVE  Planned(plan.runs)[r].n \in Nat /\ runs'[r].n = Planned(plan.runs)[r].n
  <2>1. runs'[r] = IF r \in DOMAIN plan.runs THEN [n |-> plan.runs[r], last |-> "pending"] ELSE runs[r]
    BY <1>1, <1>6 DEF Commit
  <2>2. r \in DOMAIN plan.runs => plan.runs[r] \in Nat
    BY <1>2 DEF PlanTyped
  <2>3. runs[r].n \in Nat
    BY DEF DataTyped
  <2>4. Planned(plan.runs)[r].n = IF r \in DOMAIN plan.runs THEN plan.runs[r] ELSE runs[r].n
    BY DEF Planned
  <2>5. QED
    BY <2>1, <2>2, <2>3, <2>4
<1>7. QED
  BY <1>1, <1>5, <1>6

\* The one open advance commits what it foresaw.
LEMMA PollCommit ==
  ASSUME IsSequence, DataTyped, DecisionInv, RoundsInv, PollInv, NEW w \in Workers, Commit(w)
  PROVE  PollInv'
<1>1. PICK seen, plan : seen = tx[w].seen /\ plan = tx[w].plan
  OBVIOUS
<1>2. /\ tx[w].open /\ tx' = [tx EXCEPT ![w] = NoTx] /\ overlapped' = overlapped /\ ~plan.raises
  BY <1>1 DEF Commit
<1>3. /\ DOMAIN jobs' = DOMAIN jobs \cup plan.jobs
      /\ \A k \in plan.jobs : k \notin DOMAIN jobs /\ jobs'[k] = "QUEUED"
  BY <1>1, CommitJobs
<1>4. ASSUME ~overlapped PROVE JobsBehind' /\ StallExplained'
  <2>1. /\ JobsBehind /\ Foreseen(seen, plan) /\ workflow \in WorkflowRows
        /\ seen = workflow \/ (~InFlight /\ seen.status \notin RunningStatus)
        /\ plan.version = candidate.version /\ GoodPlan(seen, plan) /\ seen \in WorkflowRows
    BY <1>1, <1>2, <1>4 DEF PollInv, RoundsInv, DecisionInv
  <2>2. Ends(plan) \/ Waits(seen, plan) \/ Moves(seen, plan)
    BY <1>2, <2>1 DEF Foreseen
  <2>3. /\ candidate'.version = IF plan.candidate # "none" THEN candidate.version + 1
                                ELSE candidate.version
        /\ plan.candidate = "none" =>
             \A r \in Roles : /\ Planned(plan.runs)[r].n \in Nat
                              /\ runs'[r].n = Planned(plan.runs)[r].n
    BY <1>1, <2>1, CommitCounts
  <2>4. workflow'.status = IF seen = workflow THEN plan.row.status ELSE workflow.status
    <3>1. CASE seen = workflow
      BY <1>1, <3>1, CommitColumns
    <3>2. CASE seen # workflow
      <4>1. plan.row = seen
        BY <2>1, <3>2 DEF GoodPlan
      <4>2. QED
        BY <1>1, <3>2, <4>1, CommitRow
    <3>3. QED
      BY <3>1, <3>2
  <2>5. \A at, v, g : Key(at, v, g).at = at /\ Key(at, v, g).v = v
    BY DEF Key
  <2>6. CASE Ends(plan)
    <3>1. workflow'.status \notin RunningStatus /\ candidate'.version = candidate.version
      BY <2>1, <2>3, <2>4, <2>6 DEF Ends, InFlight
    <3>2. \A k \in DOMAIN jobs' \ DOMAIN jobs : k.at = "start"
      BY <1>3, <2>5, <2>6 DEF Ends
    <3>3. JobsBehind'
      BY <2>1, <3>1, <3>2, StillBehind DEF RunningStatus
    <3>4. StallExplained'
      BY <3>1 DEF StallExplained, InFlight
    <3>5. QED
      BY <3>3, <3>4
  <2>7. CASE Waits(seen, plan)
    <3>1. PICK key : key = PollFor(seen.status, candidate.version, Planned(plan.runs))
      OBVIOUS
    <3>2. /\ seen = workflow /\ workflow'.status = workflow.status /\ candidate'.version = candidate.version
          /\ plan.candidate = "none"
          /\ workflow.status \in {"SPECIALISTS_RUNNING", "CHIEF_RUNNING", "CONTROLLERS_RUNNING"}
      BY <2>1, <2>3, <2>4, <2>7 DEF Waits, RunningStatus
    <3>3. plan.jobs = {key} \/ (plan.jobs = {} /\ key \in DOMAIN jobs)
      BY <2>7, <3>1 DEF Waits
    <3>4. key \in DOMAIN jobs' /\ \A k \in DOMAIN jobs' \ DOMAIN jobs : k = key
      BY <1>3, <3>3
    <3>5. CurrentPoll' = key
      <4>1. PollFor(workflow.status, candidate.version, runs')
              = PollFor(workflow.status, candidate.version, Planned(plan.runs))
        BY <2>3, <3>2, SamePoll
      <4>2. QED
        BY <3>1, <3>2, <4>1, CurrentPollIs
    <3>6. StallExplained'
      BY <3>4, <3>5 DEF StallExplained
    <3>7. /\ key.at = "after-specialists" => workflow.status = "SPECIALISTS_RUNNING"
          /\ key.at = "after-chief" => workflow.status = "CHIEF_RUNNING" /\ key.v = candidate.version + 1
          /\ key.at = "after-controllers" => key.v = candidate.version
      BY <2>5, <3>1, <3>2, PollKeys
    <3>8. JobsBehind'
      BY <2>1, <3>2, <3>4, <3>7, StillBehind
    <3>9. QED
      BY <3>6, <3>8
  <2>8. CASE Moves(seen, plan)
    <3>1. seen = workflow /\ workflow'.status = plan.row.status
      BY <2>1, <2>4, <2>8 DEF Moves, RunningStatus
    <3>2. PICK key : plan.jobs = {key}
      BY <2>8 DEF Moves
    <3>3. key \in DOMAIN jobs' /\ jobs'[key] = "QUEUED" /\ \A k \in DOMAIN jobs' \ DOMAIN jobs : k = key
      BY <1>3, <3>2
    <3>4. StallExplained'
      BY <3>3 DEF StallExplained
    <3>5. \/ /\ workflow.status = "SNAPSHOT_READY" /\ workflow'.status = "SPECIALISTS_RUNNING"
             /\ candidate'.version = candidate.version /\ key.at = "after-specialists"
          \/ /\ workflow'.status = "CHIEF_RUNNING"
             /\ candidate'.version = candidate.version
             /\ key.at = "after-chief" /\ key.v = candidate.version + 1
          \/ /\ workflow'.status = "CONTROLLERS_RUNNING" /\ candidate'.version = candidate.version + 1
             /\ key.at = "after-controllers" /\ key.v = candidate.version + 1
      <4>1. key \in {Key("after-specialists", 0, 0)} => key.at = "after-specialists"
        BY <2>5
      <4>2. \A v : key \in {Key("after-chief", v, 0)} => key.at = "after-chief" /\ key.v = v
        BY <2>5
      <4>3. \A v : key \in {Key("after-controllers", v, 0)} => key.at = "after-controllers" /\ key.v = v
        BY <2>5
      <4>4. QED
        BY <2>3, <2>8, <3>1, <3>2, <4>1, <4>2, <4>3 DEF Moves
    <3>6. JobsBehind'
      BY <2>1, <3>3, <3>5, StillBehind
    <3>7. QED
      BY <3>4, <3>6
  <2>9. QED
    BY <2>2, <2>6, <2>7, <2>8
<1>5. QED
  BY <1>2, <1>3, <1>4, PollClosed

LEMMA PollStep ==
  ASSUME IsSequence, DataTyped, DecisionInv, RoundsInv, PollInv, [DecisionNext]_decisionVars
  PROVE  PollInv'
<1>1. CASE UNCHANGED decisionVars
  BY <1>1, PollCalm DEF decisionVars
<1>2. ASSUME NEW r \in Roles, RunFinishes(r) \/ RunOrphaned(r) PROVE PollInv'
  <2>1. PICK result : runs' = [runs EXCEPT ![r] = [n |-> runs[r].n, last |-> result]]
    BY <1>2 DEF RunFinishes, RunEnds, RunOrphaned
  <2>2. PICK run : run = [n |-> runs[r].n, last |-> result]
    OBVIOUS
  <2>3. run.n = runs[r].n /\ runs' = [runs EXCEPT ![r] = run]
    BY <2>1, <2>2
  <2>4. \A s \in Roles : runs'[s].n = runs[s].n
    BY <2>3 DEF DataTyped
  <2>5. UNCHANGED <<workflow, candidate, tx, overlapped, jobs>>
    BY <1>2 DEF RunFinishes, RunEnds, RunOrphaned
  <2>6. QED
    BY <2>4, <2>5, PollCalm
<1>3. CASE Resume
  <2>1. PICK key : key = Key(workflow.status, workflow.rev, 0) /\ jobs' = WithJobs({key})
    BY <1>3 DEF Resume
  <2>2. key.at \in Status
    BY <2>1 DEF Key, DecisionInv, WorkflowRows
  <2>3. UNCHANGED <<workflow, runs, candidate, tx, overlapped>>
    BY <1>3 DEF Resume
  <2>4. /\ DOMAIN jobs' = DOMAIN jobs \cup {key} /\ \A k \in DOMAIN jobs : jobs'[k] = jobs[k]
    BY <2>1, MoreJobs
  <2>5. QED
    BY <2>2, <2>3, <2>4, PollCalm
<1>4. CASE start_decision_workflow
  BY <1>4, PollStart
<1>5. CASE approve_decision_for_production
  BY <1>5, PollApprove
<1>6. ASSUME NEW w \in Workers, WorkerStep(w) \/ Crash(w) PROVE PollInv'
  BY <1>6, PollBegin, PollCommit, PollFails DEF WorkerStep
<1>7. QED
  BY <1>1, <1>2, <1>3, <1>4, <1>5, <1>6 DEF DecisionNext, Owner

\* As long as advances do not overlap, an unfinished workflow always has an advance
\* job coming, or one failed, or the poll of the current generation is spent (Poll: the key of a poll holds the
\* number of runs, and create_job does not make a second job of the same key).
THEOREM StallsAreExplained == DecisionSpec => []StallExplained
<1>1. DecisionInit => PollInv
  BY DEF DecisionInit, PollInv, NoTx, JobsBehind, StallExplained, InFlight, RunningStatus
<1>2. IsSequence /\ DataTyped /\ DecisionInv /\ RoundsInv /\ PollInv /\ [DecisionNext]_decisionVars
        => PollInv'
  BY PollStep
<1>3. PollInv => StallExplained
  BY DEF PollInv, StallExplained
<1>4. QED
  BY <1>1, <1>2, <1>3, DataInvariant, DecisionInvariant, RoundsInvariant, PTL DEF DecisionSpec
=============================================================================
