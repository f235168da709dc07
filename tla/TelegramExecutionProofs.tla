---------------------- MODULE TelegramExecutionProofs ----------------------
(***************************************************************************)
(* Proofs about TelegramExecution, for any set of workers, actions and     *)
(* accounts and any number of faults.  The execution engine only takes     *)
(* steps of the job runtime, so what JobRuntimeProofs proves of the        *)
(* runtime holds here; SendInv adds where the message can have been sent,  *)
(* HandlerHonest what the handler knows when it writes, OutcomeInv that it *)
(* has read the rows as they are, ExperimentGuarded the same of the        *)
(* experiment for one worker.                                              *)
(***************************************************************************)
EXTENDS TelegramExecution, JobRuntimeProofs

\* Every step of the execution engine is a step of the job runtime, or leaves
\* the runtime alone.
LEMMA EngineStep == [ExecNext]_execVars => [Next]_vars
<1> SUFFICES ASSUME [ExecNext]_execVars PROVE Next \/ UNCHANGED vars
  BY DEF execVars, vars
<1>1. CASE Owner
  <2>1. CASE \E c \in Accounts, ready \in BOOLEAN :
               \E chat \in Targets[c] : probe_and_register_telegram_connector(c, ready, chat)
    BY <2>1 DEF probe_and_register_telegram_connector
  <2>2. CASE \E S \in SUBSET Switches : set_global_execution_controls(S)
    BY <2>2 DEF set_global_execution_controls
  <2>3. CASE \E x \in Direct, clean \in BOOLEAN : create_action_proposal(x, clean)
    BY <2>3 DEF create_action_proposal
  <2>4. CASE \E x \in Direct : \/ ApproveBegin(x) \/ ApproveCommit(x)
                               \/ ApproveRollback(x) \/ ApproveAgain(x)
    BY <2>4 DEF ApproveBegin, ApproveCommit, ApproveRollback, ApproveAgain, Next, Client
  <2>5. QED
    BY <1>1, <2>1, <2>2, <2>3, <2>4 DEF Owner
<1>2. ASSUME NEW w \in Workers, HandlerStep(w) PROVE Next \/ UNCHANGED vars
  <2>1. CASE \/ LoadExecution(w) \/ Preflight(w) \/ MarkRunning(w)
             \/ ProviderAccepts(w)
             \/ (\E delivered \in BOOLEAN : ProviderRejects(w, delivered) \/ ProviderAmbiguous(w, delivered))
    BY <2>1 DEF LoadExecution, Preflight, MarkRunning, ProviderAccepts, ProviderRejects,
                ProviderAmbiguous
  <2>2. CASE FinishCommits(w) \/ FinishConflicts(w) \/ DbFails(w)
    <3>1. HandlerSucceeds(w) \/ HandlerRaises(w, FALSE)
      BY <2>2 DEF FinishCommits, FinishConflicts, DbFails
    <3>2. QED
      BY <3>1 DEF Next, WorkerStep
  <2>3. QED
    BY <1>2, <2>1, <2>2 DEF HandlerStep
<1>3. ASSUME NEW w \in Workers, Crash(w) PROVE Next
  BY <1>3 DEF Crash, Next, Fault
<1>4. CASE Background
  BY <1>4 DEF Background, Next, Fault
<1>5. ASSUME NEW w \in Workers, RuntimeStep(w) PROVE Next
  BY <1>5 DEF RuntimeStep, Next, WorkerStep
<1>6. CASE UNCHANGED execVars
  BY <1>6 DEF execVars
<1>7. QED
  BY <1>1, <1>2, <1>3, <1>4, <1>5, <1>6 DEF ExecNext

\* The execution engine runs on the job runtime.
THEOREM EngineUsesRuntime == ExecSpec => Spec
<1>1. ExecInit => Init
  BY DEF ExecInit
<1>2. QED
  BY <1>1, EngineStep, PTL DEF ExecSpec, Spec

-----------------------------------------------------------------------------
\* A worker becomes engaged with a job by claiming it; it enters the handler
\* from there.
LEMMA WorkerMoves ==
  ASSUME TypeOK, [Next]_vars, NEW w \in Workers, NEW x \in Jobs, Engaged(w, x)'
  PROVE  \/ /\ Engaged(w, x)
            /\ worker'[w].pc = "claimed" => worker[w].pc = "claimed"
            /\ worker'[w].pc = "handling" => worker[w].pc \in {"claimed", "handling"}
         \/ /\ worker[w].pc = "popped" /\ worker[w].job = x
            /\ Claimable(jobs[x]) /\ jobs' = [jobs EXCEPT ![x] = ClaimedRow(w, jobs[x])]
<1> USE DEF Engaged
<1>1. CASE worker'[w] = worker[w]
  BY <1>1
<1>2. CASE Claim(w)
  <2>1. worker'[w] # Idle
    BY RowTypes
  <2>2. QED
    BY <1>2, <2>1 DEF Claim, At, TypeOK
<1>3. CASE BeginHandling(w)
  <2>1. worker'[w] # Idle
    BY RowTypes
  <2>2. QED
    BY <1>3, <2>1 DEF BeginHandling, At, TypeOK
<1>4. CASE LoadForFailure(w)
  BY <1>4 DEF LoadForFailure, At, TypeOK
<1>5. CASE \E retry \in BOOLEAN : HandlerRaises(w, retry)
  BY <1>5 DEF HandlerRaises, At, TypeOK
<1>6. CASE HandlerSucceeds(w) \/ RecordFailure(w) \/ CrashWorker(w)
  BY <1>6, RowTypes DEF HandlerSucceeds, RecordFailure, CrashWorker, TypeOK
<1>7. CASE \E j \in Jobs : Dequeue(w, j)
  BY <1>7 DEF Dequeue, At, TypeOK
<1>8. ASSUME NEW v \in Workers, v # w,
             WorkerStep(v) \/ (\E j \in Jobs : Dequeue(v, j)) \/ CrashWorker(v)
      PROVE  worker'[w] = worker[w]
  BY <1>8 DEF WorkerStep, Claim, BeginHandling, HandlerSucceeds, HandlerRaises,
              LoadForFailure, RecordFailure, Dequeue, CrashWorker, TypeOK
<1>9. CASE \/ Client \/ Scheduler \/ CrashScheduler \/ UNCHANGED vars
           \/ \E j \in Jobs : Clock(j) \/ LoseMessage(j)
  <2>1. worker' = worker
    BY <1>9 DEF Client, SubmitNew, SubmitCommit, SubmitRollback, SubmitExisting, EmitEvent,
                Scheduler, SchedRecover, SchedOutbox, SchedDue, SchedCommit, Clock,
                OrphanLeaseExpires, LeaseExpiresUnderWorker, BackoffElapses, LoseMessage,
                CrashScheduler, vars
  <2>2. QED
    BY <1>1, <2>1
<1>10. QED
  BY <1>1, <1>2, <1>3, <1>4, <1>5, <1>6, <1>7, <1>8, <1>9 DEF Next, Fault, WorkerStep

\* attempt_count only grows while a job's lease has not expired.
LEMMA AttemptGrows ==
  ASSUME TypeOK, LeaseInv, [Next]_vars, NEW x \in Jobs, x \notin lapsed
  PROVE  jobs[x].attempt > 0 => jobs'[x].attempt > 0
<1>1. jobs[x].attempt \in Nat
  BY DEF TypeOK, Row
<1>2. CASE Committed(x)
  BY <1>1, <1>2, CommittedRowStep DEF RowKeepsAttempt
<1>3. CASE ~Committed(x)
  BY <1>3 DEF LeaseInv, RowInOrder
<1>4. QED
  BY <1>2, <1>3

LEMMA LapsedGrows == ASSUME [Next]_vars PROVE lapsed \subseteq lapsed'
BY DEF Next, Client, SubmitNew, SubmitCommit, SubmitRollback, SubmitExisting, EmitEvent,
       WorkerStep, Claim, BeginHandling, HandlerSucceeds, HandlerRaises, LoadForFailure,
       RecordFailure, Dequeue, Scheduler, SchedRecover, SchedOutbox, SchedDue, SchedCommit,
       Clock, OrphanLeaseExpires, LeaseExpiresUnderWorker, ExpireLease, BackoffElapses,
       Fault, LoseMessage, CrashWorker, CrashScheduler, vars

-----------------------------------------------------------------------------
LEMMA JobsAreActions == Jobs = Direct
BY ActionsAssumption DEF Jobs

LEMMA StageType ==
  ASSUME NEW stage \in {"entered", "loaded", "cleared", "sending", "ending"},
         NEW a \in ActionStatus, NEW e \in ExecutionStatus, NEW id \in Nat,
         NEW outcome \in {"RETURN", "BLOCK", "REUSE", "PUBLISHED", "REJECTED", "AMBIGUOUS"}
  PROVE  /\ Stage(stage, a, e, outcome, id) \in HandlerState
         /\ Stage(stage, a, e, outcome, id).stage = stage
BY DEF Stage, HandlerState

LEMMA EnteredType == Entered \in HandlerState /\ Entered.stage = "entered"
BY StageType DEF Entered, ActionStatus, ExecutionStatus

LEMMA AfterTypes ==
  ASSUME NEW h \in HandlerState
  PROVE  ExecutionAfter(h) \in ExecutionStatus /\ ActionAfter(h) \in ActionStatus
<1>1. /\ h.seenExecution \in ExecutionStatus /\ h.seenAction \in ActionStatus
      /\ h.outcome \in {"RETURN", "BLOCK", "REUSE", "PUBLISHED", "REJECTED", "AMBIGUOUS"}
  BY DEF HandlerState
<1>2. {"BLOCKED", "SUCCEEDED", "FAILED", "UNKNOWN_EXTERNAL_OUTCOME"} \subseteq ExecutionStatus
  BY DEF ExecutionStatus
<1>3. {"BLOCKED", "EXECUTED"} \subseteq ActionStatus
  BY DEF ActionStatus
<1>4. ExecutionAfter(h) \in ExecutionStatus
  BY <1>1, <1>2, Zenon DEF ExecutionAfter
<1>5. ActionAfter(h) \in ActionStatus
  BY <1>1, <1>3, Zenon DEF ActionAfter
<1>6. QED
  BY <1>4, <1>5

LEMMA Bindings ==
  ASSUME NEW x \in Direct
  PROVE  Decision[x] \in Decisions /\ Account[x] \in Accounts /\ Chat[x] \in Chats
BY ActionsAssumption DEF Decisions, Accounts, Chats

LEMMA ExecTypeStep == ExecTypeOK /\ [ExecNext]_execVars => ExecTypeOK'
<1> SUFFICES ASSUME ExecTypeOK, [ExecNext]_execVars PROVE ExecTypeOK'
  OBVIOUS
<1>1. TypeOK'
  BY EngineStep, TypeStep DEF ExecTypeOK
<1> DEFINE Rest ==
      /\ action \in [Direct -> ActionStatus]
      /\ execution \in [Direct -> ExecutionStatus]
      /\ reference \in [Direct -> Nat]
      /\ experiment \in [Decisions -> {"NONE", "DRAFT", "RUNNING"}]
      /\ account \in [Accounts -> [ready : BOOLEAN, chat : Chats]]
      /\ controls \subseteq Switches
      /\ handler \in [Workers -> HandlerState]
      /\ posted \in [Chats -> Nat]
      /\ sent \in [Direct -> Nat]
<1>2. Rest
  BY DEF ExecTypeOK
<1>3. ASSUME NEW c \in Accounts, NEW ready \in BOOLEAN, NEW chat \in Targets[c],
             probe_and_register_telegram_connector(c, ready, chat)
      PROVE  Rest'
  <2>1. chat \in Chats
    BY DEF Chats
  <2>2. QED
    BY <1>2, <1>3, <2>1 DEF probe_and_register_telegram_connector
<1>4. ASSUME NEW S \in SUBSET Switches, set_global_execution_controls(S) PROVE Rest'
  BY <1>2, <1>4 DEF set_global_execution_controls
<1>5. ASSUME NEW x \in Direct, NEW clean \in BOOLEAN, create_action_proposal(x, clean) PROVE Rest'
  BY <1>2, <1>5 DEF create_action_proposal, ActionStatus
<1>6. ASSUME NEW x \in Direct,
             ApproveBegin(x) \/ ApproveCommit(x) \/ ApproveRollback(x) \/ ApproveAgain(x)
      PROVE  Rest'
  BY <1>2, <1>6 DEF ApproveBegin, ApproveCommit, ApproveRollback, ApproveAgain, world,
                    ActionStatus, ExecutionStatus
<1>7. ASSUME NEW w \in Workers, worker[w].pc = "handling"
      PROVE  worker[w].job \in Direct
  BY <1>7, JobsAreActions DEF ExecTypeOK, TypeOK
<1>8. ASSUME NEW w \in Workers, HandlerStep(w) PROVE Rest'
  <2>1. ASSUME NEW h \in HandlerState, handler' = [handler EXCEPT ![w] = h], UNCHANGED world
        PROVE  Rest'
    BY <1>2, <2>1 DEF world
  <2>2. handler[w].seenAction \in ActionStatus /\ handler[w].seenExecution \in ExecutionStatus
    BY <1>2 DEF HandlerState
  <2>3. "RUNNING" \in ExecutionStatus
    BY DEF ExecutionStatus
  <2>4. CASE LoadExecution(w)
    <3>1. PICK x \in Direct : x = worker[w].job
      BY <1>7, <2>4 DEF LoadExecution, HandlerAt
    <3>2. action[x] \in ActionStatus /\ execution[x] \in ExecutionStatus
      BY <1>2
    <3>3. /\ Stage("ending", action[x], execution[x], "RETURN", 0) \in HandlerState
          /\ Stage("loaded", action[x], execution[x], "RETURN", 0) \in HandlerState
      BY <3>2, StageType
    <3>4. PICK h \in HandlerState : handler' = [handler EXCEPT ![w] = h]
      BY <2>4, <3>1, <3>3 DEF LoadExecution
    <3>5. QED
      BY <2>1, <2>4, <3>4 DEF LoadExecution
  <2>5. CASE Preflight(w)
    <3>1. \A stage \in {"ending", "cleared"}, outcome \in {"BLOCK", "REUSE", "RETURN"} :
            Stage(stage, handler[w].seenAction, handler[w].seenExecution, outcome, 0) \in HandlerState
      BY <2>2, StageType
    <3>2. PICK h \in HandlerState : handler' = [handler EXCEPT ![w] = h]
      BY <2>5, <3>1 DEF Preflight
    <3>3. QED
      BY <2>1, <2>5, <3>2 DEF Preflight
  <2>6. CASE MarkRunning(w)
    <3>1. Stage("sending", handler[w].seenAction, "RUNNING", "RETURN", 0) \in HandlerState
      BY <2>2, <2>3, StageType
    <3>2. QED
      BY <2>1, <2>6, <3>1 DEF MarkRunning
  <2>7. ASSUME ProviderAccepts(w)
               \/ \E delivered \in BOOLEAN : ProviderRejects(w, delivered) \/ ProviderAmbiguous(w, delivered)
        PROVE  Rest'
    <3>1. PICK x \in Direct : x = worker[w].job
      BY <1>7, <2>7 DEF ProviderAccepts, ProviderRejects, ProviderAmbiguous, HandlerAt
    <3>2. Chat[x] \in Chats /\ posted[Chat[x]] + 1 \in Nat
      BY <1>2, Bindings
    <3>3. /\ Stage("ending", handler[w].seenAction, "RUNNING", "PUBLISHED", posted[Chat[x]] + 1)
               \in HandlerState
          /\ Stage("ending", handler[w].seenAction, "RUNNING", "REJECTED", 0) \in HandlerState
          /\ Stage("ending", handler[w].seenAction, "RUNNING", "AMBIGUOUS", 0) \in HandlerState
      BY <2>2, <2>3, <3>2, StageType
    <3>4. PICK h \in HandlerState : handler' = [handler EXCEPT ![w] = h]
      BY <2>7, <3>1, <3>3 DEF ProviderAccepts, ProviderRejects, ProviderAmbiguous, Answer
    <3>5. posted' \in [Chats -> Nat] /\ sent' \in [Direct -> Nat]
      BY <1>2, <2>7, <3>1, <3>2
         DEF ProviderAccepts, ProviderRejects, ProviderAmbiguous, MayDeliver, Deliver
    <3>6. UNCHANGED <<action, execution, reference, experiment, account, controls>>
      BY <2>7 DEF ProviderAccepts, ProviderRejects, ProviderAmbiguous
    <3>7. QED
      BY <1>2, <3>4, <3>5, <3>6
  <2>8. CASE FinishCommits(w)
    <3>1. PICK x \in Direct : x = worker[w].job
      BY <1>7, <2>8 DEF FinishCommits, HandlerAt
    <3>2. PICK h \in HandlerState : h = handler[w]
      BY <1>2
    <3>3. /\ execution' = [execution EXCEPT ![x] =
                             Column(execution[x], h.seenExecution, ExecutionAfter(h))]
          /\ action' = [action EXCEPT ![x] = Column(action[x], h.seenAction, ActionAfter(h))]
          /\ reference' = reference \/ reference' = [reference EXCEPT ![x] = h.id]
          /\ experiment' = experiment
             \/ experiment' = [experiment EXCEPT ![Decision[x]] = "RUNNING"]
          /\ handler' = [handler EXCEPT ![w] = Entered]
          /\ UNCHANGED <<account, controls, posted, sent>>
      BY <2>8, <3>1, <3>2 DEF FinishCommits
    <3>4. execution' \in [Direct -> ExecutionStatus] /\ action' \in [Direct -> ActionStatus]
      BY <1>2, <3>3, AfterTypes DEF Column
    <3>5. reference' \in [Direct -> Nat]
      <4>1. h.id \in Nat
        BY DEF HandlerState
      <4>2. QED
        BY <1>2, <3>3, <4>1
    <3>6. experiment' \in [Decisions -> {"NONE", "DRAFT", "RUNNING"}]
      BY <1>2, <3>3, Bindings
    <3>7. QED
      BY <1>2, <3>3, <3>4, <3>5, <3>6, EnteredType
  <2>9. CASE FinishConflicts(w) \/ DbFails(w)
    BY <2>1, <2>9, EnteredType DEF FinishConflicts, DbFails
  <2>10. QED
    BY <1>8, <2>4, <2>5, <2>6, <2>7, <2>8, <2>9 DEF HandlerStep
<1>9. ASSUME NEW w \in Workers, Crash(w) PROVE Rest'
  BY <1>2, <1>9, EnteredType DEF Crash, world
<1>10. ASSUME UNCHANGED <<world, handler>> PROVE Rest'
  BY <1>2, <1>10 DEF world
<1>11. Rest'
  BY <1>3, <1>4, <1>5, <1>6, <1>8, <1>9, <1>10 DEF ExecNext, Owner, execVars
<1>12. QED
  BY <1>1, <1>11 DEF ExecTypeOK

\* Type correctness of the execution engine.
THEOREM ExecTypeCorrect == ExecSpec => []ExecTypeOK
<1>1. ExecInit => ExecTypeOK
  <2> SUFFICES ASSUME ExecInit PROVE ExecTypeOK
    OBVIOUS
  <2>1. TypeOK
    BY InitType DEF ExecInit
  <2>2. QED
    BY <2>1, EnteredType DEF ExecInit, ExecTypeOK, ActionStatus, ExecutionStatus
<1>2. QED
  BY <1>1, ExecTypeStep, PTL DEF ExecSpec

-----------------------------------------------------------------------------
\* A handler whose provider call has ended stays there until the worker leaves it.
LEMMA HandlerMoves ==
  ASSUME ExecTypeOK, [ExecNext]_execVars, NEW w \in Workers,
         worker[w].pc = "handling", worker'[w].pc = "handling", handler[w].stage = "ending"
  PROVE  handler'[w].stage = "ending"
<1>1. ASSUME NEW v \in Workers, handler' = [handler EXCEPT ![v] = handler'[v]], v # w
      PROVE  handler'[w] = handler[w]
  BY <1>1 DEF ExecTypeOK
<1>2. ASSUME NEW v \in Workers, HandlerStep(v), v # w PROVE handler'[w] = handler[w]
  BY <1>2 DEF HandlerStep, LoadExecution, Preflight, MarkRunning, ProviderAccepts, ProviderRejects,
     ProviderAmbiguous, Answer, FinishCommits, FinishConflicts, DbFails, ExecTypeOK
<1>3. ~(HandlerStep(w) \/ Crash(w)) \/ handler'[w].stage = "ending"
  <2>1. ~(FinishCommits(w) \/ FinishConflicts(w) \/ DbFails(w) \/ Crash(w))
    BY RowTypes DEF FinishCommits, FinishConflicts, DbFails, Crash, HandlerSucceeds, HandlerRaises,
                    CrashWorker, At, ExecTypeOK, TypeOK
  <2>2. ~(LoadExecution(w) \/ Preflight(w) \/ MarkRunning(w) \/ ProviderAccepts(w)
          \/ \E delivered \in BOOLEAN : ProviderRejects(w, delivered) \/ ProviderAmbiguous(w, delivered))
    BY DEF LoadExecution, Preflight, MarkRunning, ProviderAccepts, ProviderRejects,
           ProviderAmbiguous, HandlerAt
  <2>3. QED
    BY <2>1, <2>2 DEF HandlerStep
<1>4. ASSUME NEW v \in Workers, Crash(v), v # w PROVE handler'[w] = handler[w]
  BY <1>4 DEF Crash, ExecTypeOK
<1>5. CASE Owner \/ UNCHANGED handler
  BY <1>5 DEF Owner, probe_and_register_telegram_connector, set_global_execution_controls,
     create_action_proposal, ApproveBegin, ApproveCommit, ApproveRollback, ApproveAgain
<1>6. QED
  BY <1>2, <1>3, <1>4, <1>5 DEF ExecNext, execVars

\* Only a provider call sends, from the stage "sending".
LEMMA SentMoves ==
  ASSUME ExecTypeOK, [ExecNext]_execVars
  PROVE  \/ sent' = sent
         \/ \E w \in Workers, k \in Direct :
              /\ k = worker[w].job /\ worker[w].pc = "handling" /\ handler[w].stage = "sending"
              /\ sent' = [sent EXCEPT ![k] = @ + 1]
              /\ handler'[w].stage = "ending"
              /\ UNCHANGED vars
<1>1. ASSUME NEW w \in Workers,
             ProviderAccepts(w)
             \/ \E delivered \in BOOLEAN : ProviderRejects(w, delivered) \/ ProviderAmbiguous(w, delivered)
      PROVE  \/ sent' = sent
             \/ \E k \in Direct :
                  /\ k = worker[w].job /\ worker[w].pc = "handling" /\ handler[w].stage = "sending"
                  /\ sent' = [sent EXCEPT ![k] = @ + 1]
                  /\ handler'[w].stage = "ending"
                  /\ UNCHANGED vars
  <2>1. PICK k \in Direct : k = worker[w].job
    BY <1>1, JobsAreActions
       DEF ProviderAccepts, ProviderRejects, ProviderAmbiguous, HandlerAt, ExecTypeOK, TypeOK
  <2>2. handler'[w].stage = "ending"
    BY <1>1 DEF ProviderAccepts, ProviderRejects, ProviderAmbiguous, Answer, Stage, ExecTypeOK
  <2>3. QED
    BY <1>1, <2>1, <2>2
       DEF ProviderAccepts, ProviderRejects, ProviderAmbiguous, HandlerAt, MayDeliver, Deliver
<1>2. ASSUME NEW w \in Workers, HandlerStep(w) \/ Crash(w),
             ~ProviderAccepts(w),
             ~\E delivered \in BOOLEAN : ProviderRejects(w, delivered) \/ ProviderAmbiguous(w, delivered)
      PROVE  sent' = sent
  BY <1>2 DEF HandlerStep, LoadExecution, Preflight, MarkRunning,
     FinishCommits, FinishConflicts, DbFails, Crash, world
<1>3. CASE Owner \/ UNCHANGED world
  BY <1>3 DEF Owner, probe_and_register_telegram_connector, set_global_execution_controls,
     create_action_proposal, ApproveBegin, ApproveCommit, ApproveRollback, ApproveAgain, world
<1>4. QED
  BY <1>1, <1>2, <1>3 DEF ExecNext, execVars

LEMMA SendStep ==
  ASSUME ExecTypeOK, LeaseInv, SendInv, [ExecNext]_execVars
  PROVE  SendInv'
<1>1. TypeOK /\ [Next]_vars
  BY EngineStep DEF ExecTypeOK
<1> SUFFICES ASSUME NEW x \in Direct, x \notin lapsed'
             PROVE  /\ sent'[x] <= 1
                    /\ jobs'[x].attempt = 0 => sent'[x] = 0
                    /\ \A w \in Workers : Engaged(w, x)' =>
                         /\ jobs'[x].attempt > 0
                         /\ (\/ worker'[w].pc = "claimed"
                             \/ worker'[w].pc = "handling" /\ handler'[w].stage # "ending")
                              => sent'[x] = 0
  BY DEF SendInv
<1>2. x \in Jobs /\ x \notin lapsed
  BY <1>1, LapsedGrows, JobsAreActions
<1>3. /\ sent[x] \in Nat /\ sent[x] <= 1
      /\ jobs[x].attempt = 0 => sent[x] = 0
      /\ \A w \in Workers : Engaged(w, x) =>
           /\ jobs[x].attempt > 0
           /\ (\/ worker[w].pc = "claimed"
               \/ worker[w].pc = "handling" /\ handler[w].stage # "ending") => sent[x] = 0
  BY <1>2 DEF SendInv, ExecTypeOK
<1>4. jobs[x].attempt \in Nat /\ (jobs[x].attempt > 0 => jobs'[x].attempt > 0)
  BY <1>1, <1>2, AttemptGrows DEF TypeOK, Row
<1>5. CASE sent'[x] = sent[x]
  <2>1. jobs'[x].attempt = 0 => sent'[x] = 0
    BY <1>3, <1>4, <1>5
  <2>2. ASSUME NEW w \in Workers, Engaged(w, x)', Engaged(w, x),
               worker'[w].pc = "claimed" => worker[w].pc = "claimed",
               worker'[w].pc = "handling" => worker[w].pc \in {"claimed", "handling"}
        PROVE  /\ jobs'[x].attempt > 0
               /\ (\/ worker'[w].pc = "claimed"
                   \/ worker'[w].pc = "handling" /\ handler'[w].stage # "ending") => sent'[x] = 0
    <3>1. jobs'[x].attempt > 0
      BY <1>3, <1>4, <2>2
    <3>2. ASSUME worker'[w].pc = "handling", handler'[w].stage # "ending", worker[w].pc = "handling"
          PROVE  handler[w].stage # "ending"
      BY <3>2, HandlerMoves
    <3>3. QED
      BY <1>3, <1>5, <2>2, <3>1, <3>2
  <2>3. ASSUME NEW w \in Workers, Claimable(jobs[x]),
               jobs' = [jobs EXCEPT ![x] = ClaimedRow(w, jobs[x])]
        PROVE  jobs'[x].attempt > 0 /\ sent'[x] = 0
    <3>1. jobs[x].attempt < MaxAttempts[x]
      BY <1>2, <2>3 DEF Claimable, Due, LeaseExpired, LeaseInv, RowInOrder
    <3>2. jobs[x].attempt = 0
      BY <1>4, <3>1, ActionsAssumption
    <3>3. jobs'[x].attempt = 1
      BY <1>1, <1>2, <2>3, <3>2 DEF ClaimedRow, TypeOK
    <3>4. QED
      BY <1>3, <1>5, <3>2, <3>3
  <2>4. QED
    BY <1>1, <1>2, <1>3, <1>5, <2>1, <2>2, <2>3, WorkerMoves
<1>6. CASE sent'[x] # sent[x]
  <2>1. PICK w \in Workers :
          /\ x = worker[w].job /\ worker[w].pc = "handling" /\ handler[w].stage = "sending"
          /\ sent' = [sent EXCEPT ![x] = @ + 1]
          /\ handler'[w].stage = "ending"
          /\ UNCHANGED vars
    BY <1>6, SentMoves DEF ExecTypeOK
  <2>2. Engaged(w, x) /\ sent[x] = 0 /\ jobs[x].attempt > 0
    BY <1>3, <2>1 DEF Engaged
  <2>3. sent'[x] = 1
    BY <2>1, <2>2 DEF ExecTypeOK
  <2>4. jobs' = jobs /\ worker' = worker
    BY <2>1 DEF vars
  <2>5. \A v \in Workers : Engaged(v, x) => v = w
    BY <1>2, <2>2 DEF LeaseInv, HolderInOrder
  <2>6. \A v \in Workers : Engaged(v, x)' => v = w
    BY <2>4, <2>5 DEF Engaged
  <2>7. QED
    BY <2>1, <2>2, <2>3, <2>4, <2>6
<1>7. QED
  BY <1>5, <1>6

LEMMA SendInvariant == ExecSpec => []SendInv
<1>1. ExecInit => SendInv
  BY DEF ExecInit, Init, SendInv, Engaged, Idle, At
<1>2. ExecTypeOK /\ LeaseInv /\ SendInv /\ [ExecNext]_execVars => SendInv'
  BY SendStep
<1>3. QED
  BY <1>1, <1>2, ExecTypeCorrect, EngineUsesRuntime, LeaseInvariant, PTL DEF ExecSpec

\* While a job's lease has not expired, its action is published at most once:
\* for any number of workers, accounts and actions, with duplicated and lost
\* messages, crashes, repeated approvals and database failures.
THEOREM PublishedOnce == ExecSpec => []LeasedSendsOnce
<1>1. SendInv => LeasedSendsOnce
  BY DEF SendInv, LeasedSendsOnce
<1>2. QED
  BY <1>1, SendInvariant, PTL

-----------------------------------------------------------------------------
(* What the rows say.  A step of the engine, seen by one worker, by one     *)
(* action's rows and by one action's job.                                   *)

\* A worker is either in the handler, where only the handler's own steps move it,
\* or its handler has not begun.
LEMMA HandlerCases ==
  ASSUME ExecTypeOK, [ExecNext]_execVars, NEW w \in Workers
  PROVE  \/ worker'[w] = worker[w] /\ handler'[w] = handler[w]
         \/ worker'[w].pc # "handling" /\ handler'[w] = Entered
         \/ worker[w].pc # "handling" /\ handler'[w] = handler[w]
         \/ /\ UNCHANGED vars
            /\ \/ LoadExecution(w) \/ Preflight(w) \/ MarkRunning(w)
               \/ ProviderAccepts(w)
               \/ \E delivered \in BOOLEAN : ProviderRejects(w, delivered) \/ ProviderAmbiguous(w, delivered)
<1>1. CASE Owner \/ UNCHANGED execVars
  BY <1>1 DEF Owner, probe_and_register_telegram_connector, set_global_execution_controls,
     create_action_proposal, ApproveBegin, ApproveCommit, ApproveRollback, ApproveAgain, execVars,
     vars, SubmitNew, SubmitCommit, SubmitRollback, SubmitExisting
<1>2. ASSUME NEW v \in Workers, HandlerStep(v) \/ Crash(v), v # w
      PROVE  worker'[w] = worker[w] /\ handler'[w] = handler[w]
  BY <1>2 DEF HandlerStep, LoadExecution, Preflight, MarkRunning, ProviderAccepts, ProviderRejects,
     ProviderAmbiguous, Answer, FinishCommits, FinishConflicts, DbFails, Crash, ExecTypeOK, TypeOK,
     HandlerSucceeds, HandlerRaises, CrashWorker, vars
<1>3. CASE FinishCommits(w) \/ FinishConflicts(w) \/ DbFails(w) \/ Crash(w)
  BY <1>3, RowTypes DEF FinishCommits, FinishConflicts, DbFails, Crash, HandlerSucceeds,
     HandlerRaises, CrashWorker, At, ExecTypeOK, TypeOK
<1>4. CASE HandlerStep(w) /\ ~(FinishCommits(w) \/ FinishConflicts(w) \/ DbFails(w))
  BY <1>4 DEF HandlerStep, LoadExecution, Preflight, MarkRunning, ProviderAccepts, ProviderRejects,
     ProviderAmbiguous
<1>5. CASE Background /\ UNCHANGED handler
  BY <1>5 DEF Background, Scheduler, SchedRecover, SchedOutbox, SchedDue, SchedCommit, Clock,
     OrphanLeaseExpires, LeaseExpiresUnderWorker, BackoffElapses, LoseMessage, CrashScheduler,
     Dequeue, ExecTypeOK, TypeOK
<1>6. ASSUME NEW v \in Workers, RuntimeStep(v), UNCHANGED handler
      PROVE  \/ worker'[w] = worker[w] /\ handler'[w] = handler[w]
             \/ worker[w].pc # "handling" /\ handler'[w] = handler[w]
  BY <1>6 DEF RuntimeStep, Claim, BeginHandling, LoadForFailure, RecordFailure, ExecTypeOK, TypeOK
<1>7. QED
  BY <1>1, <1>2, <1>3, <1>4, <1>5, <1>6 DEF ExecNext

\* Who writes the rows of an action.
LEMMA RecordMoves ==
  ASSUME ExecTypeOK, [ExecNext]_execVars, NEW x \in Direct
  PROVE  \/ /\ action'[x] = action[x] \/ (action[x] = "NONE" /\ UNCHANGED vars)
            /\ execution'[x] = execution[x] /\ reference'[x] = reference[x]
         \/ ApproveCommit(x)
         \/ \E w \in Workers : worker[w].job = x /\ FinishCommits(w)
<1>1. CASE Owner
  <2>1. ASSUME NEW k \in Direct, ApproveCommit(k)
        PROVE  \/ ApproveCommit(x)
               \/ action'[x] = action[x] /\ execution'[x] = execution[x] /\ reference'[x] = reference[x]
    BY <2>1 DEF ApproveCommit, ExecTypeOK
  <2>2. ASSUME NEW k \in Direct, NEW clean \in BOOLEAN, create_action_proposal(k, clean)
        PROVE  /\ action'[x] = action[x] \/ (action[x] = "NONE" /\ UNCHANGED vars)
               /\ execution'[x] = execution[x] /\ reference'[x] = reference[x]
    BY <2>2 DEF create_action_proposal, ExecTypeOK
  <2>3. QED
    BY <1>1, <2>1, <2>2 DEF Owner, probe_and_register_telegram_connector,
       set_global_execution_controls, ApproveBegin, ApproveRollback, ApproveAgain, world
<1>2. ASSUME NEW w \in Workers, FinishCommits(w), worker[w].job # x
      PROVE  action'[x] = action[x] /\ execution'[x] = execution[x] /\ reference'[x] = reference[x]
  BY <1>2 DEF FinishCommits, ExecTypeOK
<1>3. ASSUME NEW w \in Workers, HandlerStep(w) \/ Crash(w), ~FinishCommits(w)
      PROVE  action'[x] = action[x] /\ execution'[x] = execution[x] /\ reference'[x] = reference[x]
  BY <1>3 DEF HandlerStep, LoadExecution, Preflight, MarkRunning, ProviderAccepts, ProviderRejects,
     ProviderAmbiguous, FinishConflicts, DbFails, Crash, world
<1>4. CASE UNCHANGED world
  BY <1>4 DEF world
<1>5. QED
  BY <1>1, <1>2, <1>3, <1>4 DEF ExecNext, execVars

\* What a commit of the handler writes.
LEMMA CommitWrites ==
  ASSUME ExecTypeOK, NEW w \in Workers, NEW x \in Direct, worker[w].job = x, FinishCommits(w)
  PROVE  /\ worker[w].pc = "handling" /\ handler[w].stage = "ending"
         /\ execution'[x] = Column(execution[x], handler[w].seenExecution, ExecutionAfter(handler[w]))
         /\ action'[x] = Column(action[x], handler[w].seenAction, ActionAfter(handler[w]))
         /\ handler[w].outcome = "PUBLISHED" =>
              /\ ~ReferenceConflict(x, handler[w].id)
              /\ reference' = [reference EXCEPT ![x] = handler[w].id]
         /\ handler[w].outcome # "PUBLISHED" => reference' = reference
         /\ sent' = sent
BY DEF FinishCommits, HandlerAt, ExecTypeOK

LEMMA SentGrows ==
  ASSUME ExecTypeOK, [ExecNext]_execVars, NEW x \in Direct, sent[x] > 0
  PROVE  sent'[x] > 0
<1>1. sent[x] \in Nat
  BY DEF ExecTypeOK
<1>2. QED
  BY <1>1, SentMoves DEF ExecTypeOK

-----------------------------------------------------------------------------
\* A handler that is to record a publication got a message id for a message that
\* was sent; one that reuses a reference has seen it.  Nothing of it is left when
\* the worker is not in the handler.
HandlerHonest ==
  \A w \in Workers :
    /\ worker[w].pc # "handling" => handler[w] = Entered
    /\ handler[w].outcome = "PUBLISHED" => handler[w].id # 0 /\ sent[worker[w].job] > 0
    /\ handler[w].outcome = "REUSE" => reference[worker[w].job] # 0

LEMMA StageFields ==
  ASSUME NEW stage, NEW a, NEW e, NEW outcome, NEW id
  PROVE  /\ Stage(stage, a, e, outcome, id).stage = stage
         /\ Stage(stage, a, e, outcome, id).seenAction = a
         /\ Stage(stage, a, e, outcome, id).seenExecution = e
         /\ Stage(stage, a, e, outcome, id).outcome = outcome
         /\ Stage(stage, a, e, outcome, id).id = id
BY DEF Stage

LEMMA EnteredFields ==
  Entered.stage = "entered" /\ Entered.outcome = "RETURN"
BY StageFields DEF Entered

\* A recorded reference stays.
LEMMA ReferenceStays ==
  ASSUME ExecTypeOK, [ExecNext]_execVars, NEW x \in Direct, reference[x] # 0
  PROVE  reference'[x] = reference[x]
<1>1. CASE ApproveCommit(x)
  BY <1>1 DEF ApproveCommit
<1>2. ASSUME NEW w \in Workers, worker[w].job = x, FinishCommits(w)
      PROVE  reference'[x] = reference[x]
  BY <1>2, CommitWrites DEF ReferenceConflict
<1>3. QED
  BY <1>1, <1>2, RecordMoves

LEMMA HonestStep ==
  ASSUME ExecTypeOK, HandlerHonest, [ExecNext]_execVars
  PROVE  HandlerHonest'
<1> SUFFICES ASSUME NEW w \in Workers
             PROVE  /\ worker'[w].pc # "handling" => handler'[w] = Entered
                    /\ handler'[w].outcome = "PUBLISHED" =>
                         handler'[w].id # 0 /\ sent'[worker'[w].job] > 0
                    /\ handler'[w].outcome = "REUSE" => reference'[worker'[w].job] # 0
  BY DEF HandlerHonest
<1>1. /\ worker[w].pc # "handling" => handler[w] = Entered
      /\ handler[w].outcome = "PUBLISHED" => handler[w].id # 0 /\ sent[worker[w].job] > 0
      /\ handler[w].outcome = "REUSE" => reference[worker[w].job] # 0
  BY DEF HandlerHonest
<1>2. worker[w].pc = "handling" => worker[w].job \in Direct
  BY JobsAreActions DEF ExecTypeOK, TypeOK
<1>3. CASE worker'[w] = worker[w] /\ handler'[w] = handler[w]
  <2>1. CASE worker[w].pc = "handling"
    BY <1>1, <1>2, <1>3, <2>1, SentGrows, ReferenceStays
  <2>2. CASE worker[w].pc # "handling"
    BY <1>1, <1>3, <2>2, EnteredFields
  <2>3. QED
    BY <2>1, <2>2
<1>4. CASE worker'[w].pc # "handling" /\ handler'[w] = Entered
  BY <1>4, EnteredFields
<1>5. CASE worker[w].pc # "handling" /\ handler'[w] = handler[w]
  BY <1>1, <1>5, EnteredFields
<1>6. ASSUME UNCHANGED vars,
             \/ LoadExecution(w) \/ Preflight(w) \/ MarkRunning(w)
             \/ ProviderAccepts(w)
             \/ \E delivered \in BOOLEAN : ProviderRejects(w, delivered) \/ ProviderAmbiguous(w, delivered)
      PROVE  /\ worker'[w].pc # "handling" => handler'[w] = Entered
             /\ handler'[w].outcome = "PUBLISHED" =>
                  handler'[w].id # 0 /\ sent'[worker'[w].job] > 0
             /\ handler'[w].outcome = "REUSE" => reference'[worker'[w].job] # 0
  <2>1. worker' = worker /\ worker[w].pc = "handling"
    BY <1>6 DEF vars, LoadExecution, Preflight, MarkRunning, ProviderAccepts, ProviderRejects,
                ProviderAmbiguous, HandlerAt
  <2>2. PICK x \in Direct : x = worker[w].job
    BY <1>2, <2>1
  <2>3. CASE LoadExecution(w) \/ MarkRunning(w)
             \/ \E delivered \in BOOLEAN : ProviderRejects(w, delivered) \/ ProviderAmbiguous(w, delivered)
    <3>1. handler'[w].outcome \in {"RETURN", "REJECTED", "AMBIGUOUS"}
      BY <2>3, StageFields DEF LoadExecution, MarkRunning, ProviderRejects, ProviderAmbiguous,
         Answer, ExecTypeOK
    <3>2. QED
      BY <2>1, <3>1
  <2>4. CASE Preflight(w)
    <3>1. /\ handler'[w].outcome \in {"BLOCK", "REUSE", "RETURN"}
          /\ handler'[w].outcome = "REUSE" => reference[x] # 0
          /\ reference' = reference
      BY <2>2, <2>4, StageFields DEF Preflight, world, ExecTypeOK
    <3>2. QED
      BY <2>1, <2>2, <3>1
  <2>5. CASE ProviderAccepts(w)
    <3>1. posted[Chat[x]] \in Nat /\ sent[x] \in Nat
      BY Bindings DEF ExecTypeOK
    <3>2. handler'[w].outcome = "PUBLISHED" /\ handler'[w].id = posted[Chat[x]] + 1
      BY <2>2, <2>5, StageFields DEF ProviderAccepts, Answer, ExecTypeOK
    <3>3. sent'[x] = sent[x] + 1
      BY <2>2, <2>5 DEF ProviderAccepts, Deliver, ExecTypeOK
    <3>4. QED
      BY <2>1, <2>2, <3>1, <3>2, <3>3
  <2>6. QED
    BY <1>6, <2>3, <2>4, <2>5
<1>7. QED
  BY <1>3, <1>4, <1>5, <1>6, HandlerCases

LEMMA HonestInit == ExecInit => HandlerHonest
BY EnteredFields DEF ExecInit, HandlerHonest

LEMMA HonestInvariant == ExecSpec => []HandlerHonest
<1>1. ExecTypeOK /\ HandlerHonest /\ [ExecNext]_execVars => HandlerHonest'
  BY HonestStep
<1>2. QED
  BY <1>1, HonestInit, ExecTypeCorrect, PTL DEF ExecSpec

\* Only these outcomes make an execution SUCCEEDED.
LEMMA AfterSucceeded ==
  ASSUME NEW h \in HandlerState, NEW current \in ExecutionStatus,
         Column(current, h.seenExecution, ExecutionAfter(h)) = "SUCCEEDED"
  PROVE  current = "SUCCEEDED" \/ h.outcome \in {"REUSE", "PUBLISHED"}
<1>1. h.outcome \in {"RETURN", "BLOCK", "REUSE", "PUBLISHED", "REJECTED", "AMBIGUOUS"}
  BY DEF HandlerState
<1>2. /\ h.outcome = "RETURN" => ExecutionAfter(h) = h.seenExecution
      /\ h.outcome \notin {"RETURN", "REUSE", "PUBLISHED"} => ExecutionAfter(h) # "SUCCEEDED"
  BY <1>1, Zenon DEF ExecutionAfter
<1>3. QED
  BY <1>1, <1>2 DEF Column

LEMMA RealStep ==
  ASSUME ExecTypeOK, HandlerHonest, ReferencesReal, [ExecNext]_execVars
  PROVE  ReferencesReal'
<1>1. ASSUME NEW x \in Direct, reference'[x] # 0
      PROVE  sent'[x] > 0
  <2>1. CASE reference[x] # 0
    BY <2>1, SentGrows DEF ReferencesReal
  <2>2. CASE reference[x] = 0
    <3>1. PICK w \in Workers : worker[w].job = x /\ FinishCommits(w)
      BY <1>1, <2>2, RecordMoves DEF ApproveCommit
    <3>2. handler[w].outcome = "PUBLISHED" /\ sent' = sent
      BY <1>1, <2>2, <3>1, CommitWrites
    <3>3. QED
      BY <3>1, <3>2 DEF HandlerHonest
  <2>3. QED
    BY <2>1, <2>2
<1>2. ASSUME NEW x \in Direct, execution'[x] = "SUCCEEDED"
      PROVE  reference'[x] # 0
  <2>1. CASE execution[x] = "SUCCEEDED"
    BY <2>1, ReferenceStays DEF ReferencesReal
  <2>2. CASE execution[x] # "SUCCEEDED"
    <3>1. ~ApproveCommit(x)
      BY <1>2 DEF ApproveCommit, ExecTypeOK
    <3>2. PICK w \in Workers : worker[w].job = x /\ FinishCommits(w)
      BY <1>2, <2>2, <3>1, RecordMoves
    <3>3. handler[w] \in HandlerState /\ execution[x] \in ExecutionStatus
      BY DEF ExecTypeOK
    <3>4. handler[w].outcome \in {"REUSE", "PUBLISHED"}
      BY <1>2, <2>2, <3>2, <3>3, AfterSucceeded, CommitWrites
    <3>5. CASE handler[w].outcome = "REUSE"
      BY <3>2, <3>5, ReferenceStays DEF HandlerHonest
    <3>6. CASE handler[w].outcome = "PUBLISHED"
      BY <3>2, <3>6, CommitWrites DEF HandlerHonest, ExecTypeOK
    <3>7. QED
      BY <3>4, <3>5, <3>6
  <2>3. QED
    BY <2>1, <2>2
<1>3. ASSUME NEW x \in Direct, NEW y \in Direct, reference'[x] = reference'[y], reference'[x] # 0,
             Account[x] = Account[y], x # y
      PROVE  FALSE
  <2>1. ASSUME NEW a \in Direct, NEW b \in Direct, a # b, Account[a] = Account[b],
               reference'[a] = reference'[b], reference'[a] # 0, reference[a] = 0
        PROVE  FALSE
    <3>1. PICK w \in Workers : worker[w].job = a /\ FinishCommits(w)
      BY <2>1, RecordMoves DEF ApproveCommit
    <3>2. /\ ~ReferenceConflict(a, handler[w].id)
          /\ reference' = [reference EXCEPT ![a] = handler[w].id]
      BY <2>1, <3>1, CommitWrites
    <3>3. reference'[a] = handler[w].id /\ reference'[b] = reference[b]
      BY <2>1, <3>2 DEF ExecTypeOK
    <3>4. QED
      BY <2>1, <3>2, <3>3 DEF ReferenceConflict
  <2>2. CASE reference[x] # 0 /\ reference[y] # 0
    BY <1>3, <2>2, ReferenceStays DEF ReferencesReal
  <2>3. QED
    BY <1>3, <2>1, <2>2
<1>4. QED
  BY <1>1, <1>2, <1>3 DEF ReferencesReal

\* Whatever expires, crashes, is rolled back or overwritten: a reference stands
\* for a message that was sent, an execution that says SUCCEEDED has its
\* reference, and no message of an account is on record for two executions
\* (TelegramExecutionHandler.handle, the unique constraints of
\* external_references).
THEOREM RecordsAreReal == ExecSpec => []ReferencesReal
<1>1. ExecInit => ReferencesReal
  BY DEF ExecInit, ReferencesReal
<1>2. ExecTypeOK /\ HandlerHonest /\ ReferencesReal /\ [ExecNext]_execVars => ReferencesReal'
  BY RealStep
<1>3. QED
  BY <1>1, <1>2, ExecTypeCorrect, HonestInvariant, PTL DEF ExecSpec
-----------------------------------------------------------------------------
\* What happens to the job of an action while its lease has not expired: it is
\* inserted by ApproveCommit, and it succeeds by FinishCommits only.
JobKeeps(x) ==
  /\ Committed(x) /\ Committed(x)'
  /\ jobs[x].status = "SUCCEEDED" <=> jobs'[x].status = "SUCCEEDED"

LEMMA JobMoves ==
  ASSUME ExecTypeOK, LeaseInv, [ExecNext]_execVars, NEW x \in Direct, x \notin lapsed
  PROVE  \/ ~Committed(x) /\ ~Committed(x)'
         \/ ApproveCommit(x)
         \/ JobKeeps(x)
         \/ \E w \in Workers : worker[w].job = x /\ FinishCommits(w)
<1> USE DEF JobKeeps
<1>0. x \in Jobs /\ TypeOK
  BY JobsAreActions DEF ExecTypeOK
<1>1. ASSUME jobs'[x].status = jobs[x].status
      PROVE  (~Committed(x) /\ ~Committed(x)') \/ JobKeeps(x)
  BY <1>1 DEF Committed
<1>2. CASE Owner
  <2>1. ASSUME NEW k \in Direct, ApproveBegin(k) \/ ApproveRollback(k)
        PROVE  (~Committed(x) /\ ~Committed(x)') \/ JobKeeps(x)
    <3>1. CASE k = x
      BY <1>0, <2>1, <3>1, RowTypes DEF ApproveBegin, ApproveRollback, SubmitNew, SubmitRollback,
         Committed, TypeOK, Row, NoRow
    <3>2. CASE k # x
      BY <1>0, <1>1, <2>1, <3>2 DEF ApproveBegin, ApproveRollback, SubmitNew, SubmitRollback, TypeOK
    <3>3. QED
      BY <3>1, <3>2
  <2>2. ASSUME NEW k \in Direct, ApproveCommit(k)
        PROVE  ApproveCommit(x) \/ (~Committed(x) /\ ~Committed(x)') \/ JobKeeps(x)
    BY <1>0, <1>1, <2>2 DEF ApproveCommit, SubmitCommit, TypeOK
  <2>3. ASSUME UNCHANGED jobs PROVE (~Committed(x) /\ ~Committed(x)') \/ JobKeeps(x)
    BY <1>1, <2>3
  <2>4. QED
    <3>1. ASSUME NEW k \in Direct, ApproveAgain(k) PROVE UNCHANGED jobs
      BY <3>1 DEF ApproveAgain, SubmitExisting
    <3>2. ASSUME ~\E k \in Direct : \/ ApproveBegin(k) \/ ApproveCommit(k)
                                     \/ ApproveRollback(k) \/ ApproveAgain(k)
          PROVE  UNCHANGED jobs
      BY <1>2, <3>2 DEF Owner, probe_and_register_telegram_connector,
         set_global_execution_controls, create_action_proposal, vars
    <3>3. QED
      BY <2>1, <2>2, <2>3, <3>1, <3>2
<1>3. ASSUME NEW w \in Workers, FinishCommits(w), worker[w].job # x
      PROVE  jobs'[x].status = jobs[x].status
  BY <1>0, <1>3 DEF FinishCommits, HandlerSucceeds, TypeOK
<1>4. ASSUME NEW w \in Workers, HandlerStep(w) \/ Crash(w), ~FinishCommits(w)
      PROVE  jobs'[x].status = jobs[x].status
  BY <1>4 DEF HandlerStep, LoadExecution, Preflight, MarkRunning, ProviderAccepts, ProviderRejects,
     ProviderAmbiguous, FinishConflicts, DbFails, Crash, HandlerRaises, CrashWorker, vars
<1>5. CASE Background
  <2>1. CASE SchedCommit
    <3>1. x \notin sched.expired /\ x \notin sched.created
      BY <1>0, ActionsAssumption DEF LeaseInv, TypeOK, SchedState
    <3>2. jobs'[x] = jobs[x]
      BY <1>0, <2>1, <3>1 DEF SchedCommit
    <3>3. QED
      BY <1>1, <3>2
  <2>2. ASSUME NEW j \in Jobs, Clock(j) PROVE jobs'[x].status = jobs[x].status
    BY <1>0, <2>2 DEF Clock, OrphanLeaseExpires, LeaseExpiresUnderWorker, ExpireLease,
       BackoffElapses, TypeOK, Row
  <2>3. ASSUME UNCHANGED jobs PROVE jobs'[x].status = jobs[x].status
    BY <2>3
  <2>4. QED
    BY <1>1, <1>5, <2>1, <2>2, <2>3 DEF Background, Scheduler, SchedRecover, SchedOutbox, SchedDue,
       LoseMessage, Dequeue, CrashScheduler
<1>6. ASSUME NEW w \in Workers, RuntimeStep(w)
      PROVE  (~Committed(x) /\ ~Committed(x)') \/ JobKeeps(x)
  <2>1. CASE Claim(w)
    <3>1. CASE worker[w].job = x /\ Claimable(jobs[x])
      <4>1. jobs'[x].status = "RUNNING"
        BY <1>0, <2>1, <3>1 DEF Claim, ClaimedRow, TypeOK
      <4>2. jobs[x].status \in {"QUEUED", "RETRY_WAIT", "RUNNING"}
        BY <3>1 DEF Claimable, Due, LeaseExpired
      <4>3. QED
        BY <4>1, <4>2 DEF Committed
    <3>2. CASE ~(worker[w].job = x /\ Claimable(jobs[x]))
      <4>1. jobs'[x] = jobs[x]
        BY <1>0, <2>1, <3>2 DEF Claim, TypeOK
      <4>2. QED
        BY <1>1, <4>1
    <3>3. QED
      BY <3>1, <3>2
  <2>2. CASE RecordFailure(w)
    <3>1. CASE worker[w].job = x
      <4>1. Engaged(w, x) /\ worker[w].pc = "recording"
        BY <2>2, <3>1 DEF RecordFailure, Engaged
      <4>2. jobs[x].status = "RUNNING" /\ worker[w].loaded = jobs[x]
        BY <1>0, <4>1 DEF LeaseInv, HolderInOrder
      <4>3. PICK upd : /\ upd.status \in {"FAILED", "RETRY_WAIT"}
                       /\ jobs'[x] = Flush(jobs[x], jobs[x], upd)
        <5>1. mark_job_failed_or_retrying(x, worker[w].loaded, worker[w].retry).status
                \in {"FAILED", "RETRY_WAIT"}
          BY DEF mark_job_failed_or_retrying
        <5>2. QED
          BY <1>0, <2>2, <3>1, <4>2, <5>1 DEF RecordFailure, TypeOK
      <4>4. jobs'[x].status \in {"FAILED", "RETRY_WAIT"}
        BY <4>2, <4>3 DEF Flush, Column
      <4>5. QED
        BY <4>2, <4>4 DEF Committed
    <3>2. CASE worker[w].job # x
      <4>1. jobs'[x] = jobs[x]
        BY <1>0, <2>2, <3>2 DEF RecordFailure, TypeOK
      <4>2. QED
        BY <1>1, <4>1
    <3>3. QED
      BY <3>1, <3>2
  <2>3. CASE BeginHandling(w) \/ LoadForFailure(w)
    BY <1>1, <2>3 DEF BeginHandling, LoadForFailure
  <2>4. QED
    BY <1>6, <2>1, <2>2, <2>3 DEF RuntimeStep
<1>7. CASE UNCHANGED execVars
  BY <1>1, <1>7 DEF execVars, vars
<1>8. QED
  BY <1>1, <1>2, <1>3, <1>4, <1>5, <1>6, <1>7 DEF ExecNext

\* While the lease of an action's job has not expired, its rows say PENDING and
\* APPROVED until the job succeeds, and the worker in the handler has read them
\* as they are: so what it will write is what the provider answered.
HandlerReady(w, x) ==
  \/ handler[w].stage = "entered"
  \/ /\ handler[w].stage \in {"loaded", "cleared"}
     /\ handler[w].seenAction = "APPROVED" /\ handler[w].seenExecution = "PENDING"
  \/ /\ handler[w].stage = "sending"
     /\ handler[w].seenAction = "APPROVED" /\ handler[w].seenExecution = "RUNNING"
  \/ /\ handler[w].stage = "ending"
     /\ handler[w].seenAction = "APPROVED" /\ handler[w].seenExecution \in {"PENDING", "RUNNING"}
     /\ \/ handler[w].outcome = "BLOCK" /\ sent[x] = 0
        \/ handler[w].outcome = "PUBLISHED" /\ sent[x] = 1 /\ handler[w].id # 0
        \/ handler[w].outcome \in {"REJECTED", "AMBIGUOUS"}

RowsInStep(x) ==
  /\ ~Committed(x) => reference[x] = 0
  /\ Committed(x) /\ jobs[x].status # "SUCCEEDED" =>
       execution[x] = "PENDING" /\ action[x] = "APPROVED" /\ reference[x] = 0

OutcomeInv ==
  /\ OutcomeRecorded
  /\ \A x \in Direct \ lapsed :
       /\ RowsInStep(x)
       /\ \A w \in Workers : worker[w].pc = "handling" /\ worker[w].job = x => HandlerReady(w, x)

\* The commit of a handler that is ready settles both rows.
LEMMA ReadyWrites ==
  ASSUME NEW h \in HandlerState, h.seenAction = "APPROVED", h.seenExecution \in {"PENDING", "RUNNING"},
         h.outcome \in {"BLOCK", "PUBLISHED", "REJECTED", "AMBIGUOUS"}
  PROVE  LET e == Column("PENDING", h.seenExecution, ExecutionAfter(h))
             a == Column("APPROVED", h.seenAction, ActionAfter(h)) IN
         /\ h.outcome = "PUBLISHED" => e = "SUCCEEDED" /\ a = "EXECUTED"
         /\ h.outcome = "BLOCK" => e = "BLOCKED" /\ a = "BLOCKED"
         /\ h.outcome = "REJECTED" => e = "FAILED" /\ a = "BLOCKED"
         /\ h.outcome = "AMBIGUOUS" => e = "UNKNOWN_EXTERNAL_OUTCOME" /\ a = "APPROVED"
<1>1. /\ h.outcome = "PUBLISHED" => ExecutionAfter(h) = "SUCCEEDED"
      /\ h.outcome = "BLOCK" => ExecutionAfter(h) = "BLOCKED"
      /\ h.outcome = "REJECTED" => ExecutionAfter(h) = "FAILED"
      /\ h.outcome = "AMBIGUOUS" => ExecutionAfter(h) = "UNKNOWN_EXTERNAL_OUTCOME"
  BY Zenon DEF ExecutionAfter
<1>2. /\ h.outcome = "PUBLISHED" => ActionAfter(h) = "EXECUTED"
      /\ h.outcome \in {"BLOCK", "REJECTED"} => ActionAfter(h) = "BLOCKED"
      /\ h.outcome = "AMBIGUOUS" => ActionAfter(h) = h.seenAction
  BY Zenon DEF ActionAfter
<1>3. QED
  BY <1>1, <1>2 DEF Column

LEMMA RowsStep ==
  ASSUME ExecTypeOK, LeaseInv, SendInv, OutcomeInv, [ExecNext]_execVars,
         NEW x \in Direct, x \notin lapsed, x \notin lapsed'
  PROVE  /\ RowsInStep(x)'
         /\ jobs'[x].status = "SUCCEEDED" => Settled(x)'
<1>0. x \in Jobs /\ TypeOK
  BY JobsAreActions DEF ExecTypeOK
<1>1. /\ RowsInStep(x)
      /\ jobs[x].status = "SUCCEEDED" => Settled(x)
  BY DEF OutcomeInv, OutcomeRecorded
<1>2. CASE ApproveCommit(x)
  <2>1. /\ jobs[x].status = "UNCOMMITTED" /\ jobs'[x].status = "QUEUED" /\ reference'[x] = reference[x]
        /\ execution'[x] = "PENDING" /\ action'[x] = "APPROVED"
    BY <1>0, <1>2 DEF ApproveCommit, SubmitCommit, Queued, NoRow, TypeOK, ExecTypeOK
  <2>2. QED
    BY <1>1, <2>1 DEF RowsInStep, Committed
<1>3. ASSUME NEW w \in Workers, worker[w].job = x, FinishCommits(w)
      PROVE  /\ jobs'[x].status = "SUCCEEDED"
             /\ Settled(x)'
  <2>1. worker[w].pc = "handling" /\ handler[w].stage = "ending" /\ Engaged(w, x) /\ sent' = sent
    BY <1>3, CommitWrites DEF Engaged
  <2>2. jobs[x].status = "RUNNING" /\ worker[w].loaded = jobs[x]
    BY <1>0, <2>1 DEF LeaseInv, HolderInOrder
  <2>3. jobs'[x] = Flush(jobs[x], jobs[x], mark_job_succeeded)
    BY <1>0, <1>3, <2>2 DEF FinishCommits, HandlerSucceeds, TypeOK
  <2>4. jobs'[x].status = "SUCCEEDED"
    BY <2>2, <2>3 DEF Flush, Column, mark_job_succeeded
  <2>5. execution[x] = "PENDING" /\ action[x] = "APPROVED" /\ reference[x] = 0
    BY <1>1, <2>2 DEF RowsInStep, Committed
  <2>6. PICK h \in HandlerState : h = handler[w]
    BY DEF ExecTypeOK
  <2>7. /\ h.seenAction = "APPROVED" /\ h.seenExecution \in {"PENDING", "RUNNING"}
        /\ \/ h.outcome = "BLOCK" /\ sent[x] = 0
           \/ h.outcome = "PUBLISHED" /\ sent[x] = 1 /\ h.id # 0
           \/ h.outcome \in {"REJECTED", "AMBIGUOUS"}
    BY <1>3, <2>1, <2>6 DEF OutcomeInv, HandlerReady
  <2>8. /\ execution'[x] = Column("PENDING", h.seenExecution, ExecutionAfter(h))
        /\ action'[x] = Column("APPROVED", h.seenAction, ActionAfter(h))
    BY <1>3, <2>5, <2>6, CommitWrites
  <2>9. reference'[x] = IF h.outcome = "PUBLISHED" THEN h.id ELSE 0
    BY <1>3, <2>5, <2>6, CommitWrites DEF ExecTypeOK
  <2>10. QED
    BY <2>1, <2>4, <2>7, <2>8, <2>9, ReadyWrites DEF Settled
<1>4. CASE /\ action'[x] = action[x] \/ (action[x] = "NONE" /\ UNCHANGED vars)
           /\ execution'[x] = execution[x] /\ reference'[x] = reference[x]
           /\ ~ApproveCommit(x)
           /\ ~\E w \in Workers : worker[w].job = x /\ FinishCommits(w)
  <2>1. (~Committed(x) /\ ~Committed(x)') \/ JobKeeps(x)
    BY <1>4, JobMoves
  <2>2. CASE ~Committed(x) /\ ~Committed(x)'
    BY <1>1, <1>4, <2>2 DEF RowsInStep, Committed
  <2>3. CASE JobKeeps(x) /\ jobs[x].status # "SUCCEEDED"
    BY <1>1, <1>4, <2>3 DEF RowsInStep, Committed, JobKeeps
  <2>4. CASE JobKeeps(x) /\ jobs[x].status = "SUCCEEDED"
    <3>1. \A w \in Workers : ~Engaged(w, x)
      BY <1>0, <2>4 DEF LeaseInv, HolderInOrder
    <3>2. sent'[x] = sent[x]
      BY <3>1, SentMoves DEF Engaged, ExecTypeOK
    <3>3. action'[x] = action[x]
      BY <1>1, <1>4, <2>4 DEF Settled
    <3>4. QED
      BY <1>1, <1>4, <2>4, <3>2, <3>3 DEF Settled, RowsInStep, Committed, JobKeeps
  <2>5. QED
    BY <2>1, <2>2, <2>3, <2>4
<1>5. QED
  BY <1>2, <1>3, <1>4, RecordMoves DEF RowsInStep, Committed
\* The worker in the handler stays ready: nobody else writes the rows it has read.
LEMMA ReadyStep ==
  ASSUME ExecTypeOK, LeaseInv, SendInv, HandlerHonest, OutcomeInv, [ExecNext]_execVars,
         NEW x \in Direct, x \notin lapsed, NEW w \in Workers,
         worker'[w].pc = "handling", worker'[w].job = x
  PROVE  HandlerReady(w, x)'
<1>0. x \in Jobs /\ TypeOK /\ handler[w] \in HandlerState /\ sent[x] \in Nat
  BY JobsAreActions DEF ExecTypeOK
<1>1. CASE worker'[w] = worker[w] /\ handler'[w] = handler[w]
  <2>1. HandlerReady(w, x) /\ Engaged(w, x)
    BY <1>1 DEF OutcomeInv, Engaged
  <2>2. \A v \in Workers : Engaged(v, x) => v = w
    BY <1>0, <2>1 DEF LeaseInv, HolderInOrder
  <2>3. handler[w].stage # "sending" => sent'[x] = sent[x]
    BY <2>2, SentMoves DEF Engaged, ExecTypeOK
  <2>4. QED
    BY <1>1, <2>1, <2>3 DEF HandlerReady
<1>2. CASE worker[w].pc # "handling" /\ handler'[w] = handler[w]
  BY <1>2, EnteredFields DEF HandlerHonest, HandlerReady
<1>3. ASSUME UNCHANGED vars,
             \/ LoadExecution(w) \/ Preflight(w) \/ MarkRunning(w)
             \/ ProviderAccepts(w)
             \/ \E delivered \in BOOLEAN : ProviderRejects(w, delivered) \/ ProviderAmbiguous(w, delivered)
      PROVE  HandlerReady(w, x)'
  <2>1. worker[w].pc = "handling" /\ worker[w].job = x /\ Engaged(w, x)
    BY <1>3 DEF vars, Engaged
  <2>2. HandlerReady(w, x)
    BY <2>1 DEF OutcomeInv
  <2>3. jobs[x].status = "RUNNING"
    BY <1>0, <2>1 DEF LeaseInv, HolderInOrder
  <2>4. execution[x] = "PENDING" /\ action[x] = "APPROVED" /\ reference[x] = 0
    BY <2>3 DEF OutcomeInv, RowsInStep, Committed
  <2>5. handler[w].stage # "ending" => sent[x] = 0
    BY <2>1 DEF SendInv
  <2>6. CASE LoadExecution(w)
    <3>1. handler'[w] = Stage("loaded", "APPROVED", "PENDING", "RETURN", 0)
      BY <2>1, <2>4, <2>6 DEF LoadExecution, ExecTypeOK
    <3>2. QED
      BY <3>1, StageFields DEF HandlerReady
  <2>7. CASE Preflight(w)
    <3>1. handler[w].stage = "loaded" /\ sent' = sent
      BY <2>7 DEF Preflight, HandlerAt, world
    <3>2. handler[w].seenAction = "APPROVED" /\ handler[w].seenExecution = "PENDING"
      BY <2>2, <3>1 DEF HandlerReady
    <3>3. \/ handler'[w] = Stage("ending", "APPROVED", "PENDING", "BLOCK", 0)
          \/ handler'[w] = Stage("cleared", "APPROVED", "PENDING", "RETURN", 0)
      BY <2>1, <2>4, <2>7, <3>2 DEF Preflight, ExecTypeOK
    <3>4. QED
      BY <2>5, <3>1, <3>3, StageFields DEF HandlerReady
  <2>8. CASE MarkRunning(w)
    <3>1. handler[w].stage = "cleared"
      BY <2>8 DEF MarkRunning, HandlerAt
    <3>2. handler[w].seenAction = "APPROVED"
      BY <2>2, <3>1 DEF HandlerReady
    <3>3. handler'[w] = Stage("sending", "APPROVED", "RUNNING", "RETURN", 0)
      BY <2>8, <3>2 DEF MarkRunning, ExecTypeOK
    <3>4. QED
      BY <3>3, StageFields DEF HandlerReady
  <2>9. CASE \/ ProviderAccepts(w)
             \/ \E delivered \in BOOLEAN : ProviderRejects(w, delivered) \/ ProviderAmbiguous(w, delivered)
    <3>1. handler[w].stage = "sending"
      BY <2>9 DEF ProviderAccepts, ProviderRejects, ProviderAmbiguous, HandlerAt
    <3>2. handler[w].seenAction = "APPROVED" /\ sent[x] = 0
      BY <2>2, <2>5, <3>1 DEF HandlerReady
    <3>3. CASE ProviderAccepts(w)
      <4>1. /\ posted[Chat[x]] \in Nat
            /\ handler'[w] = Stage("ending", "APPROVED", "RUNNING", "PUBLISHED", posted[Chat[x]] + 1)
        BY <2>1, <3>2, <3>3, Bindings DEF ProviderAccepts, Answer, ExecTypeOK
      <4>2. sent'[x] = 1
        BY <2>1, <3>2, <3>3 DEF ProviderAccepts, Deliver, ExecTypeOK
      <4>3. QED
        BY <4>1, <4>2, StageFields DEF HandlerReady
    <3>4. CASE \E delivered \in BOOLEAN : ProviderRejects(w, delivered) \/ ProviderAmbiguous(w, delivered)
      <4>1. \/ handler'[w] = Stage("ending", "APPROVED", "RUNNING", "REJECTED", 0)
            \/ handler'[w] = Stage("ending", "APPROVED", "RUNNING", "AMBIGUOUS", 0)
        BY <3>2, <3>4 DEF ProviderRejects, ProviderAmbiguous, Answer, ExecTypeOK
      <4>2. QED
        BY <4>1, StageFields DEF HandlerReady
    <3>5. QED
      BY <2>9, <3>3, <3>4
  <2>10. QED
    BY <1>3, <2>6, <2>7, <2>8, <2>9
<1>4. QED
  BY <1>1, <1>2, <1>3, HandlerCases

\* A job that succeeded with its lease in time has settled its execution and its
\* action together: SUCCEEDED with a reference and exactly one message, BLOCKED
\* without any, FAILED and UNKNOWN_EXTERNAL_OUTCOME without a reference.  For any
\* number of workers, actions and faults (TelegramExecutionHandler.handle,
\* committed by process_job_id).
THEOREM OutcomeIsRecorded == ExecSpec => []OutcomeRecorded
<1>1. ExecInit => OutcomeInv
  BY RowTypes DEF ExecInit, Init, OutcomeInv, OutcomeRecorded, RowsInStep, Committed, NoRow,
     Jobs, Idle, At
<1>2. ASSUME ExecTypeOK, LeaseInv, SendInv, HandlerHonest, OutcomeInv, [ExecNext]_execVars
      PROVE  OutcomeInv'
  <2>1. ASSUME NEW x \in Direct, x \notin lapsed' PROVE x \notin lapsed
    BY <1>2, <2>1, EngineStep, LapsedGrows
  <2>2. \A x \in Direct \ lapsed' :
          /\ RowsInStep(x)'
          /\ \A w \in Workers : worker'[w].pc = "handling" /\ worker'[w].job = x => HandlerReady(w, x)'
    BY <1>2, <2>1, RowsStep, ReadyStep
  <2>3. OutcomeRecorded'
    BY <1>2, <2>1, RowsStep DEF OutcomeRecorded
  <2>4. QED
    BY <2>2, <2>3 DEF OutcomeInv
<1>3. OutcomeInv => OutcomeRecorded
  BY DEF OutcomeInv
<1>4. QED
  BY <1>1, <1>2, <1>3, ExecTypeCorrect, HonestInvariant, SendInvariant, EngineUsesRuntime, LeaseInvariant,
     PTL DEF ExecSpec
-----------------------------------------------------------------------------
\* One worker alone records at most one publication for an experiment.
OnePublicationPerExperiment ==
  \A x, y \in Direct :
    (/\ Decision[x] = Decision[y] /\ experiment[Decision[x]] # "NONE"
     /\ reference[x] # 0 /\ reference[y] # 0) => x = y

\* Why one worker alone cannot publish twice for an experiment: a recorded
\* publication has set it RUNNING, and between the preflight that found it DRAFT
\* and the commit that worker is the only one who could have changed it.
ExperimentGuarded ==
  /\ \A x \in Direct : reference[x] # 0 => experiment[Decision[x]] \in {"NONE", "RUNNING"}
  /\ \A w \in Workers :
       (\/ handler[w].stage \in {"cleared", "sending"}
        \/ handler[w].stage = "ending" /\ handler[w].outcome = "PUBLISHED")
       => experiment[Decision[worker[w].job]] \in {"NONE", "DRAFT"}

\* Only a commit of the handler writes an experiment.
LEMMA ExperimentMoves ==
  ASSUME ExecTypeOK, [ExecNext]_execVars
  PROVE  experiment' = experiment \/ \E w \in Workers : FinishCommits(w)
<1>1. CASE Owner
  BY <1>1 DEF Owner, probe_and_register_telegram_connector, set_global_execution_controls,
     create_action_proposal, ApproveBegin, ApproveCommit, ApproveRollback, ApproveAgain, world
<1>2. ASSUME NEW w \in Workers, HandlerStep(w) \/ Crash(w), ~FinishCommits(w)
      PROVE  experiment' = experiment
  BY <1>2 DEF HandlerStep, LoadExecution, Preflight, MarkRunning, ProviderAccepts, ProviderRejects,
     ProviderAmbiguous, FinishConflicts, DbFails, Crash, world
<1>3. CASE UNCHANGED world
  BY <1>3 DEF world
<1>4. QED
  BY <1>1, <1>2, <1>3 DEF ExecNext, execVars

LEMMA GuardedByCommit ==
  ASSUME ExecTypeOK, HandlerHonest, ExperimentGuarded, OnePublicationPerExperiment,
         [ExecNext]_execVars, NEW w \in Workers, \A v \in Workers : v = w, FinishCommits(w)
  PROVE  ExperimentGuarded' /\ OnePublicationPerExperiment'
<1>1. PICK x \in Direct : x = worker[w].job
  BY JobsAreActions DEF FinishCommits, HandlerAt, ExecTypeOK, TypeOK
<1>2. handler'[w] = Entered /\ Decision[x] \in Decisions
  BY <1>1, Bindings DEF FinishCommits, ExecTypeOK
<1>3. CASE handler[w].outcome # "PUBLISHED"
  <2>1. reference' = reference /\ experiment' = experiment
    BY <1>3 DEF FinishCommits
  <2>2. QED
    BY <1>2, <2>1, EnteredFields DEF ExperimentGuarded, OnePublicationPerExperiment
<1>4. CASE handler[w].outcome = "PUBLISHED"
  <2>1. /\ experiment[Decision[x]] \in {"NONE", "DRAFT"}
        /\ reference' = [reference EXCEPT ![x] = handler[w].id]
        /\ experiment' = IF experiment[Decision[x]] # "NONE"
                         THEN [experiment EXCEPT ![Decision[x]] = "RUNNING"] ELSE experiment
    BY <1>1, <1>4 DEF FinishCommits, HandlerAt, ExperimentGuarded
  <2>2. \A d \in Decisions : d # Decision[x] => experiment'[d] = experiment[d]
    BY <2>1 DEF ExecTypeOK
  <2>3. experiment'[Decision[x]] = IF experiment[Decision[x]] = "NONE" THEN "NONE" ELSE "RUNNING"
    BY <1>2, <2>1 DEF ExecTypeOK
  <2>4. \A y \in Direct : y # x => reference'[y] = reference[y]
    BY <2>1 DEF ExecTypeOK
  <2>5. ASSUME NEW y \in Direct, reference'[y] # 0
        PROVE  experiment'[Decision[y]] \in {"NONE", "RUNNING"}
    <3>1. CASE Decision[y] = Decision[x]
      BY <2>3, <3>1
    <3>2. CASE Decision[y] # Decision[x]
      BY <2>2, <2>4, <2>5, <3>2, Bindings DEF ExperimentGuarded
    <3>3. QED
      BY <3>1, <3>2
  <2>6. ExperimentGuarded'
    BY <1>2, <2>5, EnteredFields DEF ExperimentGuarded
  <2>7. ASSUME NEW y \in Direct, NEW z \in Direct, Decision[y] = Decision[z],
               experiment'[Decision[y]] # "NONE", reference'[y] # 0, reference'[z] # 0, y # z
        PROVE  FALSE
    <3>1. CASE Decision[y] = Decision[x]
      <4>1. experiment[Decision[x]] = "DRAFT"
        BY <2>1, <2>3, <2>7, <3>1
      <4>2. reference[y] = 0 /\ reference[z] = 0
        BY <2>7, <3>1, <4>1 DEF ExperimentGuarded
      <4>3. QED
        BY <2>4, <2>7, <4>2
    <3>2. CASE Decision[y] # Decision[x]
      BY <2>2, <2>4, <2>7, <3>2, Bindings DEF OnePublicationPerExperiment
    <3>3. QED
      BY <3>1, <3>2
  <2>8. QED
    BY <2>6, <2>7 DEF OnePublicationPerExperiment
<1>5. QED
  BY <1>3, <1>4

LEMMA GuardedOtherwise ==
  ASSUME ExecTypeOK, HandlerHonest, ExperimentGuarded, OnePublicationPerExperiment,
         [ExecNext]_execVars, ~\E w \in Workers : FinishCommits(w)
  PROVE  ExperimentGuarded' /\ OnePublicationPerExperiment'
<1>1. experiment' = experiment /\ \A x \in Direct : reference'[x] = reference[x]
  BY ExperimentMoves, RecordMoves DEF ApproveCommit
<1>2. ASSUME NEW w \in Workers,
             \/ handler'[w].stage \in {"cleared", "sending"}
             \/ handler'[w].stage = "ending" /\ handler'[w].outcome = "PUBLISHED"
      PROVE  experiment[Decision[worker'[w].job]] \in {"NONE", "DRAFT"}
  <2>1. CASE worker'[w] = worker[w] /\ handler'[w] = handler[w]
    BY <1>2, <2>1 DEF ExperimentGuarded
  <2>2. CASE worker'[w].pc # "handling" /\ handler'[w] = Entered
    BY <1>2, <2>2, EnteredFields
  <2>3. CASE worker[w].pc # "handling" /\ handler'[w] = handler[w]
    BY <1>2, <2>3, EnteredFields DEF HandlerHonest
  <2>4. ASSUME UNCHANGED vars, LoadExecution(w) PROVE FALSE
    BY <1>2, <2>4, StageFields DEF LoadExecution, ExecTypeOK
  <2>5. ASSUME UNCHANGED vars, Preflight(w)
        PROVE  experiment[Decision[worker'[w].job]] \in {"NONE", "DRAFT"}
    <3>1. worker' = worker
      BY <2>5 DEF vars
    <3>2. ~_preflight_block_reason(worker[w].job)
      BY <1>2, <2>5, StageFields DEF Preflight, ExecTypeOK
    <3>3. QED
      BY <3>1, <3>2 DEF _preflight_block_reason
  <2>6. ASSUME UNCHANGED vars,
               \/ MarkRunning(w) \/ ProviderAccepts(w)
               \/ \E delivered \in BOOLEAN : ProviderRejects(w, delivered) \/ ProviderAmbiguous(w, delivered)
        PROVE  experiment[Decision[worker'[w].job]] \in {"NONE", "DRAFT"}
    <3>1. worker' = worker /\ handler[w].stage \in {"cleared", "sending"}
      BY <2>6 DEF vars, MarkRunning, ProviderAccepts, ProviderRejects, ProviderAmbiguous, HandlerAt
    <3>2. QED
      BY <3>1 DEF ExperimentGuarded
  <2>7. QED
    BY <2>1, <2>2, <2>3, <2>4, <2>5, <2>6, HandlerCases
<1>3. QED
  BY <1>1, <1>2 DEF ExperimentGuarded, OnePublicationPerExperiment

\* With one worker process an experiment gets at most one recorded publication,
\* however often its actions are approved, retried or crash: the preflight's look
\* at the experiment is enough.  (With two workers it is not: both may pass it.)
THEOREM OneWorkerOnePublication ==
  (\A v, w \in Workers : v = w) => (ExecSpec => []OnePublicationPerExperiment)
<1> SUFFICES ASSUME \A v, w \in Workers : v = w
             PROVE  ExecSpec => []OnePublicationPerExperiment
  OBVIOUS
<1>1. ExecInit => ExperimentGuarded /\ OnePublicationPerExperiment
  BY EnteredFields DEF ExecInit, ExperimentGuarded, OnePublicationPerExperiment
<1>2. ASSUME ExecTypeOK, HandlerHonest, ExperimentGuarded, OnePublicationPerExperiment,
             [ExecNext]_execVars
      PROVE  ExperimentGuarded' /\ OnePublicationPerExperiment'
  BY <1>2, GuardedByCommit, GuardedOtherwise
<1>3. QED
  BY <1>1, <1>2, ExecTypeCorrect, HonestInvariant, PTL DEF ExecSpec
=============================================================================
