-------------------------- MODULE AgentRunsProofs --------------------------
(***************************************************************************)
(* Proofs about AgentRuns, for any workers and runs and any number of      *)
(* faults.  The handler of agent runs only takes steps of the job runtime, *)
(* so what JobRuntimeProofs proves of the runtime holds here.              *)
(***************************************************************************)
EXTENDS AgentRuns, JobRuntimeProofs, FiniteSetTheorems

\* Every step of an agent run is a step of the job runtime, or leaves the
\* runtime alone.
LEMMA AgentStep == [AgentNext]_agentVars => [Next]_vars
<1> SUFFICES ASSUME [AgentNext]_agentVars PROVE Next \/ UNCHANGED vars
  BY DEF agentVars, vars
<1>1. ASSUME NEW r \in Direct, CreateBegin(r) \/ CreateCommit(r) \/ CreateRollback(r) PROVE Next
  BY <1>1 DEF CreateBegin, CreateCommit, CreateRollback, Next, Client
<1>2. ASSUME NEW w \in Workers, HandlerStep(w) PROVE Next \/ UNCHANGED vars
  <2>1. CASE LoadRun(w) \/ MarkRunning(w) \/ LoadRunForFailure(w) \/ \E result \in Results : Answer(w, result)
    BY <2>1 DEF LoadRun, MarkRunning, LoadRunForFailure, Answer
  <2>2. CASE (\E retry \in BOOLEAN : Raise(w, retry)) \/ DbFails(w)
    <3>1. \E retry \in BOOLEAN : HandlerRaises(w, retry)
      BY <2>2 DEF Raise, DbFails
    <3>2. QED
      BY <3>1 DEF Next, WorkerStep
  <2>3. CASE Persist(w)
    BY <2>3 DEF Persist, Next, WorkerStep
  <2>4. CASE RecordAttempt(w)
    BY <2>4 DEF RecordAttempt, Next, WorkerStep
  <2>5. QED
    BY <1>2, <2>1, <2>2, <2>3, <2>4 DEF HandlerStep
<1>3. ASSUME NEW w \in Workers, Crash(w) PROVE Next
  BY <1>3 DEF Crash, Next, Fault
<1>4. CASE Background
  BY <1>4 DEF Background, Next, Fault
<1>5. ASSUME NEW w \in Workers, RuntimeStep(w) PROVE Next
  BY <1>5 DEF RuntimeStep, Next, WorkerStep
<1>6. CASE UNCHANGED agentVars
  BY <1>6 DEF agentVars
<1>7. QED
  BY <1>1, <1>2, <1>3, <1>4, <1>5, <1>6 DEF AgentNext

\* Agent runs run on the job runtime.
THEOREM AgentsUseRuntime == AgentSpec => Spec
<1>1. AgentInit => Init
  BY DEF AgentInit
<1>2. QED
  BY <1>1, AgentStep, PTL DEF AgentSpec, Spec

-----------------------------------------------------------------------------
LEMMA JobsAreRuns == Jobs = Direct
BY RunsAssumption DEF Jobs

LEMMA RunTypes ==
  /\ NoRun \in RunRow
  /\ Entered \in AgentState /\ Entered.stage = "entered"
  /\ Results \subseteq RunStatus
  /\ {"QUEUED", "RETRY_WAIT", "FAILED"} \subseteq RunStatus
BY DEF NoRun, RunRow, RunStatus, Results, Entered, Stage, AgentState

LEMMA AgentTypeStep == AgentTypeOK /\ [AgentNext]_agentVars => AgentTypeOK'
<1> SUFFICES ASSUME AgentTypeOK, [AgentNext]_agentVars PROVE AgentTypeOK'
  OBVIOUS
<1>1. TypeOK'
  BY AgentStep, TypeStep DEF AgentTypeOK
<1> DEFINE Rest == run \in [Direct -> RunRow] /\ agent \in [Workers -> AgentState]
                   /\ calls \in [Direct -> Nat]
<1>2. Rest
  BY DEF AgentTypeOK
<1>3. ASSUME NEW w \in Workers, worker[w].pc # "idle" PROVE worker[w].job \in Direct
  BY <1>3, JobsAreRuns DEF AgentTypeOK, TypeOK
<1>4. ASSUME NEW w \in Workers, NEW a \in AgentState, agent' = [agent EXCEPT ![w] = a],
             UNCHANGED run,
             UNCHANGED calls \/ \E r \in Direct : calls' = [calls EXCEPT ![r] = @ + 1]
      PROVE  Rest'
  BY <1>2, <1>4
<1>5. ASSUME NEW r \in Direct, CreateBegin(r) \/ CreateCommit(r) \/ CreateRollback(r) PROVE Rest'
  BY <1>2, <1>5, RunTypes DEF CreateBegin, CreateCommit, CreateRollback, RunRow
<1>6. ASSUME NEW w \in Workers, HandlerStep(w) PROVE Rest'
  <2>1. agent[w] \in AgentState
    BY <1>2
  <2>2. CASE LoadRun(w) \/ LoadRunForFailure(w)
    <3>1. PICK row \in RunRow : row = run[worker[w].job]
      BY <1>2, <1>3, <2>2 DEF LoadRun, LoadRunForFailure, AgentAt
    <3>2. \A stage \in {"loaded", "ending"} : Stage(stage, row, "NONE") \in AgentState
      BY <3>1 DEF Stage, AgentState
    <3>3. PICK a \in AgentState : agent' = [agent EXCEPT ![w] = a]
      BY <2>2, <3>1, <3>2 DEF LoadRun, LoadRunForFailure
    <3>4. QED
      BY <1>4, <2>2, <3>3 DEF LoadRun, LoadRunForFailure
  <2>3. CASE MarkRunning(w)
    BY <1>2, <2>1, <2>3 DEF MarkRunning, AgentState
  <2>4. ASSUME NEW result \in Results, Answer(w, result) PROVE Rest'
    <3>1. worker[w].job \in Direct
      BY <1>3, <2>4 DEF Answer, AgentAt
    <3>2. agent' \in [Workers -> AgentState]
      BY <1>2, <2>1, <2>4 DEF Answer, AgentState, Stage
    <3>3. QED
      BY <1>2, <2>4, <3>1, <3>2 DEF Answer
  <2>5. ASSUME NEW retry \in BOOLEAN, Raise(w, retry) PROVE Rest'
    <3>1. worker[w].job \in Direct
      BY <1>3, <2>5 DEF Raise, HandlerRaises
    <3>2. QED
      BY <1>4, <2>5, <3>1, RunTypes DEF Raise
  <2>6. CASE Persist(w)
    <3>1. PICK r \in Direct : r = worker[w].job
      BY <1>3, <2>6 DEF Persist, AgentAt
    <3>2. worker[w].loaded.attempt \in Nat
      BY DEF AgentTypeOK, TypeOK, WorkerState, Row
    <3>3. agent[w].result \in {"NONE"} \cup Results /\ run[r].output \in Nat
      BY <1>2, <2>1 DEF AgentState, RunRow
    <3>4. agent[w].result # "NONE" =>
            _persist_model_result(run[r], agent[w], worker[w].loaded.attempt) \in RunRow
      BY <3>2, <3>3, RunTypes DEF _persist_model_result, Column, RunRow
    <3>5. run' \in [Direct -> RunRow]
      BY <1>2, <2>6, <3>1, <3>4 DEF Persist
    <3>6. QED
      BY <1>2, <2>6, <3>5, RunTypes DEF Persist
  <2>7. CASE DbFails(w)
    BY <1>4, <2>7, RunTypes DEF DbFails
  <2>8. CASE RecordAttempt(w)
    <3>1. PICK r \in Direct : r = worker[w].job
      BY <1>3, <2>8 DEF RecordAttempt, AgentAt
    <3>2. record_attempt_failure(r, w) \in {"RETRY_WAIT", "FAILED"}
      BY DEF record_attempt_failure
    <3>3. run' = run \/ \E s \in RunStatus : run' = [run EXCEPT ![r].status = s]
      <4>1. run[r].status \in RunStatus
        BY <1>2 DEF RunRow
      <4>2. Column(run[r].status, agent[w].seen.status, record_attempt_failure(r, w)) \in RunStatus
        BY <3>2, <4>1, RunTypes DEF Column
      <4>3. QED
        BY <2>8, <3>1, <4>2 DEF RecordAttempt
    <3>4. run' \in [Direct -> RunRow]
      BY <1>2, <3>3 DEF RunRow
    <3>5. QED
      BY <1>2, <2>8, <3>4, RunTypes DEF RecordAttempt
  <2>9. QED
    BY <1>6, <2>2, <2>3, <2>4, <2>5, <2>6, <2>7, <2>8 DEF HandlerStep
<1>7. ASSUME NEW w \in Workers, Crash(w) PROVE Rest'
  BY <1>4, <1>7, RunTypes DEF Crash
<1>8. ASSUME UNCHANGED <<run, agent, calls>> PROVE Rest'
  BY <1>2, <1>8
<1>9. Rest'
  BY <1>5, <1>6, <1>7, <1>8 DEF AgentNext, agentVars
<1>10. QED
  BY <1>1, <1>9 DEF AgentTypeOK

\* Type correctness of agent runs.
THEOREM AgentTypeCorrect == AgentSpec => []AgentTypeOK
<1>1. AgentInit => AgentTypeOK
  BY InitType, RunTypes DEF AgentInit, AgentTypeOK
<1>2. QED
  BY <1>1, AgentTypeStep, PTL DEF AgentSpec
-----------------------------------------------------------------------------
(* The run and its job.                                                    *)

\* A worker that is neither in the handler nor in the recorder has read nothing.
AgentInOrder(w) ==
  /\ worker[w].pc \notin {"handling", "recording"} => agent[w].stage = "entered"
  /\ worker[w].pc = "recording" => agent[w].stage \in {"entered", "loaded"}

Agrees(r) ==
  /\ Follows(run[r].status, jobs[r].status)
  /\ run[r].output = IF run[r].status = "SUCCEEDED" THEN jobs[r].attempt ELSE 0

\* The worker engaged with the job has read the run as it is, which is not over.
Knows(w, r) ==
  /\ agent[w].stage # "entered" => agent[w].seen = run[r]
  /\ agent[w].stage = "ending" => agent[w].result \in Results

\* The inductive invariant behind RunFollowsJob.
RunInv ==
  /\ \A w \in Workers : AgentInOrder(w)
  /\ \A r \in Direct \ lapsed : Agrees(r) /\ \A w \in Workers : Engaged(w, r) => Knows(w, r)

LEMMA RunInvInit == AgentInit => RunInv
<1> SUFFICES ASSUME AgentInit PROVE RunInv
  OBVIOUS
<1>1. \A w \in Workers : worker[w].pc = "idle" /\ agent[w].stage = "entered"
  BY RunTypes, RowTypes DEF AgentInit, Init
<1>2. \A r \in Direct : jobs[r].status = "ABSENT" /\ run[r].status = "NONE" /\ run[r].output = 0
  BY JobsAreRuns DEF AgentInit, Init, NoRow, NoRun
<1>3. QED
  BY <1>1, <1>2 DEF RunInv, AgentInOrder, Agrees, Follows, Engaged

\* What it takes for a step of worker w to keep RunInv: w is in order, and so
\* is what it says about the one job it changes.
LEMMA OneWorkerMoves ==
  ASSUME AgentTypeOK, RunInv, NEW w \in Workers, NEW x \in Direct,
         \A v \in Workers \ {w} : worker'[v] = worker[v] /\ agent'[v] = agent[v],
         lapsed' = lapsed,
         \A r \in Direct \ {x} : jobs'[r] = jobs[r] /\ run'[r] = run[r] /\ ~Engaged(w, r)',
         AgentInOrder(w)',
         x \notin lapsed => /\ Agrees(x)'
                            /\ Engaged(w, x)' => Knows(w, x)'
                            /\ \/ run'[x] = run[x]
                               \/ \A v \in Workers \ {w} : ~Engaged(v, x)
  PROVE  RunInv'
<1>1. \A v \in Workers : AgentInOrder(v)'
  BY DEF RunInv, AgentInOrder
<1>2. ASSUME NEW r \in Direct, r \notin lapsed', NEW v \in Workers, Engaged(v, r)'
      PROVE  Knows(v, r)'
  <2>1. CASE v = w
    BY <1>2, <2>1
  <2>2. CASE v # w
    <3>1. Engaged(v, r) /\ agent'[v] = agent[v]
      BY <1>2, <2>2 DEF Engaged
    <3>2. Knows(v, r) /\ run'[r] = run[r]
      BY <1>2, <2>2, <3>1 DEF RunInv
    <3>3. QED
      BY <3>1, <3>2 DEF Knows
  <2>3. QED
    BY <2>1, <2>2
<1>3. ASSUME NEW r \in Direct, r \notin lapsed' PROVE Agrees(r)'
  <2>1. CASE r = x
    BY <1>3, <2>1
  <2>2. CASE r # x
    BY <1>3, <2>2 DEF RunInv, Agrees
  <2>3. QED
    BY <2>1, <2>2
<1>4. QED
  BY <1>1, <1>2, <1>3 DEF RunInv

\* A step that moves no worker, and changes jobs only as Agrees allows.
LEMMA NoWorkerMoves ==
  ASSUME AgentTypeOK, RunInv, UNCHANGED <<worker, agent>>, lapsed \subseteq lapsed',
         \A r \in Direct \ lapsed' :
           /\ Agrees(r)'
           /\ run'[r] = run[r] \/ \A w \in Workers : ~Engaged(w, r)
  PROVE  RunInv'
<1>1. \A w \in Workers : AgentInOrder(w)'
  BY DEF RunInv, AgentInOrder
<1>2. ASSUME NEW r \in Direct, r \notin lapsed', NEW w \in Workers, Engaged(w, r)'
      PROVE  Knows(w, r)'
  <2>1. Engaged(w, r) /\ run'[r] = run[r] /\ Knows(w, r)
    BY <1>2 DEF Engaged, RunInv
  <2>2. QED
    BY <2>1 DEF Knows
<1>3. QED
  BY <1>1, <1>2 DEF RunInv
\* While its lease has not expired, a job that a worker is engaged with is
\* RUNNING, and the worker has loaded its row as it is.
LEMMA EngagedRow ==
  ASSUME AgentTypeOK, LeaseInv, NEW w \in Workers, NEW x \in Direct, x \notin lapsed, Engaged(w, x)
  PROVE  /\ jobs[x].status = "RUNNING"
         /\ worker[w].pc \in {"handling", "recording"} => worker[w].loaded = jobs[x]
         /\ \A v \in Workers \ {w} : ~Engaged(v, x)
BY JobsAreRuns DEF LeaseInv, HolderInOrder

\* AgentRunService.
LEMMA CreateKeeps ==
  ASSUME AgentTypeOK, LeaseInv, RunInv, NEW r \in Direct,
         CreateBegin(r) \/ CreateCommit(r) \/ CreateRollback(r)
  PROVE  RunInv'
<1>1. /\ UNCHANGED <<worker, agent, lapsed>>
      /\ \A x \in Direct \ {r} : jobs'[x] = jobs[x] /\ run'[x] = run[x]
      /\ jobs[r].status \in {"ABSENT", "UNCOMMITTED"}
  BY JobsAreRuns DEF CreateBegin, CreateCommit, CreateRollback, SubmitNew, SubmitCommit,
     SubmitRollback, AgentTypeOK, TypeOK
<1>2. \/ jobs'[r].status \in {"ABSENT", "UNCOMMITTED"} /\ run'[r] = run[r]
      \/ jobs'[r].status = "QUEUED" /\ run'[r] = [status |-> "QUEUED", output |-> run[r].output]
  <2>1. jobs[r] \in Row /\ run[r] \in RunRow
    BY JobsAreRuns DEF AgentTypeOK, TypeOK
  <2>2. QED
    BY <2>1, JobsAreRuns, RowTypes
    DEF CreateBegin, CreateCommit, CreateRollback, SubmitNew, SubmitCommit, SubmitRollback,
        AgentTypeOK, TypeOK, Row, RunRow, NoRow
<1>3. ASSUME r \notin lapsed PROVE Agrees(r)' /\ \A w \in Workers : ~Engaged(w, r)
  <2>1. run[r].status = "NONE" /\ run[r].output = 0
    BY <1>1, <1>3 DEF RunInv, Agrees, Follows
  <2>2. Agrees(r)'
    BY <1>2, <2>1 DEF Agrees, Follows
  <2>3. QED
    BY <1>1, <1>3, <2>2, EngagedRow
<1>4. \A x \in Direct \ {r} : x \notin lapsed => Agrees(x)'
  BY <1>1 DEF RunInv, Agrees
<1>5. QED
  BY <1>1, <1>3, <1>4, NoWorkerMoves

\* A step that only moves the handler or the recorder of w.
LEMMA AgentMoves ==
  ASSUME AgentTypeOK, RunInv, NEW w \in Workers, UNCHANGED <<vars, run>>,
         NEW a, agent' = [agent EXCEPT ![w] = a],
         worker[w].pc \in {"handling", "recording"},
         worker[w].pc = "recording" => a.stage \in {"entered", "loaded"},
         worker[w].job \notin lapsed =>
           /\ a.stage # "entered" => a.seen = run[worker[w].job]
           /\ a.stage = "ending" => a.result \in Results
  PROVE  RunInv'
<1>1. PICK x \in Direct : x = worker[w].job
  BY JobsAreRuns DEF AgentTypeOK, TypeOK
<1>2. agent'[w] = a /\ UNCHANGED <<jobs, worker, lapsed>>
  BY DEF AgentTypeOK, vars
<1>3. AgentInOrder(w)'
  BY <1>2 DEF AgentInOrder
<1>4. x \notin lapsed => Agrees(x)' /\ Knows(w, x)'
  BY <1>1, <1>2 DEF RunInv, Agrees, Knows
<1>5. \A v \in Workers \ {w} : worker'[v] = worker[v] /\ agent'[v] = agent[v]
  BY <1>2 DEF AgentTypeOK
<1>6. \A r \in Direct \ {x} : ~Engaged(w, r)'
  BY <1>1, <1>2 DEF Engaged
<1>7. QED
  BY <1>1, <1>2, <1>3, <1>4, <1>5, <1>6, OneWorkerMoves

\* The handler's and the recorder's own steps.
LEMMA HandlerKeeps ==
  ASSUME AgentTypeOK, LeaseInv, RunInv, NEW w \in Workers,
         \/ LoadRun(w) \/ MarkRunning(w) \/ LoadRunForFailure(w)
         \/ \E result \in Results : Answer(w, result)
  PROVE  RunInv'
<1>1. worker[w].pc \in {"handling", "recording"} /\ agent[w] \in AgentState
  BY DEF LoadRun, MarkRunning, LoadRunForFailure, Answer, AgentAt, AgentTypeOK
<1>2. PICK x \in Direct : x = worker[w].job
  BY <1>1, JobsAreRuns DEF AgentTypeOK, TypeOK
<1>3. x \notin lapsed => /\ Knows(w, x) /\ jobs[x].status = "RUNNING"
                         /\ ~agent_run_is_terminal(run[x].status)
  <2>1. Engaged(w, x)
    BY <1>1, <1>2 DEF Engaged
  <2>2. QED
    BY <2>1, EngagedRow DEF RunInv, Agrees, Follows, agent_run_is_terminal, Results
<1>4. CASE LoadRun(w)
  <2>1. PICK a : /\ agent' = [agent EXCEPT ![w] = a]
                 /\ a = Stage(IF agent_run_is_terminal(run[x].status) THEN "ending" ELSE "loaded",
                              run[x], "NONE")
    BY <1>2, <1>4 DEF LoadRun
  <2>2. x \notin lapsed => a.stage = "loaded" /\ a.seen = run[x]
    BY <1>3, <2>1 DEF Stage
  <2>3. worker[w].pc = "handling" /\ UNCHANGED <<vars, run>>
    BY <1>4 DEF LoadRun, AgentAt
  <2>4. QED
    BY <1>2, <2>1, <2>2, <2>3, AgentMoves
<1>5. CASE LoadRunForFailure(w)
  <2>1. PICK a : /\ agent' = [agent EXCEPT ![w] = a]
                 /\ a = Stage("loaded", run[x], "NONE")
    BY <1>2, <1>5 DEF LoadRunForFailure
  <2>2. a.stage = "loaded" /\ a.seen = run[x]
    BY <2>1 DEF Stage
  <2>3. UNCHANGED <<vars, run>>
    BY <1>5 DEF LoadRunForFailure
  <2>4. QED
    BY <1>1, <1>2, <2>1, <2>2, <2>3, AgentMoves
<1>6. CASE MarkRunning(w)
  <2>1. PICK a : /\ agent' = [agent EXCEPT ![w] = a]
                 /\ a = [agent[w] EXCEPT !.stage = "calling"]
    BY <1>6, Zenon DEF MarkRunning
  <2>2. a.stage = "calling" /\ a.seen = agent[w].seen
    BY <1>1, <2>1 DEF AgentState
  <2>3. worker[w].pc = "handling" /\ agent[w].stage = "loaded" /\ UNCHANGED <<vars, run>>
    BY <1>6 DEF MarkRunning, AgentAt
  <2>4. x \notin lapsed => a.seen = run[x]
    BY <1>3, <2>2, <2>3 DEF Knows
  <2>5. QED
    BY <1>2, <2>1, <2>2, <2>3, <2>4, AgentMoves
<1>7. ASSUME NEW result \in Results, Answer(w, result) PROVE RunInv'
  <2>1. PICK a : /\ agent' = [agent EXCEPT ![w] = a]
                 /\ a = Stage("ending", agent[w].seen, result)
    BY <1>7 DEF Answer
  <2>2. a.stage = "ending" /\ a.seen = agent[w].seen /\ a.result = result
    BY <2>1 DEF Stage
  <2>3. worker[w].pc = "handling" /\ agent[w].stage = "calling" /\ UNCHANGED <<vars, run>>
    BY <1>7 DEF Answer, AgentAt
  <2>4. x \notin lapsed => a.seen = run[x]
    BY <1>3, <2>2, <2>3 DEF Knows
  <2>5. QED
    BY <1>2, <2>1, <2>2, <2>3, <2>4, AgentMoves
<1>8. QED
  BY <1>4, <1>5, <1>6, <1>7
\* The worker leaves the handler or the recorder, with or without changing the
\* job it was engaged with.
LEMMA LeavesKeep ==
  ASSUME AgentTypeOK, LeaseInv, RunInv, NEW w \in Workers, NEW x \in Direct,
         Engaged(w, x), lapsed' = lapsed,
         \A r \in Direct \ {x} : jobs'[r] = jobs[r] /\ run'[r] = run[r],
         x \notin lapsed => Agrees(x)',
         NEW p \in WorkerState, worker' = [worker EXCEPT ![w] = p],
         p.pc \notin {"handling", "recording"}, p.pc = "idle" \/ p.job = x,
         agent' = [agent EXCEPT ![w] = Entered]
  PROVE  RunInv'
<1>1. worker'[w] = p /\ agent'[w] = Entered
  BY DEF AgentTypeOK, TypeOK
<1>2. \A v \in Workers \ {w} : worker'[v] = worker[v] /\ agent'[v] = agent[v]
  BY DEF AgentTypeOK, TypeOK
<1>3. AgentInOrder(w)'
  BY <1>1, RunTypes DEF AgentInOrder
<1>4. Knows(w, x)'
  BY <1>1, RunTypes DEF Knows
<1>5. \A r \in Direct \ {x} : ~Engaged(w, r)'
  BY <1>1 DEF Engaged
<1>6. x \notin lapsed => \A v \in Workers \ {w} : ~Engaged(v, x)
  BY EngagedRow
<1>7. QED
  BY <1>2, <1>3, <1>4, <1>5, <1>6, OneWorkerMoves

LEMMA HandlingJob ==
  ASSUME AgentTypeOK, NEW w \in Workers, worker[w].pc \in {"claimed", "handling", "failed", "recording"}
  PROVE  \E x \in Direct : x = worker[w].job /\ Engaged(w, x)
BY JobsAreRuns DEF AgentTypeOK, TypeOK, Engaged

\* The handler raises, or the database fails.
LEMMA RaiseKeeps ==
  ASSUME AgentTypeOK, LeaseInv, RunInv, NEW w \in Workers, NEW retry \in BOOLEAN,
         HandlerRaises(w, retry), agent' = [agent EXCEPT ![w] = Entered], run' = run
  PROVE  RunInv'
<1>1. PICK x \in Direct : x = worker[w].job /\ Engaged(w, x)
  BY HandlingJob DEF HandlerRaises
<1>2. PICK p \in WorkerState : /\ worker' = [worker EXCEPT ![w] = p]
                               /\ p.pc = "failed" /\ p.job = x
  <2>1. At("failed", x, NoRow, retry) \in WorkerState
    BY <1>1, AtType, RowTypes, JobsAreRuns
  <2>2. At("failed", x, NoRow, retry).pc = "failed" /\ At("failed", x, NoRow, retry).job = x
    BY DEF At
  <2>3. QED
    BY <1>1, <2>1, <2>2 DEF HandlerRaises
<1>3. UNCHANGED <<jobs, lapsed>>
  BY DEF HandlerRaises
<1>4. x \notin lapsed => Agrees(x)'
  BY <1>3 DEF RunInv, Agrees
<1>5. QED
  BY <1>1, <1>2, <1>3, <1>4, LeavesKeep

\* The handler's result and the job's success are committed together.
LEMMA PersistKeeps ==
  ASSUME AgentTypeOK, LeaseInv, RunInv, NEW w \in Workers, Persist(w)
  PROVE  RunInv'
<1>1. PICK x \in Direct : x = worker[w].job /\ Engaged(w, x)
  BY HandlingJob DEF Persist, AgentAt
<1>2. /\ worker[w].pc = "handling" /\ agent[w].stage = "ending"
      /\ worker' = [worker EXCEPT ![w] = Idle]
      /\ agent' = [agent EXCEPT ![w] = Entered]
      /\ lapsed' = lapsed
      /\ jobs' = [jobs EXCEPT ![x] = Flush(jobs[x], worker[w].loaded, mark_job_succeeded)]
      /\ run' = IF agent[w].result = "NONE" THEN run
                ELSE [run EXCEPT ![x] =
                        _persist_model_result(run[x], agent[w], worker[w].loaded.attempt)]
  BY <1>1 DEF Persist, AgentAt, HandlerSucceeds
<1>3. \A r \in Direct \ {x} : jobs'[r] = jobs[r] /\ run'[r] = run[r]
  BY <1>2, JobsAreRuns DEF AgentTypeOK, TypeOK
<1>4. ASSUME x \notin lapsed PROVE Agrees(x)'
  <2>1. worker[w].loaded = jobs[x] /\ jobs[x].status = "RUNNING"
    BY <1>1, <1>2, <1>4, EngagedRow
  <2>2. jobs'[x].status = "SUCCEEDED" /\ jobs'[x].attempt = jobs[x].attempt
    BY <1>2, <2>1, JobsAreRuns DEF Flush, Column, mark_job_succeeded, AgentTypeOK, TypeOK
  <2>3. agent[w].result \in Results /\ agent[w].seen = run[x]
    BY <1>1, <1>2, <1>4 DEF RunInv, Knows
  <2>4. run'[x] = [status |-> agent[w].result,
                   output |-> IF agent[w].result = "SUCCEEDED" THEN jobs[x].attempt
                              ELSE Column(run[x].output, run[x].output, 0)]
    BY <1>2, <2>1, <2>3 DEF _persist_model_result, Results, AgentTypeOK
  <2>5. run[x].output = 0
    BY <1>4, <2>1 DEF RunInv, Agrees, Follows
  <2>6. QED
    BY <2>2, <2>3, <2>4, <2>5 DEF Agrees, Follows, Column
<1>5. QED
  BY <1>1, <1>2, <1>3, <1>4, RowTypes, LeavesKeep

\* The run's failure and the job's are committed together.
LEMMA RecordKeeps ==
  ASSUME AgentTypeOK, LeaseInv, RunInv, NEW w \in Workers, RecordAttempt(w)
  PROVE  RunInv'
<1>1. PICK x \in Direct : x = worker[w].job /\ Engaged(w, x)
  BY HandlingJob DEF RecordAttempt, AgentAt
<1>2. PICK upd : upd = mark_job_failed_or_retrying(x, worker[w].loaded, worker[w].retry)
  OBVIOUS
<1>3. \/ upd.status = "RETRY_WAIT" /\ record_attempt_failure(x, w) = "RETRY_WAIT"
      \/ upd.status = "FAILED" /\ record_attempt_failure(x, w) = "FAILED"
  BY <1>2 DEF record_attempt_failure, mark_job_failed_or_retrying
<1>4. /\ worker[w].pc = "recording" /\ agent[w].stage = "loaded"
      /\ worker' = [worker EXCEPT ![w] = Idle]
      /\ agent' = [agent EXCEPT ![w] = Entered]
      /\ lapsed' = lapsed
      /\ jobs' = [jobs EXCEPT ![x] = Flush(jobs[x], worker[w].loaded, upd)]
  BY <1>1, <1>2 DEF RecordAttempt, AgentAt, RecordFailure
<1>5. \A r \in Direct \ {x} : jobs'[r] = jobs[r] /\ run'[r] = run[r]
  <2>1. \A r \in Direct \ {x} : run'[r] = run[r]
    BY <1>1 DEF RecordAttempt, AgentTypeOK
  <2>2. QED
    BY <1>4, <2>1, JobsAreRuns DEF AgentTypeOK, TypeOK
<1>6. ASSUME x \notin lapsed PROVE Agrees(x)'
  <2>1. worker[w].loaded = jobs[x] /\ jobs[x].status = "RUNNING"
    BY <1>1, <1>4, <1>6, EngagedRow
  <2>2. jobs'[x].status = upd.status
    BY <1>3, <1>4, <2>1, JobsAreRuns DEF Flush, Column, AgentTypeOK, TypeOK
  <2>3. /\ run[x].status \in {"QUEUED", "RETRY_WAIT"} /\ run[x].output = 0
        /\ agent[w].seen = run[x]
    BY <1>1, <1>4, <1>6, <2>1 DEF RunInv, Agrees, Follows, Knows
  <2>4. ~agent_run_is_terminal(agent[w].seen.status)
    BY <2>3 DEF agent_run_is_terminal, Results
  <2>5. PICK s : /\ s = Column(run[x].status, agent[w].seen.status, record_attempt_failure(x, w))
                 /\ run' = [run EXCEPT ![x].status = s]
    BY <1>1, <2>4 DEF RecordAttempt
  <2>6. run'[x].status = s /\ run'[x].output = 0
    BY <2>3, <2>5 DEF AgentTypeOK, RunRow
  <2>7. s = upd.status
    BY <1>3, <2>3, <2>5 DEF Column
  <2>8. QED
    BY <1>3, <2>2, <2>6, <2>7 DEF Agrees, Follows
<1>7. QED
  BY <1>1, <1>4, <1>5, <1>6, RowTypes, LeavesKeep

\* A worker dies.
LEMMA CrashKeeps ==
  ASSUME AgentTypeOK, LeaseInv, RunInv, NEW w \in Workers, Crash(w)
  PROVE  RunInv'
<1>1. PICK x \in Direct : x = worker[w].job
  BY JobsAreRuns DEF Crash, CrashWorker, AgentTypeOK, TypeOK
<1>2. /\ worker'[w] = Idle /\ agent'[w] = Entered
      /\ \A v \in Workers \ {w} : worker'[v] = worker[v] /\ agent'[v] = agent[v]
      /\ UNCHANGED <<jobs, run, lapsed>>
  BY DEF Crash, CrashWorker, AgentTypeOK, TypeOK
<1>3. AgentInOrder(w)'
  BY <1>2, RunTypes DEF AgentInOrder
<1>4. \A r \in Direct : ~Engaged(w, r)'
  BY <1>2, RowTypes DEF Engaged
<1>5. x \notin lapsed => Agrees(x)'
  BY <1>2 DEF RunInv, Agrees
<1>6. QED
  BY <1>2, <1>3, <1>4, <1>5, OneWorkerMoves
\* The worker pops an id, claims the job, enters the handler, or begins to
\* record a failure: it has read nothing of a run yet.
LEMMA RuntimeStepKeeps ==
  ASSUME AgentTypeOK, LeaseInv, RunInv, UNCHANGED <<run, agent>>, NEW w \in Workers,
         RuntimeStep(w) \/ \E j \in Jobs : Dequeue(w, j)
  PROVE  RunInv'
<1>1. agent[w].stage = "entered" /\ agent'[w] = agent[w]
  BY DEF RunInv, AgentInOrder, RuntimeStep, Claim, BeginHandling, LoadForFailure, Dequeue
<1>2. /\ \A v \in Workers \ {w} : worker'[v] = worker[v]
      /\ lapsed' = lapsed
  BY DEF RuntimeStep, Claim, BeginHandling, LoadForFailure, Dequeue, AgentTypeOK, TypeOK
<1>3. \A r \in Direct : AgentInOrder(w)' /\ Knows(w, r)'
  BY <1>1 DEF AgentInOrder, Knows
<1>4. PICK x \in Direct : /\ worker'[w].pc # "idle" => worker'[w].job = x
                          /\ ~Dequeue(w, x) => worker[w].job = x
  <2>1. CASE \E j \in Jobs : Dequeue(w, j)
    <3>1. PICK j \in Jobs : Dequeue(w, j)
      BY <2>1
    <3>2. worker'[w] = At("popped", j, NoRow, FALSE)
      BY <3>1 DEF Dequeue, AgentTypeOK, TypeOK
    <3>3. QED
      BY <3>1, <3>2, JobsAreRuns DEF At
  <2>2. CASE RuntimeStep(w)
    <3>1. PICK x \in Direct : x = worker[w].job
      BY <2>2, JobsAreRuns DEF RuntimeStep, Claim, BeginHandling, LoadForFailure, AgentTypeOK, TypeOK
    <3>2. worker'[w].pc # "idle" => worker'[w].job = x
      BY <2>2, <3>1, RowTypes
      DEF RuntimeStep, Claim, BeginHandling, LoadForFailure, At, AgentTypeOK, TypeOK
    <3>3. QED
      BY <3>1, <3>2
  <2>3. QED
    BY <2>1, <2>2
<1>5. \A r \in Direct \ {x} : ~Engaged(w, r)'
  BY <1>4 DEF Engaged
<1>6. \A r \in Direct \ {x} : jobs'[r] = jobs[r]
  BY <1>4, JobsAreRuns
  DEF RuntimeStep, Claim, BeginHandling, LoadForFailure, Dequeue, AgentTypeOK, TypeOK
<1>7. ASSUME x \notin lapsed PROVE Agrees(x)'
  <2>1. CASE jobs'[x] = jobs[x]
    BY <1>7, <2>1 DEF RunInv, Agrees
  <2>2. CASE jobs'[x] # jobs[x]
    <3>1. Claimable(jobs[x]) /\ jobs'[x] = ClaimedRow(w, jobs[x])
      BY <1>4, <2>2, JobsAreRuns
      DEF RuntimeStep, Claim, BeginHandling, LoadForFailure, Dequeue, AgentTypeOK, TypeOK
    <3>2. jobs[x].status \in {"QUEUED", "RETRY_WAIT"} /\ jobs'[x].status = "RUNNING"
      BY <1>7, <3>1, JobsAreRuns
      DEF Claimable, Due, LeaseExpired, LeaseInv, RowInOrder, ClaimedRow
    <3>3. QED
      BY <1>7, <3>2 DEF RunInv, Agrees, Follows
  <2>3. QED
    BY <2>1, <2>2
<1>8. QED
  BY <1>1, <1>2, <1>3, <1>4, <1>5, <1>6, <1>7, OneWorkerMoves

\* The scheduler, the clock and Redis do not touch a job whose lease has not
\* expired, but for its available_at.
LEMMA BackgroundKeeps ==
  ASSUME AgentTypeOK, LeaseInv, RunInv, UNCHANGED <<run, agent>>,
         \/ Scheduler \/ CrashScheduler
         \/ \E j \in Jobs : Clock(j) \/ LoseMessage(j)
  PROVE  RunInv'
<1>1. worker' = worker /\ lapsed \subseteq lapsed'
  BY DEF Scheduler, SchedRecover, SchedOutbox, SchedDue, SchedCommit, CrashScheduler, Clock,
         OrphanLeaseExpires, LeaseExpiresUnderWorker, ExpireLease, BackoffElapses, LoseMessage
<1>2. ASSUME NEW r \in Direct, r \notin lapsed'
      PROVE  jobs'[r].status = jobs[r].status /\ jobs'[r].attempt = jobs[r].attempt
  <2>1. CASE SchedCommit
    <3>1. r \notin sched.expired /\ r \notin sched.created
      BY <1>1, <1>2, RunsAssumption DEF LeaseInv, AgentTypeOK, TypeOK, SchedState
    <3>2. QED
      BY <2>1, <3>1, JobsAreRuns DEF SchedCommit
  <2>2. ASSUME NEW j \in Jobs, Clock(j)
        PROVE  jobs'[r].status = jobs[r].status /\ jobs'[r].attempt = jobs[r].attempt
    <3>1. jobs[r] \in Row
      BY JobsAreRuns DEF AgentTypeOK, TypeOK
    <3>2. CASE ExpireLease(j)
      <4>1. j # r
        BY <1>2, <3>2 DEF ExpireLease
      <4>2. QED
        BY <3>2, <4>1, JobsAreRuns DEF ExpireLease, AgentTypeOK, TypeOK
    <3>3. CASE BackoffElapses(j)
      BY <3>1, <3>3, JobsAreRuns DEF BackoffElapses, AgentTypeOK, TypeOK, Row
    <3>4. QED
      BY <2>2, <3>2, <3>3 DEF Clock, OrphanLeaseExpires, LeaseExpiresUnderWorker
  <2>3. CASE jobs' = jobs
    BY <2>3
  <2>4. QED
    BY <2>1, <2>2, <2>3 DEF Scheduler, SchedRecover, SchedOutbox, SchedDue, CrashScheduler, LoseMessage
<1>3. ASSUME NEW r \in Direct, r \notin lapsed' PROVE Agrees(r)'
  BY <1>1, <1>2, <1>3 DEF RunInv, Agrees
<1>4. QED
  BY <1>1, <1>3, NoWorkerMoves

LEMMA RunInvStep ==
  ASSUME AgentTypeOK, LeaseInv, RunInv, [AgentNext]_agentVars
  PROVE  RunInv'
<1>1. ASSUME NEW w \in Workers, HandlerStep(w) PROVE RunInv'
  <2>1. ASSUME NEW retry \in BOOLEAN, Raise(w, retry) PROVE RunInv'
    BY <2>1, RaiseKeeps DEF Raise
  <2>2. CASE DbFails(w)
    BY <2>2, RaiseKeeps DEF DbFails
  <2>3. QED
    BY <1>1, <2>1, <2>2, HandlerKeeps, PersistKeeps, RecordKeeps DEF HandlerStep
<1>2. CASE Background /\ UNCHANGED <<run, agent, calls>>
  BY <1>2, RuntimeStepKeeps, BackgroundKeeps DEF Background
<1>3. ASSUME NEW w \in Workers, RuntimeStep(w), UNCHANGED <<run, agent, calls>> PROVE RunInv'
  BY <1>3, RuntimeStepKeeps
<1>4. CASE UNCHANGED agentVars
  <2>1. UNCHANGED <<jobs, worker, lapsed, run, agent>>
    BY <1>4 DEF agentVars, vars
  <2>2. QED
    BY <2>1 DEF RunInv, AgentInOrder, Agrees, Knows, Engaged
<1>5. QED
  BY <1>1, <1>2, <1>3, <1>4, CreateKeeps, CrashKeeps DEF AgentNext

\* Until a job's lease expires for the first time, the agent run and its job
\* agree after every commit (AgentRunJobHandler.handle, record_attempt_failure).
THEOREM RunAgreesWithJob == AgentSpec => []RunFollowsJob
<1>1. AgentTypeOK /\ LeaseInv /\ RunInv /\ [AgentNext]_agentVars => RunInv'
  BY RunInvStep
<1>2. RunInv => RunFollowsJob
  BY DEF RunInv, Agrees, RunFollowsJob
<1>3. QED
  BY <1>1, <1>2, RunInvInit, AgentTypeCorrect, AgentsUseRuntime, LeaseInvariant, PTL DEF AgentSpec

-----------------------------------------------------------------------------
(* What a SUCCEEDED run holds.                                             *)

\* A worker inside the handler has loaded an attempt that was counted.
HandlesAttempt ==
  \A w \in Workers : worker[w].pc = "handling" =>
    worker[w].loaded.attempt \in 1..jobs[worker[w].job].attempt

LEMMA HandlesAttemptStep ==
  ASSUME TypeOK, LeaseInv, EngagedCounts, HandlesAttempt, [Next]_vars
  PROVE  HandlesAttempt'
<1> SUFFICES ASSUME NEW w \in Workers, worker'[w].pc = "handling"
             PROVE  worker'[w].loaded.attempt \in 1..jobs'[worker'[w].job].attempt
  BY DEF HandlesAttempt
<1>1. CASE worker'[w] = worker[w]
  <2>1. PICK j \in Jobs : j = worker[w].job
    BY <1>1 DEF TypeOK
  <2>2. /\ jobs[j].attempt \in Nat /\ jobs'[j].attempt \in Nat
        /\ jobs[j].attempt <= jobs'[j].attempt
    BY AttemptNeverFalls
  <2> QED
    BY <1>1, <2>1, <2>2 DEF HandlesAttempt
<1>2. CASE worker'[w] # worker[w]
  <2>1. worker'[w].loaded = jobs[worker'[w].job] /\ jobs' = jobs
    BY <1>2, HandlingStep
  <2>2. PICK j \in Jobs : j = worker'[w].job
    <3>1. TypeOK'
      BY TypeStep
    <3> QED
      BY <3>1 DEF TypeOK
  <2>3. Engaged(w, j)'
    BY <2>2 DEF Engaged
  <2>4. jobs[j].attempt \in Nat /\ jobs[j].attempt > 0
    <3>1. Engaged(w, j) => jobs[j].attempt > 0
      BY DEF EngagedCounts
    <3> QED
      BY <2>1, <2>3, <3>1, EngagedStep DEF TypeOK, Row
  <2> QED
    BY <2>1, <2>2, <2>4
<1> QED
  BY <1>1, <1>2

\* Only _persist_model_result makes a run SUCCEEDED, and writes the output of its
\* attempt with it; whatever else is written leaves the output of a SUCCEEDED run.
LEMMA OutputStep ==
  ASSUME AgentTypeOK, HandlesAttempt, NEW r \in Direct, [AgentNext]_agentVars,
         run'[r].status = "SUCCEEDED"
  PROVE  \/ run[r].status = "SUCCEEDED" /\ run'[r].output = run[r].output
         \/ run'[r].output \in 1..jobs[r].attempt
<1>1. CASE run' = run
  BY <1>1
<1>2. ASSUME NEW x \in Direct, CreateCommit(x)
      PROVE  run'[r] = run[r]
  BY <1>2 DEF CreateCommit, AgentTypeOK, RunRow
<1>3. ASSUME NEW w \in Workers, Persist(w)
      PROVE  run'[r] = run[r] \/ run'[r].output \in 1..jobs[r].attempt
  <2>1. PICK x \in Direct : x = worker[w].job /\ Engaged(w, x)
    BY <1>3, HandlingJob DEF Persist, AgentAt
  <2>2. /\ worker[w].pc = "handling"
        /\ run' = IF agent[w].result = "NONE" THEN run
                  ELSE [run EXCEPT ![x] =
                          _persist_model_result(run[x], agent[w], worker[w].loaded.attempt)]
    BY <1>3, <2>1 DEF Persist, AgentAt
  <2>3. CASE x # r \/ agent[w].result = "NONE"
    BY <2>2, <2>3 DEF AgentTypeOK
  <2>4. CASE x = r /\ agent[w].result # "NONE"
    <3>1. run'[r] = _persist_model_result(run[r], agent[w], worker[w].loaded.attempt)
      BY <2>2, <2>4 DEF AgentTypeOK
    <3>2. run'[r].output = worker[w].loaded.attempt
      BY <3>1 DEF _persist_model_result
    <3> QED
      BY <2>1, <2>2, <2>4, <3>2 DEF HandlesAttempt
  <2> QED
    BY <2>3, <2>4
<1>4. ASSUME NEW w \in Workers, RecordAttempt(w)
      PROVE  run[r].status = "SUCCEEDED" /\ run'[r].output = run[r].output
  <2>1. PICK x \in Direct : x = worker[w].job /\ Engaged(w, x)
    BY <1>4, HandlingJob DEF RecordAttempt, AgentAt
  <2>2. record_attempt_failure(x, w) # "SUCCEEDED"
    BY DEF record_attempt_failure
  <2>3. CASE run' # run
    <3>1. PICK s : /\ s = Column(run[x].status, agent[w].seen.status, record_attempt_failure(x, w))
                   /\ run' = [run EXCEPT ![x].status = s]
      BY <1>4, <2>1, <2>3 DEF RecordAttempt
    <3>2. s = "SUCCEEDED" => run[x].status = "SUCCEEDED"
      BY <2>2, <3>1 DEF Column
    <3> QED
      BY <3>1, <3>2 DEF AgentTypeOK, RunRow
  <2> QED
    BY <2>3
<1> QED
  BY <1>1, <1>2, <1>3, <1>4
     DEF AgentNext, HandlerStep, CreateBegin, CreateRollback, LoadRun, MarkRunning, Answer, Raise,
         DbFails, LoadRunForFailure, Crash, agentVars

\* A workflow that reads a SUCCEEDED run finds the output of an attempt that was
\* made, even after leases have expired and workers have written over each
\* other's results (_persist_model_result, record_attempt_failure).
THEOREM SucceededRunHasOutput == AgentSpec => []SuccessHasOutput
<1>1. AgentInit => HandlesAttempt /\ SuccessHasOutput
  BY RowTypes, RunTypes DEF AgentInit, Init, HandlesAttempt, SuccessHasOutput, NoRun
<1>2. ASSUME AgentTypeOK, LeaseInv, EngagedCounts, HandlesAttempt, SuccessHasOutput,
             [AgentNext]_agentVars
      PROVE  HandlesAttempt' /\ SuccessHasOutput'
  <2>1. TypeOK /\ [Next]_vars
    BY <1>2, AgentStep DEF AgentTypeOK
  <2>2. HandlesAttempt'
    BY <1>2, <2>1, HandlesAttemptStep
  <2>3. ASSUME NEW r \in Direct, run'[r].status = "SUCCEEDED"
        PROVE  run'[r].output \in 1..jobs'[r].attempt
    <3>1. run'[r].output \in 1..jobs[r].attempt
      BY <1>2, <2>3, OutputStep DEF SuccessHasOutput
    <3>2. /\ jobs[r].attempt \in Nat /\ jobs'[r].attempt \in Nat
          /\ jobs[r].attempt <= jobs'[r].attempt
      BY <1>2, <2>1, JobsAreRuns, AttemptNeverFalls
    <3> QED
      BY <3>1, <3>2
  <2> QED
    BY <2>2, <2>3 DEF SuccessHasOutput
<1> QED
  BY <1>1, <1>2, AgentTypeCorrect, AgentsUseRuntime, LeaseInvariant, EngagedCountsInvariant, PTL
     DEF AgentSpec

-----------------------------------------------------------------------------
(* How often the model is called.                                          *)

\* The workers that may still call it for run r: each has claimed the job, and
\* has not called yet.
Callers(r) ==
  {w \in Workers : /\ worker[w].job = r
                   /\ \/ worker[w].pc = "claimed"
                      \/ worker[w].pc = "handling" /\ agent[w].stage # "ending"}

\* The calls made and the calls still possible are paid for by attempts.
CallsCounted ==
  \A r \in Direct : /\ IsFiniteSet(Callers(r))
                    /\ calls[r] + Cardinality(Callers(r)) <= jobs[r].attempt

\* What a step does to the calls for a run: nothing, or it makes one ...
CallersFall(r) ==
  \/ Callers(r)' \subseteq Callers(r) /\ calls'[r] = calls[r]
  \/ \E w \in Callers(r) : Callers(r)' \subseteq Callers(r) \ {w} /\ calls'[r] = calls[r] + 1

\* ... or it counts an attempt that may lead to one.
CallerComes(r) ==
  /\ \E w \in Workers \ Callers(r) : Callers(r)' = Callers(r) \cup {w}
  /\ calls'[r] = calls[r] /\ jobs'[r].attempt = jobs[r].attempt + 1

LEMMA CallsArithmetic ==
  ASSUME AgentTypeOK, NEW r \in Direct, IsFiniteSet(Callers(r)),
         calls[r] + Cardinality(Callers(r)) <= jobs[r].attempt,
         jobs[r].attempt \in Nat, jobs'[r].attempt \in Nat, jobs[r].attempt <= jobs'[r].attempt,
         CallersFall(r) \/ CallerComes(r)
  PROVE  /\ IsFiniteSet(Callers(r)')
         /\ calls'[r] + Cardinality(Callers(r)') <= jobs'[r].attempt
<1> DEFINE C == Callers(r)
           D == Callers(r)'
<1>1. calls[r] \in Nat /\ Cardinality(C) \in Nat
  BY FS_CardinalityType DEF AgentTypeOK
<1>2. CASE D \subseteq C /\ calls'[r] = calls[r]
  <2>1. IsFiniteSet(D) /\ Cardinality(D) <= Cardinality(C) /\ Cardinality(D) \in Nat
    BY <1>2, FS_Subset, FS_CardinalityType
  <2> HIDE DEF C, D
  <2> QED
    BY <1>1, <1>2, <2>1 DEF C, D
<1>3. ASSUME NEW w \in C, D \subseteq C \ {w}, calls'[r] = calls[r] + 1
      PROVE  IsFiniteSet(D) /\ calls'[r] + Cardinality(D) <= jobs'[r].attempt
  <2> HIDE DEF C, D
  <2>1. IsFiniteSet(C \ {w}) /\ Cardinality(C \ {w}) = Cardinality(C) - 1
    BY <1>3, FS_RemoveElement DEF C
  <2>2. /\ IsFiniteSet(D) /\ Cardinality(D) <= Cardinality(C \ {w})
        /\ Cardinality(D) \in Nat
    BY <1>3, <2>1, FS_Subset, FS_CardinalityType
  <2>3. calls[r] + Cardinality(C) <= jobs[r].attempt
    BY DEF C
  <2> QED
    BY <1>1, <1>3, <2>1, <2>2, <2>3
<1>4. CASE CallerComes(r)
  <2> HIDE DEF C, D
  <2>1. PICK w \in Workers \ C : D = C \cup {w}
    BY <1>4 DEF CallerComes, C, D
  <2>2. IsFiniteSet(D) /\ Cardinality(D) = Cardinality(C) + 1
    BY <2>1, FS_AddElement DEF C
  <2>3. calls[r] + Cardinality(C) <= jobs[r].attempt
    BY DEF C
  <2> QED
    BY <1>1, <1>4, <2>2, <2>3 DEF CallerComes, D
<1> QED
  BY <1>2, <1>3, <1>4 DEF CallersFall

\* A worker that claims a job becomes one that may call the model for it.
LEMMA ClaimCallers ==
  ASSUME AgentTypeOK, NEW w \in Workers, Claim(w), UNCHANGED <<run, agent, calls>>, NEW r \in Direct
  PROVE  CallersFall(r) \/ CallerComes(r)
<1>1. PICK x \in Jobs : x = worker[w].job /\ worker[w].pc = "popped"
  BY DEF Claim, AgentTypeOK, TypeOK
<1>2. \A v \in Workers \ {w} : worker'[v] = worker[v] /\ agent'[v] = agent[v]
  BY DEF Claim, AgentTypeOK, TypeOK
<1>3. w \notin Callers(r)
  BY <1>1 DEF Callers
<1>4. CASE ~Claimable(jobs[x]) \/ x # r
  <2>1. worker'[w].pc = "idle" \/ (x # r /\ worker'[w].job = x)
    BY <1>1, <1>4, RowTypes DEF Claim, At, AgentTypeOK, TypeOK
  <2>2. Callers(r)' \subseteq Callers(r)
    BY <1>2, <2>1 DEF Callers
  <2> QED
    BY <2>2 DEF CallersFall
<1>5. CASE Claimable(jobs[x]) /\ x = r
  <2>1. /\ worker'[w] = At("claimed", r, NoRow, FALSE) /\ jobs'[r] = ClaimedRow(w, jobs[r])
    BY <1>1, <1>5 DEF Claim, AgentTypeOK, TypeOK
  <2>2. worker'[w].pc = "claimed" /\ worker'[w].job = r /\ jobs'[r].attempt = jobs[r].attempt + 1
    BY <2>1 DEF At, ClaimedRow
  <2>3. Callers(r)' = Callers(r) \cup {w}
    BY <1>2, <1>3, <2>2 DEF Callers
  <2> QED
    BY <1>3, <2>2, <2>3 DEF CallerComes
<1> QED
  BY <1>4, <1>5

\* A step of worker w that does not claim: it stays one that may call the model
\* for a run only if it was.
LEMMA OthersCallers ==
  ASSUME NEW w \in Workers, NEW r \in Direct,
         \A v \in Workers \ {w} : worker'[v] = worker[v] /\ agent'[v] = agent[v],
         w \in Callers(r)' => w \in Callers(r),
         \/ calls'[r] = calls[r]
         \/ w \in Callers(r) /\ w \notin Callers(r)' /\ calls'[r] = calls[r] + 1
  PROVE  CallersFall(r)
<1>1. Callers(r)' \subseteq Callers(r)
  BY DEF Callers
<1>2. CASE calls'[r] = calls[r]
  BY <1>1, <1>2 DEF CallersFall
<1>3. CASE w \in Callers(r) /\ w \notin Callers(r)' /\ calls'[r] = calls[r] + 1
  BY <1>1, <1>3 DEF CallersFall
<1> QED
  BY <1>2, <1>3

\* The steps of the handler: the one call of an attempt ends the right to call.
LEMMA HandlerCallers ==
  ASSUME AgentTypeOK, NEW w \in Workers, HandlerStep(w) \/ Crash(w), NEW r \in Direct
  PROVE  CallersFall(r)
<1>1. \A v \in Workers \ {w} : worker'[v] = worker[v] /\ agent'[v] = agent[v]
  BY DEF HandlerStep, LoadRun, MarkRunning, Answer, Raise, Persist, DbFails, LoadRunForFailure,
         RecordAttempt, Crash, HandlerRaises, HandlerSucceeds, RecordFailure, CrashWorker,
         AgentTypeOK, TypeOK, vars
<1>2. CASE LoadRun(w) \/ MarkRunning(w) \/ LoadRunForFailure(w)
  <2>1. worker' = worker /\ calls' = calls
    BY <1>2 DEF LoadRun, MarkRunning, LoadRunForFailure, vars
  <2>2. w \in Callers(r)' => w \in Callers(r)
    BY <1>2, <2>1 DEF Callers, LoadRun, MarkRunning, LoadRunForFailure, AgentAt
  <2> QED
    BY <1>1, <2>1, <2>2, OthersCallers
<1>3. ASSUME NEW result \in Results, Answer(w, result)
      PROVE  CallersFall(r)
  <2>1. /\ worker' = worker /\ worker[w].pc = "handling" /\ agent[w].stage = "calling"
        /\ agent'[w].stage = "ending" /\ calls' = [calls EXCEPT ![worker[w].job] = @ + 1]
    BY <1>3 DEF Answer, AgentAt, Stage, vars, AgentTypeOK
  <2>2. w \notin Callers(r)' /\ (worker[w].job = r => w \in Callers(r))
    BY <2>1 DEF Callers
  <2>3. calls'[r] = IF worker[w].job = r THEN calls[r] + 1 ELSE calls[r]
    BY <2>1 DEF AgentTypeOK
  <2> QED
    BY <1>1, <2>2, <2>3, OthersCallers
<1>4. ASSUME NEW retry \in BOOLEAN, Raise(w, retry)
      PROVE  CallersFall(r)
  <2>1. worker[w].pc = "handling" /\ worker'[w].pc = "failed"
    BY <1>4 DEF Raise, HandlerRaises, At, AgentTypeOK, TypeOK
  <2>2. w \notin Callers(r)'
    BY <2>1 DEF Callers
  <2>3. \/ calls' = calls
        \/ agent[w].stage = "calling" /\ calls' = [calls EXCEPT ![worker[w].job] = @ + 1]
    BY <1>4 DEF Raise
  <2>4. \/ calls'[r] = calls[r]
        \/ w \in Callers(r) /\ calls'[r] = calls[r] + 1
    BY <2>1, <2>3 DEF Callers, AgentTypeOK
  <2> QED
    BY <1>1, <2>2, <2>4, OthersCallers
<1>5. CASE Persist(w) \/ RecordAttempt(w) \/ DbFails(w) \/ Crash(w)
  <2>1. worker'[w].pc \in {"idle", "failed"} /\ calls' = calls
    BY <1>5, RowTypes
       DEF Persist, RecordAttempt, DbFails, Crash, HandlerSucceeds, RecordFailure, HandlerRaises,
           CrashWorker, At, AgentTypeOK, TypeOK
  <2>2. w \notin Callers(r)'
    BY <2>1 DEF Callers
  <2> QED
    BY <1>1, <2>1, <2>2, OthersCallers
<1> QED
  BY <1>2, <1>3, <1>4, <1>5 DEF HandlerStep

\* The other steps of a worker.
LEMMA RuntimeCallers ==
  ASSUME AgentTypeOK, RunInv, NEW w \in Workers, NEW r \in Direct, UNCHANGED <<run, agent, calls>>,
         BeginHandling(w) \/ LoadForFailure(w) \/ \E j \in Jobs : Dequeue(w, j)
  PROVE  CallersFall(r)
<1>1. \A v \in Workers \ {w} : worker'[v] = worker[v] /\ agent'[v] = agent[v]
  BY DEF BeginHandling, LoadForFailure, Dequeue, AgentTypeOK, TypeOK
<1>2. w \in Callers(r)' => w \in Callers(r)
  <2>1. CASE BeginHandling(w)
    BY <2>1, RowTypes DEF BeginHandling, Callers, At, AgentTypeOK, TypeOK
  <2>2. CASE LoadForFailure(w) \/ \E j \in Jobs : Dequeue(w, j)
    BY <2>2 DEF LoadForFailure, Dequeue, Callers, At, AgentTypeOK, TypeOK
  <2> QED
    BY <2>1, <2>2
<1> QED
  BY <1>1, <1>2, OthersCallers

LEMMA CallersStep ==
  ASSUME AgentTypeOK, RunInv, [AgentNext]_agentVars, NEW r \in Direct
  PROVE  CallersFall(r) \/ CallerComes(r)
<1>1. CASE UNCHANGED <<worker, agent, calls>>
  BY <1>1 DEF CallersFall, Callers
<1>2. ASSUME NEW x \in Direct, CreateBegin(x) \/ CreateCommit(x) \/ CreateRollback(x)
      PROVE  UNCHANGED <<worker, agent, calls>>
  BY <1>2 DEF CreateBegin, CreateCommit, CreateRollback, SubmitNew, SubmitCommit, SubmitRollback
<1>3. ASSUME Scheduler \/ CrashScheduler \/ \E j \in Jobs : Clock(j) \/ LoseMessage(j)
      PROVE  worker' = worker
  BY <1>3 DEF Scheduler, SchedRecover, SchedOutbox, SchedDue, SchedCommit, CrashScheduler, Clock,
              OrphanLeaseExpires, LeaseExpiresUnderWorker, BackoffElapses, LoseMessage
<1>4. ASSUME NEW w \in Workers, RuntimeStep(w) \/ (\E j \in Jobs : Dequeue(w, j)),
             UNCHANGED <<run, agent, calls>>
      PROVE  CallersFall(r) \/ CallerComes(r)
  BY <1>4, ClaimCallers, RuntimeCallers DEF RuntimeStep
<1>5. CASE UNCHANGED agentVars
  BY <1>1, <1>5 DEF agentVars, vars
<1> QED
  BY <1>1, <1>2, <1>3, <1>4, <1>5, HandlerCallers DEF AgentNext, Background

\* The model is called at most once per attempt that was counted, whatever leases
\* expire; and not for a run that is over, while the job's lease has never
\* expired (AgentRunJobHandler.handle behind claim_job).
THEOREM ModelCalledOncePerAttempt == AgentSpec => []OneCallPerAttempt
<1>1. AgentInit => CallsCounted
  <2> SUFFICES ASSUME AgentInit, NEW r \in Direct
               PROVE  /\ IsFiniteSet(Callers(r))
                      /\ calls[r] + Cardinality(Callers(r)) <= jobs[r].attempt
    BY DEF CallsCounted
  <2>1. Callers(r) = {}
    BY RowTypes DEF AgentInit, Init, Callers
  <2>2. calls[r] = 0 /\ jobs[r].attempt = 0
    BY JobsAreRuns DEF AgentInit, Init, NoRow
  <2> QED
    BY <2>1, <2>2, FS_EmptySet
<1>2. ASSUME AgentTypeOK, LeaseInv, RunInv, CallsCounted, [AgentNext]_agentVars
      PROVE  CallsCounted'
  <2> SUFFICES ASSUME NEW r \in Direct
               PROVE  /\ IsFiniteSet(Callers(r)')
                      /\ calls'[r] + Cardinality(Callers(r)') <= jobs'[r].attempt
    BY DEF CallsCounted
  <2>1. /\ jobs[r].attempt \in Nat /\ jobs'[r].attempt \in Nat
        /\ jobs[r].attempt <= jobs'[r].attempt
    BY <1>2, AgentStep, JobsAreRuns, AttemptNeverFalls DEF AgentTypeOK
  <2>2. CallersFall(r) \/ CallerComes(r)
    BY <1>2, CallersStep
  <2>3. IsFiniteSet(Callers(r)) /\ calls[r] + Cardinality(Callers(r)) <= jobs[r].attempt
    BY <1>2 DEF CallsCounted
  <2> QED
    BY <1>2, <2>1, <2>2, <2>3, CallsArithmetic
<1>3. ASSUME AgentTypeOK, LeaseInv, RunInv, CallsCounted
      PROVE  OneCallPerAttempt
  <2>1. ASSUME NEW r \in Direct
        PROVE  /\ calls[r] \in Nat /\ jobs[r].attempt \in Nat /\ Cardinality(Callers(r)) \in Nat
               /\ calls[r] + Cardinality(Callers(r)) <= jobs[r].attempt
    <3>1. calls[r] \in Nat /\ jobs[r].attempt \in Nat
      BY <1>3, JobsAreRuns DEF AgentTypeOK, TypeOK, Row
    <3>2. /\ IsFiniteSet(Callers(r))
          /\ calls[r] + Cardinality(Callers(r)) <= jobs[r].attempt
      BY <1>3 DEF CallsCounted
    <3> QED
      BY <3>1, <3>2, FS_CardinalityType
  <2>2. \A r \in Direct : calls[r] <= jobs[r].attempt
    BY <2>1
  <2>3. ASSUME NEW r \in Direct, r \notin lapsed, NEW w \in Workers,
               worker[w].job = r, AgentAt(w, "handling", "calling")
        PROVE  ~agent_run_is_terminal(run[r].status) /\ calls[r] < jobs[r].attempt
    <3>1. Engaged(w, r) /\ w \in Callers(r)
      BY <2>3 DEF Engaged, Callers, AgentAt
    <3>2. jobs[r].status = "RUNNING"
      BY <1>3, <2>3, <3>1, EngagedRow
    <3>3. ~agent_run_is_terminal(run[r].status)
      BY <1>3, <2>3, <3>2 DEF RunInv, Agrees, Follows, agent_run_is_terminal, Results
    <3>4. Cardinality(Callers(r)) # 0
      BY <1>3, <3>1, FS_EmptySet DEF CallsCounted
    <3> QED
      BY <2>1, <3>3, <3>4
  <2> QED
    BY <2>2, <2>3 DEF OneCallPerAttempt
<1>4. AgentTypeOK /\ LeaseInv /\ RunInv /\ [AgentNext]_agentVars => RunInv'
  BY RunInvStep
<1> QED
  BY <1>1, <1>2, <1>3, <1>4, RunInvInit, AgentTypeCorrect, AgentsUseRuntime, LeaseInvariant, PTL
     DEF AgentSpec
=============================================================================
