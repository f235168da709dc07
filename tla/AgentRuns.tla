----------------------------- MODULE AgentRuns -----------------------------
(***************************************************************************)
(* Agent runs (ai_runtime/service.py, job_handler.py) on top of the job    *)
(* runtime: AgentRunService.create_agent_run, and AgentRunJobHandler as    *)
(* the handler, and the recorder of failures, of JobRuntime's workers.     *)
(*                                                                         *)
(* A run has one job (key agent_run:{run}), so the two share their name:   *)
(* Direct is the set of runs.  A run's contract, definition and context    *)
(* are what the call is made from: that they do not fit is one of the ways *)
(* in which the handler raises.                                            *)
(***************************************************************************)
EXTENDS JobRuntime

ASSUME RunsAssumption == Events = {}   \* no other jobs in this module

VARIABLES
  run,     \* the agent_runs rows: [status, output]; the output is named
           \* after the attempt that made it, 0 is none
  agent,   \* where the handler, or the recorder, of each worker is
  calls    \* history: how often the model was called for each run

agentVars == <<vars, run, agent, calls>>

\* RUNNING is flushed but never committed: nobody else ever sees it.
RunStatus == {"NONE", "QUEUED", "RETRY_WAIT", "SUCCEEDED", "REFUSED", "INVALID_OUTPUT", "FAILED"}
Results == {"SUCCEEDED", "REFUSED", "INVALID_OUTPUT"}

RunRow == [status : RunStatus, output : Nat]
NoRun == [status |-> "NONE", output |-> 0]

agent_run_is_terminal(status) == status \in Results \cup {"FAILED"}

\* entered: nothing read yet; loaded: the run is read; calling: RUNNING is
\* flushed, context and model call; ending: "result" is to be written and
\* committed, or nothing at all ("NONE").
AgentState ==
  [stage : {"entered", "loaded", "calling", "ending"}, seen : RunRow, result : {"NONE"} \cup Results]

Stage(stage, seen, result) == [stage |-> stage, seen |-> seen, result |-> result]

Entered == Stage("entered", NoRun, "NONE")

AgentInit ==
  /\ Init
  /\ run = [r \in Direct |-> NoRun]
  /\ agent = [w \in Workers |-> Entered]
  /\ calls = [r \in Direct |-> 0]

-----------------------------------------------------------------------------
(* create_agent_run: a second call with the same key returns the first run *)
(* and does nothing else.                                                  *)

\* Run and job are inserted and the job's id is pushed ...
CreateBegin(r) == SubmitNew(r) /\ UNCHANGED <<run, agent, calls>>

\* ... before the caller commits or rolls back.
CreateCommit(r) ==
  /\ SubmitCommit(r)
  /\ run' = [run EXCEPT ![r].status = "QUEUED"]
  /\ UNCHANGED <<agent, calls>>

CreateRollback(r) == SubmitRollback(r) /\ UNCHANGED <<run, agent, calls>>

-----------------------------------------------------------------------------
(* AgentRunJobHandler.handle, run by worker w.                             *)

AgentAt(w, pc, stage) == worker[w].pc = pc /\ agent[w].stage = stage

\* Its update of the run's row is flushed: others wait to write it.
HoldsRun(w) ==
  /\ worker[w].pc = "handling"
  /\ \/ agent[w].stage = "calling"
     \/ agent[w].stage = "ending" /\ agent[w].result # "NONE"

RunFree(w) == \A v \in Workers \ {w} : HoldsRun(v) => worker[v].job # worker[w].job

LoadRun(w) ==
  LET seen == run[worker[w].job]
  IN /\ AgentAt(w, "handling", "entered")
     /\ agent' = [agent EXCEPT ![w] =
          Stage(IF agent_run_is_terminal(seen.status) THEN "ending" ELSE "loaded", seen, "NONE")]
     /\ UNCHANGED <<vars, run, calls>>

\* The contract fits.  The row may have to be waited for, and nothing is read
\* again after that.
MarkRunning(w) ==
  /\ AgentAt(w, "handling", "loaded")
  /\ RunFree(w)
  /\ agent' = [agent EXCEPT ![w].stage = "calling"]
  /\ UNCHANGED <<vars, run, calls>>

\* The adapter returns an output, a refusal, or something unusable.
Answer(w, result) ==
  /\ AgentAt(w, "handling", "calling")
  /\ agent' = [agent EXCEPT ![w] = Stage("ending", agent[w].seen, result)]
  /\ calls' = [calls EXCEPT ![worker[w].job] = @ + 1]
  /\ UNCHANGED <<vars, run>>

\* It raises, or the request cannot be built: only a failure of the provider
\* can be transient.
Raise(w, retry) ==
  /\ agent[w].stage = "loaded" => ~retry
  /\ agent[w].stage \in {"loaded", "calling"}
  /\ HandlerRaises(w, retry)
  /\ agent' = [agent EXCEPT ![w] = Entered]
  /\ \/ agent[w].stage = "calling" /\ calls' = [calls EXCEPT ![worker[w].job] = @ + 1]
     \/ ~retry /\ UNCHANGED calls
  /\ UNCHANGED run

\* Mutants: the output is forgotten; the model's result kind is the status.
OutputForgotten(row, a, attempt) ==
  [status |-> a.result, output |-> Column(row.output, a.seen.output, 0)]

KindAsStatus(row, a, attempt) ==
  [status |-> IF a.result = "SUCCEEDED" THEN "PARSED" ELSE a.result, output |-> attempt]

\* _persist_model_result.  The status was RUNNING in between, so it is always
\* written; the output is cleared only if one was seen.
_persist_model_result(row, a, attempt) ==
  [status |-> a.result,
   output |-> IF a.result = "SUCCEEDED" THEN attempt ELSE Column(row.output, a.seen.output, 0)]

\* The handler returns, the worker commits the run and the job together.
Persist(w) ==
  LET r == worker[w].job
      a == agent[w]
  IN /\ AgentAt(w, "handling", "ending")
     /\ HandlerSucceeds(w)
     /\ run' = IF a.result = "NONE" THEN run
               ELSE [run EXCEPT ![r] = _persist_model_result(@, a, worker[w].loaded.attempt)]
     /\ agent' = [agent EXCEPT ![w] = Entered]
     /\ UNCHANGED calls

\* A statement of the handler's transaction fails.
DbFails(w) ==
  /\ HandlerRaises(w, FALSE)
  /\ agent' = [agent EXCEPT ![w] = Entered]
  /\ UNCHANGED <<run, calls>>

-----------------------------------------------------------------------------
(* record_attempt_failure, in the transaction that fails the job.          *)

LoadRunForFailure(w) ==
  /\ AgentAt(w, "recording", "entered")
  /\ agent' = [agent EXCEPT ![w] = Stage("loaded", run[worker[w].job], "NONE")]
  /\ UNCHANGED <<vars, run, calls>>

\* Mutant: the run is failed although its job is tried again.
AlwaysFailed(j, w) == "FAILED"

\* will_retry is what mark_job_failed_or_retrying decides of the same row.
record_attempt_failure(j, w) ==
  IF mark_job_failed_or_retrying(j, worker[w].loaded, worker[w].retry).status = "RETRY_WAIT"
  THEN "RETRY_WAIT" ELSE "FAILED"

RecordAttempt(w) ==
  LET r == worker[w].job
      seen == agent[w].seen.status
  IN /\ AgentAt(w, "recording", "loaded")
     /\ RecordFailure(w)
     /\ IF agent_run_is_terminal(seen) THEN UNCHANGED run
        ELSE /\ RunFree(w)
             /\ run' = [run EXCEPT ![r].status = Column(@, seen, record_attempt_failure(r, w))]
     /\ agent' = [agent EXCEPT ![w] = Entered]
     /\ UNCHANGED calls

-----------------------------------------------------------------------------
(* The rest of the runtime.                                                *)

Crash(w) ==
  /\ CrashWorker(w)
  /\ agent' = [agent EXCEPT ![w] = Entered]
  /\ UNCHANGED <<run, calls>>

HandlerStep(w) ==
  \/ LoadRun(w) \/ MarkRunning(w)
  \/ (\E result \in Results : Answer(w, result))
  \/ (\E retry \in BOOLEAN : Raise(w, retry))
  \/ Persist(w) \/ DbFails(w)
  \/ LoadRunForFailure(w) \/ RecordAttempt(w)

RuntimeStep(w) == Claim(w) \/ BeginHandling(w) \/ LoadForFailure(w)

Background ==
  \/ Scheduler
  \/ \E j \in Jobs : Clock(j) \/ LoseMessage(j) \/ \E w \in Workers : Dequeue(w, j)
  \/ CrashScheduler

AgentNext ==
  \/ \E r \in Direct : CreateBegin(r) \/ CreateCommit(r) \/ CreateRollback(r)
  \/ \E w \in Workers : HandlerStep(w) \/ Crash(w)
  \/ (Background \/ \E w \in Workers : RuntimeStep(w)) /\ UNCHANGED <<run, agent, calls>>

AgentSpec == AgentInit /\ [][AgentNext]_agentVars

-----------------------------------------------------------------------------
(* Correctness.                                                            *)

AgentTypeOK ==
  /\ TypeOK
  /\ run \in [Direct -> RunRow]
  /\ agent \in [Workers -> AgentState]
  /\ calls \in [Direct -> Nat]

\* What the run's status must be next to that of its job.
Follows(status, job) ==
  /\ job \in {"ABSENT", "UNCOMMITTED"} => status = "NONE"
  /\ job = "QUEUED" => status = "QUEUED"
  /\ job = "RUNNING" => status \in {"QUEUED", "RETRY_WAIT"}
  /\ job = "RETRY_WAIT" => status = "RETRY_WAIT"
  /\ job = "SUCCEEDED" => status \in Results
  /\ job = "FAILED" => status = "FAILED"

\* While the job's lease has never expired, the run's row and its job's agree
\* after every commit, whatever is raised, retried, lost or crashes: a run is
\* over exactly when its job is, it FAILED exactly when the job did, and it has
\* an output, of the last attempt, exactly when it SUCCEEDED (ADR 0006, state
\* semantics).  So a run that waits for ever had its lease expire.
RunFollowsJob ==
  \A r \in Direct \ lapsed :
    /\ Follows(run[r].status, jobs[r].status)
    /\ run[r].output = IF run[r].status = "SUCCEEDED" THEN jobs[r].attempt ELSE 0

\* The model is called at most once per attempt, and, while the job's lease has
\* never expired, not for a run that is over (ADR 0006: a duplicate delivery
\* after a committed terminal result does not re-invoke the adapter).
OneCallPerAttempt ==
  \A r \in Direct :
    /\ calls[r] <= jobs[r].attempt
    /\ r \notin lapsed => \A w \in Workers :
         worker[w].job = r /\ AgentAt(w, "handling", "calling") =>
           /\ ~agent_run_is_terminal(run[r].status)
           /\ calls[r] < jobs[r].attempt

\* A workflow that reads a SUCCEEDED run finds an output, even when workers
\* that took the job from each other have written over each other's results.
SuccessHasOutput ==
  \A r \in Direct : run[r].status = "SUCCEEDED" => run[r].output \in 1..jobs[r].attempt
=============================================================================
