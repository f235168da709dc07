------------------------- MODULE TelegramExecution -------------------------
(***************************************************************************)
(* Governed Telegram publication (execution/service.py, governance.py,     *)
(* telegram.py) on top of the job runtime: proposals, the owner's approval, *)
(* the global controls, the connector account, and TelegramExecutionHandler *)
(* as the handler that the workers of JobRuntime run.                      *)
(*                                                                         *)
(* An action has one execution and one job (keys execution:{action} and    *)
(* telegram-execution:{execution}), so the three share their name: Direct  *)
(* is the set of actions.  An approved action's binding to the production  *)
(* workflow, its permission, its reviews, its approval and its payload     *)
(* never change once they are stored, so the checks of them that approval  *)
(* and preflight repeat are left out; what does change is modelled.        *)
(***************************************************************************)
EXTENDS JobRuntime

CONSTANTS
  Decision,   \* the decision each action carries out
  Account,    \* the connector account each action goes through
  Chat,       \* the chat each action was proposed for
  Targets,    \* the chats each account may be registered with
  Switches,   \* automation_paused, execution_paused, revoke_all_...
  DbMayFail   \* whether a statement of the handler's transaction may fail

ASSUME ActionsAssumption ==
  /\ \A x \in Direct : /\ x \in DOMAIN Decision
                        /\ x \in DOMAIN Account /\ x \in DOMAIN Chat
                        /\ Chat[x] \in Targets[Account[x]]
  /\ DbMayFail \in BOOLEAN
  /\ \A x \in Direct : MaxAttempts[x] = 1   \* approve_action_proposal
  /\ Events = {}                            \* no other jobs in this module

Decisions == {Decision[x] : x \in Direct}
Accounts == {Account[x] : x \in Direct}
Chats == UNION {Targets[c] : c \in Accounts}

VARIABLES
  action,      \* status of each action; "NONE" before it is proposed
  execution,   \* status of each execution; "NONE" before it is approved
  reference,   \* its external message id, 0 if there is none.  Publication,
               \* link, audit and outbox rows are inserted with it
  experiment,  \* status of each decision's experiment, "NONE" if it has none
  account,     \* each connector account: [ready, chat]
  controls,    \* the global controls that are set
  handler,     \* where the handler of each worker is
  posted,      \* Telegram: messages in each chat (their ids are 1, 2, ...)
  sent         \* Telegram: messages that each action has put there

world == <<action, execution, reference, experiment, account, controls, posted, sent>>
execVars == <<vars, world, handler>>

ActionStatus == {"NONE", "APPROVAL_REQUIRED", "APPROVED", "EXECUTED", "BLOCKED"}
ExecutionStatus == {"NONE", "PENDING", "RUNNING", "SUCCEEDED", "FAILED", "BLOCKED",
                    "UNKNOWN_EXTERNAL_OUTCOME"}

\* entered: nothing read yet; loaded: action and execution are read; cleared:
\* preflight passed; sending: RUNNING is flushed, in the provider call;
\* ending: "outcome" is to be written and committed.  Nobody else ever sees
\* RUNNING: it is not committed before the outcome.
HandlerState ==
  [stage : {"entered", "loaded", "cleared", "sending", "ending"},
   seenAction : ActionStatus, seenExecution : ExecutionStatus,
   outcome : {"RETURN", "BLOCK", "REUSE", "PUBLISHED", "REJECTED", "AMBIGUOUS"},
   id : Nat]

Stage(stage, a, e, outcome, id) ==
  [stage |-> stage, seenAction |-> a, seenExecution |-> e, outcome |-> outcome, id |-> id]

Entered == Stage("entered", "NONE", "NONE", "RETURN", 0)

-----------------------------------------------------------------------------
ExecInit ==
  /\ Init
  /\ action = [x \in Direct |-> "NONE"]
  /\ execution = [x \in Direct |-> "NONE"]
  /\ reference = [x \in Direct |-> 0]
  /\ experiment \in [Decisions -> {"NONE", "DRAFT"}]
  /\ account \in [Accounts -> [ready : {TRUE}, chat : Chats]]
  /\ \A c \in Accounts : account[c].chat \in Targets[c]
  /\ controls = {}
  /\ handler = [w \in Workers |-> Entered]
  /\ posted = [c \in Chats |-> 0]
  /\ sent = [x \in Direct |-> 0]

-----------------------------------------------------------------------------
(* The owner and the services.                                             *)

\* May find the account not ready, and may give it another target chat.
probe_and_register_telegram_connector(c, ready, chat) ==
  /\ account' = [account EXCEPT ![c] = [ready |-> ready, chat |-> chat]]
  /\ UNCHANGED <<vars, handler, action, execution, reference, experiment, controls, posted, sent>>

set_global_execution_controls(S) ==
  /\ controls' = S
  /\ UNCHANGED <<vars, handler, action, execution, reference, experiment, account, posted, sent>>

\* The execution controllers: what the security, privacy and platform reviews
\* say of the content ("clean"), the connector and the experiment.
evaluate_execution_controllers(x, clean) ==
  clean /\ account[Account[x]].ready /\ experiment[Decision[x]] \in {"NONE", "DRAFT"}

\* create_action_proposal, for the account's chat; a second call with the same
\* key returns the first action.
create_action_proposal(x, clean) ==
  /\ action[x] = "NONE"
  /\ account[Account[x]].chat = Chat[x]
  /\ action' = [action EXCEPT ![x] =
       IF controls = {} /\ evaluate_execution_controllers(x, clean)
       THEN "APPROVAL_REQUIRED" ELSE "BLOCKED"]
  /\ UNCHANGED <<vars, handler, execution, reference, experiment, account, controls, posted, sent>>

\* approve_action_proposal, the first time: approval, execution and job are
\* inserted and the job's id is pushed ...
ApproveBegin(x) ==
  /\ action[x] = "APPROVAL_REQUIRED"
  /\ SubmitNew(x)
  /\ UNCHANGED <<world, handler>>

\* ... before the caller commits or rolls back.
ApproveCommit(x) ==
  /\ SubmitCommit(x)
  /\ action' = [action EXCEPT ![x] = "APPROVED"]
  /\ execution' = [execution EXCEPT ![x] = "PENDING"]
  /\ UNCHANGED <<handler, reference, experiment, account, controls, posted, sent>>

ApproveRollback(x) ==
  /\ SubmitRollback(x)
  /\ UNCHANGED <<world, handler>>

\* Approved again: every row exists, the id is pushed once more.
ApproveAgain(x) ==
  /\ action[x] = "APPROVED"
  /\ SubmitExisting(x)
  /\ UNCHANGED <<world, handler>>

-----------------------------------------------------------------------------
(* TelegramExecutionHandler.handle, run by worker w for action x.          *)

HandlerAt(w, stage) == worker[w].pc = "handling" /\ handler[w].stage = stage

\* Its update of the execution row is flushed: others wait to write it.
HoldsRow(w) ==
  /\ worker[w].pc = "handling"
  /\ \/ handler[w].stage = "sending"
     \/ handler[w].stage = "ending" /\ handler[w].outcome \in {"PUBLISHED", "REJECTED", "AMBIGUOUS"}

RowFree(w) == \A v \in Workers \ {w} : HoldsRow(v) => worker[v].job # worker[w].job

LoadExecution(w) ==
  LET x == worker[w].job IN
  /\ HandlerAt(w, "entered")
  /\ handler' = [handler EXCEPT ![w] =
       IF execution[x] \in {"SUCCEEDED", "UNKNOWN_EXTERNAL_OUTCOME"}
       THEN Stage("ending", action[x], execution[x], "RETURN", 0)
       ELSE Stage("loaded", action[x], execution[x], "RETURN", 0)]
  /\ UNCHANGED <<vars, world>>

_preflight_block_reason(x) ==
  \/ controls # {}
  \/ ~account[Account[x]].ready
  \/ account[Account[x]].chat # Chat[x]
  \/ experiment[Decision[x]] \notin {"NONE", "DRAFT"}

Preflight(w) ==
  LET x == worker[w].job
      h == handler[w] IN
  /\ HandlerAt(w, "loaded")
  /\ handler' = [handler EXCEPT ![w] =
       IF _preflight_block_reason(x)
       THEN Stage("ending", h.seenAction, h.seenExecution, "BLOCK", 0)
       ELSE IF reference[x] # 0
       THEN Stage("ending", h.seenAction, h.seenExecution, "REUSE", 0)
       ELSE Stage("cleared", h.seenAction, h.seenExecution, "RETURN", 0)]
  /\ UNCHANGED <<vars, world>>

\* execution.status = RUNNING is flushed; the row may have to be waited for,
\* and nothing is read again after that.
MarkRunning(w) ==
  /\ HandlerAt(w, "cleared")
  /\ RowFree(w)
  /\ handler' = [handler EXCEPT ![w] =
       Stage("sending", handler[w].seenAction, "RUNNING", "RETURN", 0)]
  /\ UNCHANGED <<vars, world>>

\* Telegram's side of sendMessage.
Deliver(x) ==
  /\ posted' = [posted EXCEPT ![Chat[x]] = @ + 1]
  /\ sent' = [sent EXCEPT ![x] = @ + 1]

Answer(w, outcome, id) ==
  handler' = [handler EXCEPT ![w] =
    Stage("ending", handler[w].seenAction, "RUNNING", outcome, id)]

MayDeliver(x, delivered) == IF delivered THEN Deliver(x) ELSE UNCHANGED <<posted, sent>>

\* publish_text returns the message id,
ProviderAccepts(w) ==
  LET x == worker[w].job IN
  /\ HandlerAt(w, "sending")
  /\ Deliver(x)
  /\ Answer(w, "PUBLISHED", posted[Chat[x]] + 1)
  /\ UNCHANGED <<vars, action, execution, reference, experiment, account, controls>>

\* or raises TelegramConnectorRejected.  Every HTTP error is one, that of a
\* gateway too (502, 504), behind which the message may have been sent;
ProviderRejects(w, delivered) ==
  /\ HandlerAt(w, "sending")
  /\ Answer(w, "REJECTED", 0)
  /\ MayDeliver(worker[w].job, delivered)
  /\ UNCHANGED <<vars, action, execution, reference, experiment, account, controls>>

\* or TelegramAmbiguousOutcome, of an answer that is lost or unreadable.
ProviderAmbiguous(w, delivered) ==
  /\ HandlerAt(w, "sending")
  /\ Answer(w, "AMBIGUOUS", 0)
  /\ MayDeliver(worker[w].job, delivered)
  /\ UNCHANGED <<vars, action, execution, reference, experiment, account, controls>>

\* Mutants: an ambiguous outcome is a failure; a rejection is a success.
AmbiguousAsFailed(h) ==
  CASE h.outcome = "RETURN"                 -> h.seenExecution
    [] h.outcome = "BLOCK"                  -> "BLOCKED"
    [] h.outcome \in {"REUSE", "PUBLISHED"} -> "SUCCEEDED"
    [] OTHER                                -> "FAILED"

RejectedAsSucceeded(h) ==
  CASE h.outcome = "RETURN"    -> h.seenExecution
    [] h.outcome = "BLOCK"     -> "BLOCKED"
    [] h.outcome = "AMBIGUOUS" -> "UNKNOWN_EXTERNAL_OUTCOME"
    [] OTHER                   -> "SUCCEEDED"

ExecutionAfter(h) ==
  CASE h.outcome = "RETURN"                 -> h.seenExecution
    [] h.outcome = "BLOCK"                  -> "BLOCKED"
    [] h.outcome \in {"REUSE", "PUBLISHED"} -> "SUCCEEDED"
    [] h.outcome = "REJECTED"               -> "FAILED"
    [] h.outcome = "AMBIGUOUS"              -> "UNKNOWN_EXTERNAL_OUTCOME"

\* Mutant: the execution's status is written to the action too.
ActionAsExecution(h) == ExecutionAfter(h)

ActionAfter(h) ==
  CASE h.outcome \in {"RETURN", "AMBIGUOUS"} -> h.seenAction
    [] h.outcome \in {"BLOCK", "REJECTED"}   -> "BLOCKED"
    [] h.outcome \in {"REUSE", "PUBLISHED"}  -> "EXECUTED"

\* external_references is unique by execution, and by account and message id.
ReferenceConflict(x, id) ==
  reference[x] # 0 \/ \E y \in Direct : Account[y] = Account[x] /\ reference[y] = id

\* The handler writes its outcome and returns, the worker commits.
FinishCommits(w) ==
  LET x == worker[w].job
      h == handler[w] IN
  /\ HandlerAt(w, "ending")
  /\ RowFree(w)
  /\ h.outcome = "PUBLISHED" => ~ReferenceConflict(x, h.id)
  /\ HandlerSucceeds(w)
  /\ execution' = [execution EXCEPT ![x] = Column(@, h.seenExecution, ExecutionAfter(h))]
  /\ action' = [action EXCEPT ![x] = Column(@, h.seenAction, ActionAfter(h))]
  /\ reference' = IF h.outcome = "PUBLISHED" THEN [reference EXCEPT ![x] = h.id] ELSE reference
  /\ experiment' = IF h.outcome = "PUBLISHED" /\ experiment[Decision[x]] # "NONE"
                   THEN [experiment EXCEPT ![Decision[x]] = "RUNNING"] ELSE experiment
  /\ handler' = [handler EXCEPT ![w] = Entered]
  /\ UNCHANGED <<account, controls, posted, sent>>

\* The insert violates a unique constraint: everything is rolled back.
FinishConflicts(w) ==
  /\ HandlerAt(w, "ending")
  /\ handler[w].outcome = "PUBLISHED"
  /\ ReferenceConflict(worker[w].job, handler[w].id)
  /\ HandlerRaises(w, FALSE)
  /\ handler' = [handler EXCEPT ![w] = Entered]
  /\ UNCHANGED world

\* So it is if the database fails at any point of the handler.
DbFails(w) ==
  /\ DbMayFail
  /\ HandlerRaises(w, FALSE)
  /\ handler' = [handler EXCEPT ![w] = Entered]
  /\ UNCHANGED world

-----------------------------------------------------------------------------
(* The rest of the runtime.                                                *)

Crash(w) ==
  /\ CrashWorker(w)
  /\ handler' = [handler EXCEPT ![w] = Entered]
  /\ UNCHANGED world

RuntimeStep(w) == Claim(w) \/ BeginHandling(w) \/ LoadForFailure(w) \/ RecordFailure(w)

Background ==
  \/ Scheduler
  \/ \E j \in Jobs : Clock(j) \/ LoseMessage(j) \/ \E w \in Workers : Dequeue(w, j)
  \/ CrashScheduler

HandlerStep(w) ==
  \/ LoadExecution(w) \/ Preflight(w) \/ MarkRunning(w)
  \/ ProviderAccepts(w)
  \/ (\E delivered \in BOOLEAN :
        ProviderRejects(w, delivered) \/ ProviderAmbiguous(w, delivered))
  \/ FinishCommits(w) \/ FinishConflicts(w) \/ DbFails(w)

Owner ==
  \/ \E c \in Accounts, ready \in BOOLEAN :
       \E chat \in Targets[c] : probe_and_register_telegram_connector(c, ready, chat)
  \/ \E S \in SUBSET Switches : set_global_execution_controls(S)
  \/ \E x \in Direct :
       \/ \E clean \in BOOLEAN : create_action_proposal(x, clean)
       \/ ApproveBegin(x) \/ ApproveCommit(x) \/ ApproveRollback(x) \/ ApproveAgain(x)

ExecNext ==
  \/ Owner
  \/ \E w \in Workers : HandlerStep(w) \/ Crash(w)
  \/ (Background \/ \E w \in Workers : RuntimeStep(w)) /\ UNCHANGED <<world, handler>>

ExecSpec == ExecInit /\ [][ExecNext]_execVars

-----------------------------------------------------------------------------
(* Correctness.                                                            *)

ExecTypeOK ==
  /\ TypeOK
  /\ action \in [Direct -> ActionStatus]
  /\ execution \in [Direct -> ExecutionStatus]
  /\ reference \in [Direct -> Nat]
  /\ experiment \in [Decisions -> {"NONE", "DRAFT", "RUNNING"}]
  /\ account \in [Accounts -> [ready : BOOLEAN, chat : Chats]]
  /\ controls \subseteq Switches
  /\ handler \in [Workers -> HandlerState]
  /\ posted \in [Chats -> Nat]
  /\ sent \in [Direct -> Nat]

\* While a job's lease has never expired its action is published at most once,
\* whatever Redis, the owner and the other workers do: max_attempts = 1.
LeasedSendsOnce == \A x \in Direct \ lapsed : sent[x] <= 1

\* Why LeasedSendsOnce holds: nothing was sent before the first attempt, the
\* worker engaged with the job is in that attempt, and nothing was sent either
\* until its provider call has ended.
SendInv ==
  \A x \in Direct \ lapsed :
    /\ sent[x] <= 1
    /\ jobs[x].attempt = 0 => sent[x] = 0
    /\ \A w \in Workers : Engaged(w, x) =>
         /\ jobs[x].attempt > 0
         /\ (\/ worker[w].pc = "claimed"
             \/ worker[w].pc = "handling" /\ handler[w].stage # "ending") => sent[x] = 0

\* A job that succeeded, with its lease in time, has settled its execution and
\* its action together: SUCCEEDED with the one message that was sent, BLOCKED
\* without any; an answer that failed leaves no reference, FAILED stops the
\* action and UNKNOWN_EXTERNAL_OUTCOME leaves it open for the owner.
Settled(x) ==
  \/ execution[x] = "SUCCEEDED" /\ action[x] = "EXECUTED" /\ sent[x] = 1 /\ reference[x] # 0
  \/ execution[x] = "BLOCKED" /\ action[x] = "BLOCKED" /\ sent[x] = 0 /\ reference[x] = 0
  \/ execution[x] = "FAILED" /\ action[x] = "BLOCKED" /\ reference[x] = 0
  \/ execution[x] = "UNKNOWN_EXTERNAL_OUTCOME" /\ action[x] = "APPROVED" /\ reference[x] = 0

OutcomeRecorded == \A x \in Direct \ lapsed : jobs[x].status = "SUCCEEDED" => Settled(x)

\* Whatever was overwritten, retried or lost: no reference without a message,
\* no SUCCEEDED execution without a reference, no message id recorded twice.
ReferencesReal ==
  \A x \in Direct :
    /\ reference[x] # 0 => sent[x] > 0
    /\ execution[x] = "SUCCEEDED" => reference[x] # 0
    /\ \A y \in Direct : reference[x] = reference[y] /\ reference[x] # 0
                         /\ Account[x] = Account[y] => x = y

\* Nobody is in the provider call for an execution that is complete.
CompletedNotResent ==
  \A w \in Workers : HandlerAt(w, "sending") => reference[worker[w].job] = 0

\* An execution is FAILED only if its message is not out: an answer that
\* leaves it open is UNKNOWN_EXTERNAL_OUTCOME.
FailedIsUnsent == \A x \in Direct \ lapsed : execution[x] = "FAILED" => sent[x] = 0
=============================================================================
