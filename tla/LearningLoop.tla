---------------------------- MODULE LearningLoop ----------------------------
(***************************************************************************)
(* Observation, metrics and learning (analytics/phase6.py, contracts.py,   *)
(* connectors/telegram_observation.py): observation cycles poll Telegram   *)
(* and store what they get, metric jobs count the reactions to one         *)
(* publication, the owner has a metric version interpreted, and a learning *)
(* is drawn from the result.                                               *)
(*                                                                         *)
(* The job runtime is taken at its promise (JobLifecycle): a queued job is *)
(* handled by one worker at a time and ends once.  A handler is one        *)
(* transaction; its steps are where it reads, and others commit between    *)
(* them.  What is stored under a unique key either was seen by the         *)
(* handler's lookup or makes its insert fail, which fails the job.         *)
(*                                                                         *)
(* Time is counted in ticks.  The checkpoint and the lineage of the        *)
(* publication never change, so the checks of them are left out.           *)
(***************************************************************************)
EXTENDS Naturals, FiniteSets, Sequences

CONSTANTS
  Workers,
  Accounts,      \* the connector accounts, all polled with the one bot token
  Own,           \* the account that publishes
  Window, Grace, \* the checkpoint: window_seconds, grace_seconds
  Checkpoints,   \* and the [weak, success] thresholds it may have
  RetentionGap,  \* TELEGRAM_RETENTION_GAP
  Retention,     \* how long Telegram keeps an update
  Delay,         \* how late an update may reach Telegram's queue
  BatchLimit,    \* how many updates one answer of Telegram holds at most: 100
  Span,          \* how long a transaction may stay open
  TypeLists,     \* the lists of update types that the owner configures
  Kinds,         \* the kinds of update that happen
  MaxTime, MaxCycles,  \* bounds: the clock, and the cycles of each account
  MaxDisturbances,     \* bound: how often, together, a further update comes, the
                       \* update types change, another account has a cycle, a poll
                       \* is lost or a worker crashes
  SetupBy,       \* bound: the latest time the post is sent
  InterpretFrom  \* bound: the earliest time the owner has a version interpreted

TELEGRAM_ALLOWED_UPDATES == {"channel_post", "message_reaction", "message_reaction_count"}

\* A reaction to the publication, a reaction update that cannot be ingested (no
\* date, no body), or another update, which is stored like a reaction and never
\* counted.
UpdateKinds == {"reaction", "malformed", "other"}

ASSUME LearningAssumption ==
  /\ Own \in Accounts
  /\ BatchLimit \in Nat \ {0} /\ Kinds \subseteq UpdateKinds
  /\ {Window, Grace, RetentionGap, Retention, Delay, Span} \subseteq Nat
  /\ {MaxTime, MaxDisturbances, SetupBy, InterpretFrom} \subseteq Nat
  /\ \A c \in Checkpoints : {c.weak, c.success} \subseteq Nat /\ 0 < c.weak /\ c.weak < c.success
  /\ RetentionGap + Span <= Retention                          \* 23 of 24 hours
  /\ TypeLists \subseteq SUBSET TELEGRAM_ALLOWED_UPDATES
  /\ MaxCycles \in [Accounts -> Nat]

VARIABLES
  now,
  updates,      \* everything that happened in Telegram; update_id is the index
  queue,        \* Telegram: the updates it would still deliver
  dropped,      \* history: the ones it dropped because of their age,
  unwatched,    \* those of them dropped before Own's first successful cycle,
  skipped,      \* the ones that a poll left out because of their type,
  behind,       \* and the ones that did not fit into a poll's answer
  publication,  \* sent: in Telegram, its rows not committed yet
  checkpoint,   \* the thresholds of its checkpoint, fixed before it is sent
  experiment,   \* status of the publication's experiment
  row,          \* the connector_observation_states row of each account
  observations, \* connector observations with their normalized event
  metrics,      \* the publication's metric versions
  results,      \* experiment results with their detail
  learnings,
  jobs,         \* by idempotency key
  tx,           \* the transaction each worker has open
  disturbances

telegramVars == <<updates, queue, dropped, unwatched, skipped, behind>>
learnVars == <<now, telegramVars, publication, checkpoint, experiment, row, observations, metrics,
               results, learnings, jobs, tx, disturbances>>

Availability == {"AVAILABLE", "PARTIAL", "UNAVAILABLE", "STALE"}
ResultClass == {"SUCCESS", "WEAK_SIGNAL", "FAILURE", "INSUFFICIENT_DATA"}

\* max_attempts of each kind of job.
Attempts == [observe |-> 3, metric |-> 2, interpret |-> 2, learn |-> 2]

\* The idempotency keys: telegram-observe:{account}:{cycle}, metric:...:
\* observation-job:{job}, checkpoint-interpret:{version}, governed-learning:
\* {result}.
Key(kind, a, n) == [kind |-> kind, account |-> a, n |-> n]

\* create_job: a second call with the same key returns the first job.
create_job(js, k) ==
  [i \in DOMAIN js \cup {k} |->
     IF i \in DOMAIN js THEN js[i] ELSE [status |-> "QUEUED", left |-> Attempts[k.kind]]]

\* How an attempt ends: "SUCCEEDED", "FAILED", or "QUEUED" for another one.
Ended(js, k, status) == [js EXCEPT ![k].status = status]

\* The attempt is lost (the worker died) or failed transiently.
Retried(js, k) ==
  IF js[k].left = 0 THEN Ended(js, k, "FAILED") ELSE Ended(js, k, "QUEUED")

Claimed(js, k) == [js EXCEPT ![k] = [status |-> "RUNNING", left |-> js[k].left - 1]]

NoRow == [status |-> "NONE", started |-> 0, last |-> 0, ingested |-> 0, gap |-> FALSE,
          types |-> {}]
Idle == [step |-> "idle"]

LearnInit ==
  /\ now = 0
  /\ updates = <<>> /\ queue = {} /\ dropped = {} /\ unwatched = {} /\ skipped = {} /\ behind = {}
  /\ publication = [stage |-> "unsent", at |-> 0]
  /\ checkpoint \in Checkpoints
  /\ experiment = "DRAFT"
  /\ row = [a \in Accounts |-> NoRow]
  /\ observations = {} /\ metrics = <<>> /\ results = <<>> /\ learnings = <<>>
  /\ jobs = <<>>
  /\ tx = [w \in Workers |-> Idle]
  /\ disturbances = 0

Disturb == disturbances < MaxDisturbances /\ disturbances' = disturbances + 1

-----------------------------------------------------------------------------
(* Telegram and the clock.                                                 *)

\* No transaction stays open for longer than Span.  Telegram drops an update
\* that it has kept for Retention.
Tick ==
  LET aged == {u \in queue : now + 1 > updates[u].arrived + Retention}
  IN /\ now < MaxTime
     /\ \A w \in Workers : \/ tx[w].step = "idle"
                           \/ tx[w].step = "polled" /\ now < tx[w].since + Span
     /\ publication.stage # "sent"
     /\ now' = now + 1
     /\ queue' = queue \ aged
     /\ dropped' = dropped \cup aged
     /\ unwatched' = IF row[Own].status = "FRESH" THEN unwatched ELSE unwatched \cup aged
     /\ UNCHANGED <<updates, skipped, behind, publication, experiment, row, observations,
                    metrics, results, learnings, jobs, tx, disturbances>>

\* Something happened at time t.
Arrive(kind, t) ==
  /\ IF updates = <<>> /\ t = now THEN UNCHANGED disturbances ELSE Disturb
  /\ t <= now /\ now <= t + Delay
  /\ kind = "reaction" => publication.stage # "unsent"
  /\ updates' = Append(updates, [kind |-> kind, time |-> t, arrived |-> now])
  /\ queue' = queue \cup {Len(updates) + 1}
  /\ UNCHANGED <<now, dropped, unwatched, skipped, behind, publication, experiment, row,
                 observations, metrics, results, learnings, jobs, tx>>

-----------------------------------------------------------------------------
(* The execution engine publishes (TelegramExecution); the owner.          *)

\* The provider has answered: published_at is taken, ...
Send ==
  /\ publication.stage = "unsent" /\ now <= SetupBy
  /\ publication' = [stage |-> "sent", at |-> now]
  /\ UNCHANGED <<now, telegramVars, experiment, row, observations, metrics, results,
                 learnings, jobs, tx, disturbances>>

\* ... and publication, external reference and experiment are committed.
Record ==
  /\ publication.stage = "sent"
  /\ publication' = [publication EXCEPT !.stage = "recorded"]
  /\ experiment' = "RUNNING"
  /\ UNCHANGED <<now, telegramVars, row, observations, metrics, results, learnings, jobs, tx,
                 disturbances>>

\* Coverage starts with the row; a second call only replaces the types.
configure_telegram_observation(a, types) ==
  /\ IF row[a].status = "NONE" /\ a = Own /\ now <= SetupBy THEN UNCHANGED disturbances
     ELSE Disturb
  /\ row' = [row EXCEPT ![a] =
       IF row[a].status = "NONE"
       THEN [status |-> "UNKNOWN", started |-> now, last |-> 0, ingested |-> 0,
             gap |-> FALSE, types |-> types]
       ELSE [row[a] EXCEPT !.types = types]]
  /\ UNCHANGED <<now, telegramVars, publication, experiment, observations, metrics, results,
                 learnings, jobs, tx>>

enqueue_telegram_observation_job(a, cycle) ==
  /\ jobs' = create_job(jobs, Key("observe", a, cycle))
  /\ UNCHANGED <<now, telegramVars, publication, experiment, row, observations, metrics,
                 results, learnings, tx, disturbances>>

enqueue_checkpoint_interpretation_job(version) ==
  /\ jobs' = create_job(jobs, Key("interpret", Own, version))
  /\ UNCHANGED <<now, telegramVars, publication, experiment, row, observations, metrics,
                 results, learnings, tx, disturbances>>

-----------------------------------------------------------------------------
(* TelegramObservationHandler.                                             *)

\* An idle worker and a queued job of this kind.
Queued(w, k, kind) ==
  k.kind = kind /\ tx[w] = Idle /\ jobs[k].status = "QUEUED"

\* The updates a poll does not confirm: all but those below the offset, which
\* is last_update_id + 1 once there is one.
Unconfirmed(r) == {u \in queue : u > r.last}

Wanted(r) == IF "message_reaction" \in r.types THEN Unconfirmed(r) ELSE {}

\* get_updates, called once and without a limit: the earliest n, where Telegram
\* chooses how many, up to BatchLimit, it answers with.
Answer(r, n) == {u \in Wanted(r) : Cardinality({v \in Wanted(r) : v <= u}) <= n}

Stored(a) == {o.update : o \in {x \in observations : x.account = a}}

Poll(r, n) ==
  /\ queue' = Unconfirmed(r)
  /\ skipped' = skipped \cup (Unconfirmed(r) \ Wanted(r))
  /\ behind' = behind \cup (Wanted(r) \ Answer(r, n))
  /\ UNCHANGED <<updates, dropped, unwatched>>

\* The row is read and Telegram polled.
ObserveBegin(w, k, n) ==
  LET r == row[k.account]
  IN /\ Queued(w, k, "observe")
     /\ r.status # "NONE"
     /\ \A u \in Answer(r, n) : updates[u].kind # "malformed"
     /\ Poll(r, n)
     /\ tx' = [tx EXCEPT ![w] =
          [step |-> "polled", job |-> k, since |-> now, batch |-> Answer(r, n), last |-> r.last,
           gap |-> r.status = "FRESH" /\ now > r.ingested + RetentionGap,
           fresh |-> Answer(r, n) \ Stored(k.account), recorded |-> publication.stage = "recorded"]]
     /\ jobs' = Claimed(jobs, k)
     /\ UNCHANGED <<now, publication, experiment, row, observations, metrics, results,
                    learnings, disturbances>>

\* TelegramObservationUnavailable: the request, or only its answer, is lost.
ObserveUnavailable(w, k, n) ==
  /\ Queued(w, k, "observe") /\ Disturb
  /\ row[k.account].status # "NONE"
  /\ \/ UNCHANGED telegramVars
     \/ Poll(row[k.account], n)
  /\ jobs' = Retried(Claimed(jobs, k), k)
  /\ UNCHANGED <<now, publication, experiment, row, observations, metrics, results, learnings,
                 tx>>

\* No row, or an update that cannot be ingested: the whole batch is rolled
\* back and the job fails for good.
ObserveRaises(w, k, n) ==
  LET r == row[k.account]
  IN /\ Queued(w, k, "observe")
     /\ \/ r.status = "NONE" /\ UNCHANGED telegramVars
        \/ \E u \in Answer(r, n) : updates[u].kind = "malformed" /\ Poll(r, n)
     /\ jobs' = Ended(Claimed(jobs, k), k, "FAILED")
     /\ UNCHANGED <<now, publication, experiment, row, observations, metrics, results,
                    learnings, tx, disturbances>>

\* Mutant: what is stored is not looked up.
NormalizedAgain(t, recorded) ==
  {[account |-> t.job.account, update |-> u, linked |-> recorded /\ t.job.account = Own,
    by |-> t.job.n] : u \in t.batch}

\* _normalize_observation: an event is linked to the publication whose external
\* reference the same account has, if that is visible yet.
Normalized(t, recorded) ==
  {[account |-> t.job.account, update |-> u, linked |-> recorded /\ t.job.account = Own,
    by |-> t.job.n] : u \in t.batch \ Stored(t.job.account)}

MaxOf(S, default) ==
  IF S = {} THEN default ELSE CHOOSE u \in S : \A v \in S : v <= u

\* Mutant: the cursor is the next update that is expected.
WrittenNext(r, t) ==
  LET cursor == MaxOf(t.batch, t.last)
  IN [status |-> "FRESH", started |-> r.started, ingested |-> now, types |-> r.types,
      last |-> cursor + 1, gap |-> r.gap \/ t.gap]

\* A column that is given the value it was read with is not written.
Written(r, t) ==
  LET cursor == MaxOf(t.batch, t.last)
  IN [status |-> "FRESH", started |-> r.started, ingested |-> now, types |-> r.types,
      last |-> IF cursor = t.last THEN r.last ELSE cursor, gap |-> r.gap \/ t.gap]

\* Each update is ingested unless it is stored, the row is written, and a
\* metric job is created for the account's publication.
ObserveCommit(w, recorded) ==
  LET t == tx[w]
      a == t.job.account
      measured == a = Own /\ (recorded \/ \E o \in observations :
                                            o.account = a /\ o.linked /\ o.update \in t.batch)
  IN /\ t.step = "polled"
     /\ recorded \in {t.recorded, publication.stage = "recorded"}
     /\ observations' = observations \cup Normalized(t, recorded)
     /\ row' = [row EXCEPT ![a] = Written(row[a], t)]
     /\ jobs' = LET done == Ended(jobs, t.job, "SUCCEEDED")
                IN IF measured THEN create_job(done, Key("metric", a, t.job.n)) ELSE done
     /\ tx' = [tx EXCEPT ![w] = Idle]
     /\ UNCHANGED <<now, telegramVars, publication, experiment, metrics, results, learnings,
                    disturbances>>

\* Another cycle stored one of the updates after this one's lookup.
ObserveConflicts(w) ==
  /\ tx[w].step = "polled"
  /\ tx[w].fresh \cap Stored(tx[w].job.account) # {}
  /\ jobs' = Ended(jobs, tx[w].job, "FAILED")
  /\ tx' = [tx EXCEPT ![w] = Idle]
  /\ UNCHANGED <<now, telegramVars, publication, experiment, row, observations, metrics,
                 results, learnings, disturbances>>

-----------------------------------------------------------------------------
(* CalculateMetricVersionHandler.                                          *)

WindowEnd == publication.at + Window

\* Mutant: a gap only shows as long as the last cycle is stale.
CoverageAfterGap(r) ==
  IF r.status # "FRESH" \/ r.started > publication.at THEN "UNAVAILABLE"
  ELSE IF now > r.ingested + RetentionGap THEN "STALE"
  ELSE IF r.ingested < WindowEnd + Grace THEN "PARTIAL"
  ELSE "AVAILABLE"

metric_coverage(r) ==
  IF r.status # "FRESH" \/ r.started > publication.at THEN "UNAVAILABLE"
  ELSE IF r.gap THEN "PARTIAL"
  ELSE IF now > r.ingested + RetentionGap THEN "STALE"
  ELSE IF r.ingested < WindowEnd + Grace THEN "PARTIAL"
  ELSE "AVAILABLE"

\* The row is read first, ...
MetricBegin(w, k) ==
  /\ Queued(w, k, "metric")
  /\ tx' = [tx EXCEPT ![w] =
       [step |-> "covered", job |-> k,
        availability |-> metric_coverage(row[Own]), ingested |-> row[Own].ingested]]
  /\ jobs' = Claimed(jobs, k)
  /\ UNCHANGED <<now, telegramVars, publication, experiment, row, observations, metrics,
                 results, learnings, disturbances>>

InWindow(u) ==
  /\ updates[u].kind = "reaction"
  /\ publication.at <= updates[u].time /\ updates[u].time <= WindowEnd

\* ... then the events and the latest version.  "left" is history: the updates that
\* a full answer left in Telegram's queue and that are not stored yet.
MetricCalculate(w) ==
  /\ tx[w].step = "covered"
  /\ tx' = [tx EXCEPT ![w] =
       [step |-> "calculated", job |-> tx[w].job, latest |-> Len(metrics),
        version |-> [availability |-> tx[w].availability, ingested |-> tx[w].ingested,
                     events |-> {o \in observations : o.linked /\ InWindow(o.update)},
                     left |-> behind \ Stored(Own)]]]
  /\ UNCHANGED <<now, telegramVars, publication, experiment, row, observations, metrics,
                 results, learnings, jobs, disturbances>>

\* Mutant: the events are not part of the derivation.
SameCoverage(m, n) == m.availability = n.availability /\ m.ingested = n.ingested

\* derivation_hash.
SameDerivation(m, n) == SameCoverage(m, n) /\ m.events = n.events

\* The same derivation as the latest version's makes no new version; the number
\* of a new one is unique.
MetricCommit(w) ==
  LET t == tx[w]
      same == t.latest > 0 /\ SameDerivation(metrics[t.latest], t.version)
  IN /\ t.step = "calculated"
     /\ \/ /\ same
           /\ jobs' = Ended(jobs, t.job, "SUCCEEDED")
           /\ UNCHANGED metrics
        \/ /\ ~same /\ Len(metrics) = t.latest
           /\ jobs' = Ended(jobs, t.job, "SUCCEEDED")
           /\ metrics' = Append(metrics, t.version)
        \/ /\ ~same /\ Len(metrics) > t.latest
           /\ jobs' = Ended(jobs, t.job, "FAILED")
           /\ UNCHANGED metrics
     /\ tx' = [tx EXCEPT ![w] = Idle]
     /\ UNCHANGED <<now, telegramVars, publication, experiment, row, observations, results,
                    learnings, disturbances>>

-----------------------------------------------------------------------------
(* InterpretCheckpointHandler and GovernedLearningHandler.                 *)

Count(m) == Cardinality(m.events)

\* Mutant: a partial count is as good as a complete one.
InterpretationOfAny(m) ==
  IF m.availability = "UNAVAILABLE" THEN "INSUFFICIENT_DATA"
  ELSE IF Count(m) >= checkpoint.success THEN "SUCCESS"
  ELSE IF Count(m) >= checkpoint.weak THEN "WEAK_SIGNAL"
  ELSE IF Count(m) = 0 THEN "FAILURE"
  ELSE "NONE"

\* "NONE": the typed conditions are not exhaustive.
Interpretation(m) ==
  IF m.availability # "AVAILABLE" THEN "INSUFFICIENT_DATA"
  ELSE IF Count(m) >= checkpoint.success THEN "SUCCESS"
  ELSE IF Count(m) >= checkpoint.weak THEN "WEAK_SIGNAL"
  ELSE IF Count(m) = 0 THEN "FAILURE"
  ELSE "NONE"

\* Mutant: a COMPLETE experiment is interpreted again.
InterpretableAgain(version) == Interpretation(metrics[version]) # "NONE"

\* Mutant: a count in no band is given no class.
InterpretableUnclassed(version) == experiment = "RUNNING"

\* Mutant: the weak threshold itself is in no band.
InterpretableAbove(version) ==
  /\ experiment = "RUNNING" /\ Interpretation(metrics[version]) # "NONE"
  /\ Interpretation(metrics[version]) = "WEAK_SIGNAL" => Count(metrics[version]) > checkpoint.weak

\* Otherwise interpret_checkpoint raises a PermanentJobError.
Interpretable(version) == experiment = "RUNNING" /\ Interpretation(metrics[version]) # "NONE"

\* A version has one job, so the lookup of an earlier result finds none.
InterpretBegin(w, k) ==
  /\ Queued(w, k, "interpret")
  /\ Interpretable(k.n)
  /\ tx' = [tx EXCEPT ![w] = [step |-> "interpreted", job |-> k, seen |-> Len(results)]]
  /\ jobs' = Claimed(jobs, k)
  /\ UNCHANGED <<now, telegramVars, publication, experiment, row, observations, metrics,
                 results, learnings, disturbances>>

InterpretRaises(w, k) ==
  /\ Queued(w, k, "interpret")
  /\ ~Interpretable(k.n)
  /\ jobs' = Ended(Claimed(jobs, k), k, "FAILED")
  /\ UNCHANGED <<now, telegramVars, publication, experiment, row, observations, metrics,
                 results, learnings, tx, disturbances>>

\* Mutant: the key of the learning job names the experiment, not the result.
LearnKeyOfExperiment(r) == Key("learn", Own, 1)

LearnKey(r) == Key("learn", Own, r)

\* "seen" is history: how many results there were when the transaction read
\* the experiment.
InterpretCommit(w) ==
  LET t == tx[w]
  IN /\ t.step = "interpreted"
     /\ results' = Append(results, [metric |-> t.job.n, seen |-> t.seen,
                                    class |-> Interpretation(metrics[t.job.n])])
     /\ experiment' = "COMPLETE"
     /\ jobs' = create_job(Ended(jobs, t.job, "SUCCEEDED"), LearnKey(Len(results) + 1))
     /\ tx' = [tx EXCEPT ![w] = Idle]
     /\ UNCHANGED <<now, telegramVars, publication, row, observations, metrics, learnings,
                    disturbances>>

LearnBegin(w, k) ==
  /\ Queued(w, k, "learn")
  /\ tx' = [tx EXCEPT ![w] = [step |-> "reviewed", job |-> k]]
  /\ jobs' = Claimed(jobs, k)
  /\ UNCHANGED <<now, telegramVars, publication, experiment, row, observations, metrics,
                 results, learnings, disturbances>>

\* The three reviews never block.  A result has one job, so the lookup of an
\* earlier learning finds none.
LearnCommit(w) ==
  LET r == tx[w].job.n
      causality == IF results[r].class = "INSUFFICIENT_DATA" THEN "UNKNOWN"
                   ELSE "DIRECT_DETERMINISTIC_ATTRIBUTION"
  IN /\ tx[w].step = "reviewed"
     /\ learnings' = Append(learnings, [result |-> r, causality |-> causality])
     /\ jobs' = Ended(jobs, tx[w].job, "SUCCEEDED")
     /\ tx' = [tx EXCEPT ![w] = Idle]
     /\ UNCHANGED <<now, telegramVars, publication, experiment, row, observations, metrics,
                    results, disturbances>>

\* The worker dies, or its lease is lost: its transaction is rolled back.
Crash(w) ==
  /\ tx[w].step # "idle" /\ Disturb
  /\ jobs' = Retried(jobs, tx[w].job)
  /\ tx' = [tx EXCEPT ![w] = Idle]
  /\ UNCHANGED <<now, telegramVars, publication, experiment, row, observations, metrics,
                 results, learnings>>

Step(w) ==
  \/ /\ tx[w].step = "idle"
     /\ \E k \in {x \in DOMAIN jobs : jobs[x].status = "QUEUED"} :
          \/ \E n \in 1..BatchLimit :
               ObserveBegin(w, k, n) \/ ObserveUnavailable(w, k, n) \/ ObserveRaises(w, k, n)
          \/ MetricBegin(w, k)
          \/ InterpretBegin(w, k) \/ InterpretRaises(w, k)
          \/ LearnBegin(w, k)
  \/ \E recorded \in BOOLEAN : ObserveCommit(w, recorded)
  \/ ObserveConflicts(w)
  \/ MetricCalculate(w) \/ MetricCommit(w)
  \/ InterpretCommit(w)
  \/ LearnCommit(w)

\* Bound: the owner has versions interpreted when the cycles are over.  An
\* interpretation reads nothing that cycles and metric jobs still write, so it
\* could as well have come earlier.
Settled ==
  /\ now >= InterpretFrom
  /\ \A k \in DOMAIN jobs : k.kind \in {"observe", "metric"} =>
                              jobs[k].status \in {"SUCCEEDED", "FAILED"}

Owner ==
  \/ \E a \in Accounts :
       \/ /\ row[a].status = "NONE" /\ (a = Own \/ now <= SetupBy)
          /\ configure_telegram_observation(a, TELEGRAM_ALLOWED_UPDATES)
       \/ /\ row[a].status # "NONE"
          /\ \E types \in TypeLists : configure_telegram_observation(a, types)
       \/ \E cycle \in 1..MaxCycles[a] :
            /\ row[a].status = "NONE" => a = Own
            /\ Key("observe", a, cycle) \notin DOMAIN jobs
            /\ \A k \in DOMAIN jobs : k.kind # "interpret"
            /\ \A c \in 1..cycle - 1 : /\ Key("observe", a, c) \in DOMAIN jobs
                                       /\ jobs[Key("observe", a, c)].status # "QUEUED"
            /\ enqueue_telegram_observation_job(a, cycle)
  \/ Settled /\ \E version \in DOMAIN metrics : enqueue_checkpoint_interpretation_job(version)

LearnNext ==
  /\ \/ Tick
     \/ \E kind \in Kinds, t \in 0..now : Arrive(kind, t)
     \/ Send \/ Record
     \/ Owner
     \/ \E w \in Workers : Step(w) \/ Crash(w)
  /\ UNCHANGED checkpoint

LearnSpec == LearnInit /\ [][LearnNext]_learnVars

-----------------------------------------------------------------------------
(* Properties.                                                             *)

JobKeys == [kind : DOMAIN Attempts, account : Accounts, n : Nat \ {0}]
ObservationRows ==
  [account : Accounts, update : Nat \ {0}, linked : BOOLEAN, by : Nat]
Versions == [availability : Availability, ingested : Nat, events : SUBSET ObservationRows,
             left : SUBSET (Nat \ {0})]

TxStates ==
  {Idle}
  \cup [step : {"polled"}, job : JobKeys, since : Nat, batch : SUBSET (Nat \ {0}), last : Nat,
        gap : BOOLEAN, fresh : SUBSET (Nat \ {0}), recorded : BOOLEAN]
  \cup [step : {"covered"}, job : JobKeys, availability : Availability,
        ingested : Nat]
  \cup [step : {"calculated"}, job : JobKeys, latest : Nat, version : Versions]
  \cup [step : {"interpreted"}, job : JobKeys, seen : Nat]
  \cup [step : {"reviewed"}, job : JobKeys]

\* The type invariant: updates that are queued, stored, cursors, versions,
\* results and jobs refer to what exists.
LearningTypeOK ==
  /\ now \in Nat
  /\ \A u \in DOMAIN updates : /\ updates[u].kind \in Kinds
                               /\ updates[u].time <= updates[u].arrived
                               /\ updates[u].arrived <= now
  /\ queue \cup dropped \cup unwatched \cup skipped \cup behind \subseteq DOMAIN updates
  /\ publication.stage \in {"unsent", "sent", "recorded"} /\ publication.at <= now
  /\ experiment \in {"DRAFT", "RUNNING", "COMPLETE"}
  /\ \A a \in Accounts : /\ row[a].status \in {"NONE", "UNKNOWN", "FRESH"}
                         /\ row[a].last \in {0} \cup DOMAIN updates
                         /\ row[a].ingested <= now /\ row[a].started <= now
  /\ observations \subseteq ObservationRows
  /\ \A o \in observations : o.update \in DOMAIN updates
  /\ \A v \in DOMAIN metrics : /\ metrics[v].availability \in Availability
                               /\ metrics[v].events \subseteq observations
  /\ \A i \in DOMAIN results : /\ results[i].class \in ResultClass
                               /\ results[i].metric \in DOMAIN metrics
  /\ \A i \in DOMAIN learnings : learnings[i].result \in DOMAIN results
  /\ \A k \in DOMAIN jobs :
       /\ k \in JobKeys
       /\ jobs[k].status \in {"QUEUED", "RUNNING", "SUCCEEDED", "FAILED"}
       /\ jobs[k].left \in 0..Attempts[k.kind]
  /\ \A w \in Workers : tx[w] \in TxStates

\* What explains that an update is in no version that claims to be complete:
\* the owner narrowed the update types; Telegram dropped it before the
\* account's first successful cycle; a cycle of another account got it; or it
\* was normalized before the publication's rows were committed.
Excused(u) ==
  \/ u \in skipped \cup unwatched
  \/ \E o \in observations : o.update = u /\ (o.account # Own \/ ~o.linked)

\* It reached Telegram's queue so early that a poll that is committed after the
\* window and the grace period gets it.
InTime(u) == updates[u].arrived + Span < WindowEnd + Grace

\* A COMPLETE version (calculate_metric_version, metric_coverage) counts every
\* reaction of the window that came in time, whatever was polled twice,
\* crashed, overlapped, failed or was dropped by Telegram in between, but for
\* what full answers had left in the queue; and there is none while an update
\* that cannot be ingested came in time.
CompleteCountsAll ==
  \A v \in DOMAIN metrics : metrics[v].availability = "AVAILABLE" =>
    \A u \in DOMAIN updates :
      InTime(u) /\ (InWindow(u) \/ updates[u].kind = "malformed") =>
        \/ Excused(u) \/ u \in metrics[v].left
        \/ \E o \in metrics[v].events : o.update = u

Reactions == {u \in DOMAIN updates : InWindow(u)}

\* A version that claims a count of zero has had the coverage to prove it: there
\* is no reaction of the window that came in time and is not excused.
ZeroIsProven ==
  \A v \in DOMAIN metrics : metrics[v].availability = "AVAILABLE" /\ Count(metrics[v]) = 0 =>
    \A u \in Reactions : InTime(u) => Excused(u)

\* No version counts more than the reactions there were in the window: polling
\* an update again, or in two overlapping cycles, does not inflate the metric
\* (ADR 0010, invariant 2).
NeverInflated == \A v \in DOMAIN metrics : Count(metrics[v]) <= Cardinality(Reactions)

\* An update that Telegram no longer has is stored, unless it was too old or
\* its type was not asked for: no cycle's offset confirms what a rolled back or
\* failed cycle got (ADR 0010, the polling commit rule).
NothingConfirmedUnseen ==
  \A u \in DOMAIN updates :
    u \in queue \cup dropped \cup skipped \/ \E o \in observations : o.update = u

\* The class of a result is true of what happened, not only of the version it
\* was read off (interpret_checkpoint): there were enough reactions for a
\* SUCCESS or a WEAK_SIGNAL, and not more than its class allows that came in
\* time, are not excused and were not left in Telegram's queue by a full answer.
VerdictTrue ==
  \A i \in DOMAIN results :
    LET class == results[i].class
        version == metrics[results[i].metric]
        missed == Cardinality({u \in Reactions : InTime(u) /\ ~Excused(u) /\ u \notin version.left})
    IN /\ class = "SUCCESS" => Cardinality(Reactions) >= checkpoint.success
       /\ class = "WEAK_SIGNAL" => Cardinality(Reactions) >= checkpoint.weak /\ missed < checkpoint.success
       /\ class = "FAILURE" => missed = 0

\* An experiment gets a second result only from an interpretation that read it
\* before the first was committed, and never two from one version; it is
\* COMPLETE exactly when it has one (interpret_checkpoint).
NoLateResult ==
  /\ \A i \in DOMAIN results : results[i].seen = 0
  /\ \A i, j \in DOMAIN results : results[i].metric = results[j].metric => i = j
  /\ experiment = "COMPLETE" <=> results # <<>>

\* Why an interpretation job fails: a crash took its last attempt, the
\* experiment was COMPLETE, or the count lies between zero and the weak
\* threshold, where no condition of the checkpoint applies.
InterpretFailureExplained ==
  \A k \in DOMAIN jobs : k.kind = "interpret" /\ jobs[k].status = "FAILED" =>
    \/ jobs[k].left = 0
    \/ results # <<>>
    \/ metrics[k.n].availability = "AVAILABLE" /\ Count(metrics[k.n]) \in 1..checkpoint.weak - 1

Over(k) == k \in DOMAIN jobs /\ jobs[k].status \in {"SUCCEEDED", "FAILED"}

\* When the cycles and the metric jobs are over, the latest version counts
\* every reaction of the window that is stored and linked, unless a metric job
\* failed (the loser of two overlapping calculations does, and is not retried).
MeasuredInTheEnd ==
  (\A k \in DOMAIN jobs : k.kind \in {"observe", "metric"} => Over(k)) =>
    \/ \E k \in DOMAIN jobs : k.kind = "metric" /\ jobs[k].status = "FAILED"
    \/ \A o \in observations : o.linked /\ InWindow(o.update) =>
         metrics # <<>> /\ o \in metrics[Len(metrics)].events

\* When the interpretation and learning jobs are over, every result has one
\* learning, and claims a causality only if its data sufficed.
LearnedInTheEnd ==
  (\A k \in DOMAIN jobs : k.kind \in {"interpret", "learn"} => Over(k)) =>
    \A i \in DOMAIN results :
      \/ LearnKey(i) \in DOMAIN jobs /\ jobs[LearnKey(i)].status = "FAILED"
      \/ \E l \in DOMAIN learnings :
           /\ learnings[l].result = i
           /\ \A m \in DOMAIN learnings : learnings[m].result = i => m = l
           /\ learnings[l].causality # "UNKNOWN" =>
                metrics[results[i].metric].availability = "AVAILABLE"
=============================================================================
