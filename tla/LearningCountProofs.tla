------------------------- MODULE LearningCountProofs -------------------------
(***************************************************************************)
(* Proofs about what the metric versions of LearningLoop count, and hence  *)
(* about the classes of the results, for any accounts, workers, thresholds *)
(* and times, and any number of disturbances.                              *)
(***************************************************************************)
EXTENDS LearningOutcomeProofs

-----------------------------------------------------------------------------
(* Counting.                                                               *)

LEMMA ReactionsFinite ==
  ASSUME CursorInv
  PROVE  IsFiniteSet(Reactions) /\ Cardinality(Reactions) \in Nat /\ Reactions \subseteq 1..Len(updates)
<1>1. Len(updates) \in Nat /\ DOMAIN updates = 1..Len(updates)
  BY DEF CursorInv
<1>2. IsFiniteSet(1..Len(updates))
  BY <1>1, FS_Interval
<1>3. Reactions \in SUBSET (1..Len(updates))
  BY <1>1 DEF Reactions
<1>4. IsFiniteSet(Reactions)
  BY <1>2, <1>3, FS_Subset
<1>5. QED
  BY <1>3, <1>4, FS_CardinalityType

\* The events of a version are reactions, each counted once.
LEMMA EventsAreReactions ==
  ASSUME CursorInv, ObservedInv, NEW E \in SUBSET Measured
  PROVE  IsFiniteSet(E) /\ Cardinality(E) \in Nat /\ Cardinality(E) <= Cardinality(Reactions)
<1> DEFINE f == [o \in E |-> o.update]
<1>1. DOMAIN updates = 1..Len(updates)
  BY DEF CursorInv
<1>2. \A o \in E : o \in observations /\ o.account = Own /\ o.update \in Reactions
  BY <1>1 DEF Measured, ObservedInv, Reactions
<1>3. \A o, p \in E : o.update = p.update => o = p
  BY <1>2 DEF ObservedInv
<1>4. f \in Injection(E, Reactions)
  BY <1>2, <1>3 DEF Injection, IsInjective
<1> HIDE DEF f
<1>5. IsFiniteSet(E) /\ Cardinality(E) <= Cardinality(Reactions)
  BY <1>4, ReactionsFinite, FS_Injection
<1>6. QED
  BY <1>5, FS_CardinalityType

\* No version counts more than the reactions that there were in the window,
\* however often and by however many overlapping cycles an update is polled
\* (ADR 0010, invariant 2).
THEOREM CountsAreReal == LearnSpec => []NeverInflated
<1>1. LearnInv => NeverInflated
  <2> SUFFICES ASSUME LearnInv, NEW v \in DOMAIN metrics
               PROVE  Count(metrics[v]) <= Cardinality(Reactions)
    BY DEF NeverInflated
  <2>1. CursorInv /\ ObservedInv /\ VersionsInv /\ IsSeq(metrics)
    BY DEF LearnInv, LogInv
  <2>2. metrics[v].events \in SUBSET Measured
    BY <2>1, SeqParts DEF VersionsInv
  <2>3. QED
    BY <2>1, <2>2, EventsAreReactions DEF Count
<1>2. QED
  BY <1>1, LearnInvHolds, PTL

-----------------------------------------------------------------------------
(* Why an interpretation fails.                                            *)

FailureInv == checkpoint \in Checkpoints /\ InterpretFailureExplained

LEMMA InterpretRaisesExplained ==
  ASSUME LearnInv, checkpoint \in Checkpoints, NEW w \in Workers, NEW k \in DOMAIN jobs,
         InterpretRaises(w, k)
  PROVE  \/ results # <<>>
         \/ metrics[k.n].availability = "AVAILABLE" /\ Count(metrics[k.n]) \in 1..checkpoint.weak - 1
<1>1. k.kind = "interpret" /\ ~Interpretable(k.n)
  BY DEF InterpretRaises, Queued
<1>2. /\ k.n \in 1..Len(metrics) /\ IsSeq(metrics) /\ CursorInv /\ ObservedInv /\ VersionsInv
      /\ PublicationTyped /\ ResultInv
  BY <1>1 DEF LearnInv, LogInv, KeysRefer, KeyRefers
<1>3. CASE experiment # "RUNNING"
  <2>1. Recorded
    BY <1>2, SeqParts DEF VersionsInv
  <2>2. experiment = "COMPLETE"
    BY <1>2, <1>3, <2>1 DEF PublicationTyped, Recorded
  <2>3. QED
    BY <1>2, <2>2 DEF ResultInv
<1>4. CASE Interpretation(metrics[k.n]) = "NONE"
  <2>1. Count(metrics[k.n]) \in Nat
    BY <1>2, EventsAreReactions DEF VersionsInv, Count
  <2>2. checkpoint.weak \in Nat
    BY LearningAssumption
  <2>3. /\ metrics[k.n].availability = "AVAILABLE" /\ Count(metrics[k.n]) # 0
        /\ ~(Count(metrics[k.n]) >= checkpoint.weak)
    BY <1>4 DEF Interpretation
  <2>4. QED
    BY <2>1, <2>2, <2>3
<1>5. QED
  BY <1>1, <1>3, <1>4 DEF Interpretable

LEMMA FailureInvStep ==
  ASSUME LearnInv, FailureInv, LearnNext
  PROVE  FailureInv'
<1>1. /\ JobInv /\ TxTyped /\ KeysRefer /\ LogInv /\ ResultInv /\ CursorInv
      /\ checkpoint' = checkpoint /\ checkpoint \in Checkpoints
  BY DEF LearnInv, FailureInv, LearnNext
<1>2. /\ Extends(metrics, metrics') /\ Extends(results, results') /\ IsSeq(results) /\ IsSeq(results')
      /\ Len(metrics) \in Nat /\ Len(metrics') \in Nat
  BY <1>1, LogInvStep, SeqParts DEF LogInv
<1>3. results # <<>> => results' # <<>>
  BY <1>2, SeqParts DEF Extends
<1>4. SUFFICES ASSUME NEW k \in DOMAIN jobs', k.kind = "interpret", jobs'[k].status = "FAILED",
                      jobs'[k].left # 0, results' = <<>>
               PROVE  /\ metrics'[k.n].availability = "AVAILABLE"
                      /\ Cardinality(metrics'[k.n].events) \in 1..checkpoint.weak - 1
  BY <1>1 DEF FailureInv, InterpretFailureExplained, Count
<1>5. JobChange(k)
  BY <1>1, JobCases DEF LogInv
<1>6. k \in DOMAIN jobs
  BY <1>4, <1>5 DEF JobChange
<1>7. k.n \in 1..Len(metrics) /\ metrics'[k.n] = metrics[k.n]
  BY <1>1, <1>2, <1>4, <1>6 DEF KeysRefer, KeyRefers, Extends
<1>8. CASE jobs'[k] = jobs[k]
  BY <1>3, <1>4, <1>6, <1>7, <1>8 DEF FailureInv, InterpretFailureExplained, Count
<1>9. CASE Attempted(k, "FAILED")
  <2>1. PICK w \in Workers : (\E n : ObserveRaises(w, k, n)) \/ InterpretRaises(w, k)
    BY <1>4, <1>9 DEF Attempted
  <2>2. InterpretRaises(w, k)
    BY <1>4, <2>1 DEF ObserveRaises, Queued
  <2>3. QED
    BY <1>1, <1>3, <1>4, <1>6, <1>7, <2>2, InterpretRaisesExplained DEF Count
<1>10. ~Finished(k, "FAILED")
  <2>1. ASSUME NEW w \in Workers, tx[w].job = k PROVE ~(ObserveConflicts(w) \/ MetricCommit(w))
    BY <1>1, <1>4, <2>1 DEF TxTyped, ObserveConflicts, MetricCommit
  <2>2. QED
    BY <1>4, <2>1 DEF Finished
<1>11. QED
  BY <1>4, <1>5, <1>6, <1>8, <1>9, <1>10 DEF JobChange

\* An interpretation job fails only if a crash took its last attempt, the
\* experiment was COMPLETE already, or the complete count is in no band of the
\* checkpoint, whatever thresholds it has (interpret_checkpoint).
THEOREM InterpretationFailures == LearnSpec => []InterpretFailureExplained
<1>1. LearnInit => FailureInv
  BY DEF LearnInit, FailureInv, InterpretFailureExplained
<1>2. LearnInv /\ FailureInv /\ [LearnNext]_learnVars => FailureInv'
  <2> SUFFICES ASSUME LearnInv, FailureInv, [LearnNext]_learnVars PROVE FailureInv'
    OBVIOUS
  <2>1. CASE UNCHANGED learnVars
    BY <2>1 DEF learnVars, FailureInv, InterpretFailureExplained, Count
  <2>2. QED
    BY <2>1, FailureInvStep
<1>3. FailureInv => InterpretFailureExplained
  BY DEF FailureInv
<1>4. QED
  BY <1>1, <1>2, <1>3, LearnInvHolds, PTL DEF LearnSpec

-----------------------------------------------------------------------------
(* What is stored is measured.                                             *)

\* A transaction that ends does so by a step of its worker.
LEMMA TxEnds ==
  ASSUME JobInv, LearnNext, NEW w \in Workers, tx[w] # Idle, tx'[w] # tx[w]
  PROVE  Continues(w)
<1>1. DOMAIN tx = Workers
  BY DEF JobInv
<1>2. CASE Outside
  BY <1>2, OutsideFrame
<1>3. ASSUME NEW v \in Workers, NEW k \in DOMAIN jobs, Begins(v, k) PROVE FALSE
  <2>1. v # w
    BY <1>3 DEF Begins, ObserveBegin, ObserveUnavailable, ObserveRaises, MetricBegin, InterpretBegin,
       InterpretRaises, LearnBegin, Queued
  <2>2. tx' = tx \/ \E t : tx' = [tx EXCEPT ![v] = t]
    BY <1>3, PollOpens DEF Begins, ObserveUnavailable, ObserveRaises, MetricBegin, InterpretBegin,
       InterpretRaises, LearnBegin
  <2>3. QED
    BY <1>1, <2>1, <2>2
<1>4. ASSUME NEW v \in Workers, Continues(v) PROVE v = w
  <2>1. \E t : tx' = [tx EXCEPT ![v] = t]
    BY <1>4, Zenon DEF Continues, ObserveCommit, ObserveConflicts, MetricCalculate, MetricCommit,
         InterpretCommit, LearnCommit, Crash
  <2>2. QED
    BY <1>1, <2>1
<1>5. QED
  BY <1>2, <1>3, <1>4, NextCases

\* What the crash of a worker does to its job.
LEMMA CrashRequeues ==
  ASSUME JobInv, NEW w \in Workers, tx[w] # Idle, Crash(w)
  PROVE  tx[w].job \in DOMAIN jobs' /\ jobs'[tx[w].job].status \in {"QUEUED", "FAILED"}
<1>1. jobs' = Retried(jobs, tx[w].job) /\ tx' = [tx EXCEPT ![w] = Idle]
  BY DEF Crash
<1>2. PICK status \in {"QUEUED", "FAILED"} : jobs' = Ended(jobs, tx[w].job, status)
  BY <1>1 DEF Retried
<1>3. tx[w].job \in DOMAIN jobs' /\ jobs'[tx[w].job].status = status
  BY <1>1, <1>2, EndKeeps
<1>4. QED
  BY <1>3

Latest == metrics[Len(metrics)].events

\* A metric job that will still run, or that failed.
MetricPending == \E k \in DOMAIN jobs : k.kind = "metric" /\ jobs[k].status \in {"QUEUED", "FAILED"}

\* The reaction is in the latest version, or a calculation is to come or has
\* counted it, or a metric job failed.
Counted(o) ==
  \/ metrics # <<>> /\ o \in Latest
  \/ MetricPending
  \/ \E w \in Workers : tx[w].step = "covered"
  \/ \E w \in Workers : tx[w].step = "calculated" /\ o \in tx[w].version.events

MeasuredInv == \A o \in Measured : Counted(o)

\* The latest version counts whatever an earlier one does.
LEMMA LatestCounts ==
  ASSUME IsSeq(metrics), VersionsInv, NEW i \in 1..Len(metrics)
  PROVE  metrics # <<>> /\ metrics[i].events \subseteq Latest
<1>1. Len(metrics) \in Nat /\ (metrics = <<>> <=> Len(metrics) = 0)
  BY SeqParts
<1>2. metrics # <<>> /\ Len(metrics) \in 1..Len(metrics) /\ i <= Len(metrics)
  BY <1>1
<1>3. QED
  BY <1>2 DEF VersionsInv, Latest

\* A metric job stays pending until its calculation opens.
LEMMA PendingStays ==
  ASSUME LearnInv, LearnNext, MetricPending
  PROVE  MetricPending' \/ \E w \in Workers : tx'[w].step = "covered"
<1>1. PICK k \in DOMAIN jobs : k.kind = "metric" /\ jobs[k].status \in {"QUEUED", "FAILED"}
  BY DEF MetricPending
<1>2. JobInv /\ LogInv /\ k \in DOMAIN jobs' /\ JobChange(k) /\ DOMAIN tx = Workers
  BY JobCases DEF LearnInv, LogInv, JobInv
<1>3. CASE jobs'[k] = jobs[k]
  BY <1>1, <1>2, <1>3 DEF MetricPending
<1>4. CASE Attempted(k, jobs'[k].status) /\ jobs[k].status = "QUEUED"
  <2>1. CASE jobs'[k].status \in {"QUEUED", "FAILED"}
    BY <1>1, <1>2, <2>1 DEF MetricPending
  <2>2. ASSUME NEW w \in Workers, tx'[w] # Idle, tx'[w].job = k PROVE tx'[w].step = "covered"
    <3>1. tx[w] # Idle => tx[w].job # k
      BY <1>2, <1>4 DEF JobInv
    <3>2. tx'[w] # tx[w]
      BY <2>2, <3>1
    <3>3. ~MetricCalculate(w)
      <4>1. ASSUME MetricCalculate(w) PROVE tx'[w].job = tx[w].job /\ tx[w] # Idle
        BY <1>2, <4>1 DEF MetricCalculate, Idle
      <4>2. QED
        BY <2>2, <3>1, <4>1
    <3>4. PICK j \in DOMAIN jobs : \/ \E n : ObserveBegin(w, j, n)
                                   \/ MetricBegin(w, j)
                                   \/ InterpretBegin(w, j) \/ LearnBegin(w, j)
      BY <1>2, <2>2, <3>2, <3>3, TxCases
    <3>5. ~ \E n : ObserveBegin(w, j, n)
      <4>1. ASSUME NEW n, ObserveBegin(w, j, n) PROVE tx'[w].job = j /\ j.kind = "observe"
        <5>1. PICK t : tx' = [tx EXCEPT ![w] = t] /\ t.job = j
          BY <4>1, PollOpens
        <5>2. QED
          BY <1>2, <4>1, <5>1 DEF ObserveBegin, Queued
      <4>2. QED
        BY <1>1, <2>2, <4>1
    <3>6. QED
      BY <1>1, <1>2, <2>2, <3>4, <3>5 DEF MetricBegin, InterpretBegin, LearnBegin, Queued
  <2>3. QED
    BY <1>4, <2>1, <2>2 DEF Attempted
<1>5. QED
  BY <1>1, <1>2, <1>3, <1>4 DEF JobChange

\* A new observation of the window comes with a metric job.
LEMMA NewIsPending ==
  ASSUME LearnInv, LearnNext, NEW o, o \in Measured', o \notin Measured
  PROVE  MetricPending'
<1>1. /\ JobInv /\ JobsTyped /\ TxTyped /\ CursorInv /\ ResultInv /\ ObservedInv /\ KeysRefer /\ LogInv
  BY DEF LearnInv
<1>2. o \in observations' /\ o.linked /\ InWindow(o.update)'
  BY DEF Measured
<1>3. o \notin observations
  <2>1. ASSUME o \in observations PROVE FALSE
    <3>1. Recorded /\ o.update \in 1..Len(updates)
      BY <1>1, <1>2, <2>1 DEF ObservedInv
    <3>2. InWindow(o.update)
      BY <1>1, <1>2, <3>1, WindowFixed
    <3>3. QED
      BY <1>2, <2>1, <3>2 DEF Measured
  <2>2. QED
    BY <2>1
<1>4. PICK w \in Workers, recorded \in BOOLEAN : ObserveCommit(w, recorded)
  BY <1>2, <1>3, NextCases, BeginsFrame, ContinuesFrame, OutsideFrame
<1>5. o \in Normalized(tx[w], recorded)
  BY <1>2, <1>3, <1>4, Stores
<1>6. recorded /\ tx[w].job.account = Own
  <2>1. PICK l \in BOOLEAN :
          /\ l => recorded /\ tx[w].job.account = Own
          /\ o = [account |-> tx[w].job.account, update |-> o.update, linked |-> l, by |-> tx[w].job.n]
    BY <1>4, <1>5, Stores
  <2>2. l
    BY <1>2, <2>1
  <2>3. QED
    BY <2>1, <2>2
<1>7. jobs' = create_job(Ended(jobs, tx[w].job, "SUCCEEDED"), Key("metric", Own, tx[w].job.n))
  BY <1>4, <1>6, Zenon DEF ObserveCommit
<1>8. PICK k : k = Key("metric", Own, tx[w].job.n) /\ k.kind = "metric" /\ k.n = tx[w].job.n
  BY KeyParts
<1>9. k \in DOMAIN jobs'
  <2>1. k \in DOMAIN create_job(Ended(jobs, tx[w].job, "SUCCEEDED"), k)
    BY CreateJobParts
  <2>2. QED
    BY <1>7, <1>8, <2>1
<1>10. jobs[Key("observe", Own, k.n)].status = "RUNNING"
  BY <1>1, <1>4, <1>6, <1>8, CycleSucceeds
<1>11. k \notin DOMAIN jobs
  BY <1>1, <1>8, <1>10 DEF KeysRefer, KeyRefers
<1>12. jobs'[k].status = "QUEUED"
  BY <1>1, <1>9, <1>11, JobCases DEF JobChange, LogInv
<1>13. QED
  BY <1>8, <1>9, <1>12 DEF MetricPending

\* The transaction that was to count the reaction goes on.
LEMMA CalculationCounts ==
  ASSUME LearnInv, LearnNext, VersionsInv', NEW w \in Workers, NEW o \in Measured,
         tx[w].step = "covered" \/ (tx[w].step = "calculated" /\ o \in tx[w].version.events)
  PROVE  Counted(o)'
<1>1. /\ JobInv /\ TxTyped /\ LogInv /\ ResultInv /\ VersionsInv /\ IsSeq(metrics) /\ IsSeq(metrics')
      /\ tx[w] # Idle
  BY LogInvStep DEF LearnInv, LogInv, Idle
<1>2. tx[w].job \in DOMAIN jobs /\ tx[w].job.kind = "metric"
  BY <1>1 DEF JobInv, TxTyped
<1>3. CASE tx'[w] = tx[w]
  BY <1>3 DEF Counted
<1>4. CASE MetricCalculate(w)
  <2>1. PICK v : /\ tx'[w] = [step |-> "calculated", job |-> tx[w].job, latest |-> Len(metrics), version |-> v]
                 /\ v = [availability |-> tx[w].availability, ingested |-> tx[w].ingested,
                        events |-> Measured, left |-> behind \ Stored(Own)]
    BY <1>1, <1>4, CalculatedTx
  <2>2. tx'[w].step = "calculated" /\ tx'[w].version.events = Measured
    BY <2>1
  <2>3. QED
    BY <2>2 DEF Counted
<1>5. CASE Crash(w)
  <2>1. tx[w].job \in DOMAIN jobs' /\ jobs'[tx[w].job].status \in {"QUEUED", "FAILED"}
    BY <1>1, <1>5, CrashRequeues
  <2>2. MetricPending'
    BY <1>2, <2>1 DEF MetricPending
  <2>3. QED
    BY <2>2 DEF Counted
<1>6. CASE MetricCommit(w)
  <2>1. tx[w].step = "calculated" /\ o \in tx[w].version.events /\ tx' = [tx EXCEPT ![w] = Idle]
    BY <1>6 DEF MetricCommit
  <2>2. tx[w].latest \in 0..Len(metrics) /\ Len(metrics) \in Nat
    BY <1>1, <2>1, SeqParts DEF VersionsInv
  <2>3. CASE /\ tx[w].latest > 0 /\ metrics[tx[w].latest].events = tx[w].version.events
             /\ metrics' = metrics
    <3>1. tx[w].latest \in 1..Len(metrics)
      BY <2>2, <2>3
    <3>2. metrics # <<>> /\ o \in Latest
      BY <1>1, <2>1, <2>3, <3>1, LatestCounts
    <3>3. QED
      BY <2>3, <3>2 DEF Counted, Latest
  <2>4. CASE metrics' = Append(metrics, tx[w].version)
    <3>1. Len(metrics') = Len(metrics) + 1 /\ metrics'[Len(metrics) + 1] = tx[w].version
      BY <1>1, <2>4, AppendParts
    <3>2. metrics' # <<>> /\ metrics'[Len(metrics')].events = tx[w].version.events
      BY <1>1, <2>2, <3>1, SeqParts
    <3>3. QED
      BY <2>1, <3>2 DEF Counted, Latest
  <2>5. CASE jobs' = Ended(jobs, tx[w].job, "FAILED")
    <3>1. tx[w].job \in DOMAIN jobs' /\ jobs'[tx[w].job].status = "FAILED"
      BY <1>1, <2>1, <2>5, EndKeeps
    <3>2. MetricPending'
      BY <1>2, <3>1 DEF MetricPending
    <3>3. QED
      BY <3>2 DEF Counted
  <2>6. QED
    BY <1>6, <2>3, <2>4, <2>5 DEF MetricCommit, SameDerivation
<1>7. QED
  <2>1. tx'[w] = tx[w] \/ Continues(w)
    BY <1>1, TxEnds
  <2>2. tx[w].step \notin {"polled", "interpreted", "reviewed"}
    OBVIOUS
  <2>3. ~(\E recorded \in BOOLEAN : ObserveCommit(w, recorded)) /\ ~ObserveConflicts(w)
        /\ ~InterpretCommit(w) /\ ~LearnCommit(w)
    BY <2>2, Stores DEF ObserveConflicts, InterpretCommit, LearnCommit
  <2>4. QED
    BY <1>3, <1>4, <1>5, <1>6, <2>1, <2>3 DEF Continues

LEMMA MeasuredInvStep ==
  ASSUME LearnInv, LearnInv', MeasuredInv, LearnNext
  PROVE  MeasuredInv'
<1>1. SUFFICES ASSUME NEW o, o \in Measured' PROVE Counted(o)'
  BY DEF MeasuredInv
<1>2. /\ LogInv /\ ResultInv /\ IsSeq(metrics) /\ IsSeq(metrics') /\ VersionsInv /\ VersionsInv'
      /\ Extends(metrics, metrics') /\ Len(metrics) \in Nat /\ Len(metrics') \in Nat
  BY LogInvStep, SeqParts DEF LearnInv, LogInv
<1>3. CASE o \notin Measured
  BY <1>1, <1>3, NewIsPending DEF Counted
<1>4. CASE o \in Measured /\ metrics # <<>> /\ o \in Latest
  <2>1. Len(metrics) \in 1..Len(metrics) /\ Len(metrics) \in 1..Len(metrics')
    BY <1>2, <1>4, SeqParts DEF Extends
  <2>2. metrics'[Len(metrics)] = metrics[Len(metrics)]
    BY <1>2, <2>1 DEF Extends
  <2>3. /\ metrics' # <<>> /\ Len(metrics') \in 1..Len(metrics') /\ Len(metrics) <= Len(metrics')
    BY <1>2, <2>1, SeqParts DEF Extends
  <2>4. metrics'[Len(metrics)].events \subseteq metrics'[Len(metrics')].events
    BY <1>2, <2>1, <2>3 DEF VersionsInv
  <2>5. QED
    BY <1>4, <2>2, <2>3, <2>4 DEF Counted, Latest
<1>5. CASE MetricPending
  BY <1>5, PendingStays DEF Counted
<1>6. CASE o \in Measured /\ \E w \in Workers : \/ tx[w].step = "covered"
                                                \/ tx[w].step = "calculated" /\ o \in tx[w].version.events
  BY <1>2, <1>6, CalculationCounts
<1>7. QED
  BY <1>3, <1>4, <1>5, <1>6 DEF MeasuredInv, Counted

\* When cycles and metric jobs are over, every reaction of the window that is
\* stored and linked is in the latest version, unless a metric job failed
\* (TelegramObservationHandler's create_job, calculate_metric_version).
THEOREM StoredIsMeasured == LearnSpec => []MeasuredInTheEnd
<1>1. LearnInit => MeasuredInv
  BY DEF LearnInit, MeasuredInv, Measured
<1>2. LearnInv /\ LearnInv' /\ MeasuredInv /\ [LearnNext]_learnVars => MeasuredInv'
  <2> SUFFICES ASSUME LearnInv, LearnInv', MeasuredInv, [LearnNext]_learnVars PROVE MeasuredInv'
    OBVIOUS
  <2>1. CASE UNCHANGED learnVars
    <3>1. UNCHANGED <<updates, publication, observations, metrics, jobs, tx>>
      BY <2>1 DEF learnVars, telegramVars
    <3>2. Measured' = Measured /\ \A o : Counted(o) => Counted(o)'
      BY <3>1 DEF Measured, InWindow, WindowEnd, Counted, MetricPending, Latest
    <3>3. QED
      BY <3>2 DEF MeasuredInv
  <2>2. QED
    BY <2>1, MeasuredInvStep
<1>3. LearnInv /\ MeasuredInv => MeasuredInTheEnd
  <2> SUFFICES ASSUME LearnInv, MeasuredInv,
                      \A k \in DOMAIN jobs : k.kind \in {"observe", "metric"} => Over(k),
                      ~ \E k \in DOMAIN jobs : k.kind = "metric" /\ jobs[k].status = "FAILED",
                      NEW o \in observations, o.linked, InWindow(o.update)
               PROVE  metrics # <<>> /\ o \in metrics[Len(metrics)].events
    BY DEF MeasuredInTheEnd
  <2>1. Counted(o)
    BY DEF MeasuredInv, Measured
  <2>2. ~MetricPending
    BY DEF MetricPending, Over
  <2>3. \A w \in Workers : tx[w].step \notin {"covered", "calculated"}
    <3>1. SUFFICES ASSUME NEW w \in Workers, tx[w].step \in {"covered", "calculated"} PROVE FALSE
      OBVIOUS
    <3>2. tx[w] # Idle /\ tx[w].job.kind = "metric"
      BY <3>1 DEF LearnInv, TxTyped, Idle
    <3>3. tx[w].job \in DOMAIN jobs /\ jobs[tx[w].job].status = "RUNNING"
      BY <3>2 DEF LearnInv, JobInv
    <3>4. QED
      BY <3>2, <3>3 DEF Over
  <2>4. QED
    BY <2>1, <2>2, <2>3 DEF Counted, Latest
<1>4. QED
  BY <1>1, <1>2, <1>3, LearnInvHolds, PTL DEF LearnSpec

-----------------------------------------------------------------------------
(* What the account's cycles miss, and when they know.                     *)

\* Stored by some account, left out because of its type, or left in the queue by
\* a full answer.
Handled(u) == u \in skipped \cup behind \/ \E o \in observations : o.update = u

\* Dropped by Telegram after the first successful cycle, and not handled.
Missing == {u \in dropped \ unwatched : ~Handled(u)}

\* What is still queued came at most Span before the last cycle was written;
\* and once something is missing, the row has a gap or is too old.
RowInv ==
  /\ row[Own].status # "FRESH" => dropped \subseteq unwatched
  /\ row[Own].status = "FRESH" =>
       \A u \in queue : Handled(u) \/ row[Own].ingested <= updates[u].arrived + Span
  /\ row[Own].status = "FRESH" =>
       row[Own].gap \/ \A u \in Missing : row[Own].ingested + RetentionGap < now

\* An open cycle has all that was queued when it polled, and what is missing by
\* then, unless it will write a gap.
CycleInv ==
  \A w \in Workers : tx[w].step = "polled" =>
    /\ tx[w].since \in Nat /\ tx[w].since <= now /\ now <= tx[w].since + Span
    /\ tx[w].job.account = Own =>
         /\ \A u \in queue : u \in tx[w].batch \/ Handled(u) \/ tx[w].since <= updates[u].arrived
         /\ tx[w].gap \/ row[Own].gap \/ Missing \subseteq tx[w].batch

\* An update that Telegram drops in this step.
Aged(u) == u \in queue /\ now + 1 > updates[u].arrived + Retention

LEMMA HandledStays ==
  ASSUME LearnInv, LearnNext, NEW u, Handled(u)
  PROVE  Handled(u)'
<1>1. observations \subseteq observations' /\ skipped \subseteq skipped' /\ behind \subseteq behind'
  BY Growth DEF LearnInv
<1>2. QED
  BY <1>1 DEF Handled

\* Nothing else is missing than what was or what Telegram drops now.
LEMMA MissingCases ==
  ASSUME LearnInv, LearnNext, NEW u, u \in Missing'
  PROVE  ~Handled(u) /\ (u \in Missing \/ (Tick /\ Aged(u) /\ row[Own].status = "FRESH"))
<1>1. u \in dropped' /\ u \notin unwatched' /\ ~Handled(u)
  BY HandledStays DEF Missing
<1>2. unwatched \subseteq unwatched'
  BY Growth DEF LearnInv
<1>3. CASE Tick
  BY <1>1, <1>2, <1>3 DEF Tick, Aged, Missing
<1>4. CASE ~Tick
  <2>1. UNCHANGED dropped
    BY <1>4, NextCases, BeginsFrame, ContinuesFrame, OutsideFrame
  <2>2. QED
    BY <1>1, <1>2, <2>1 DEF Missing
<1>5. QED
  BY <1>3, <1>4

\* A queued update was queued, or has just arrived.
LEMMA QueueCases ==
  ASSUME LearnInv, LearnNext, NEW u, u \in queue'
  PROVE  \/ u \in queue /\ u \in 1..Len(updates) /\ updates'[u] = updates[u]
         \/ updates'[u].arrived = now
<1>1. CursorInv /\ Extends(updates, updates') /\ Len(updates) \in Nat /\ IsSeq(updates)
  BY Growth DEF LearnInv, CursorInv, IsSeq
<1>2. CASE u \in queue
  BY <1>1, <1>2 DEF CursorInv, Extends
<1>3. ASSUME NEW kind, NEW t, Arrive(kind, t), u \notin queue PROVE updates'[u].arrived = now
  <2>1. PICK e : updates' = Append(updates, e) /\ e.arrived = now
    BY <1>3 DEF Arrive
  <2>2. u = Len(updates) + 1
    BY <1>3 DEF Arrive
  <2>3. QED
    BY <1>1, <2>1, <2>2, AppendParts
<1>4. CASE queue' \subseteq queue
  BY <1>2, <1>4
<1>5. QED
  <2>1. CASE Outside
    <3>1. queue' \subseteq queue \/ \E kind \in Kinds, t \in 0..now : Arrive(kind, t)
      BY <2>1, Zenon DEF Outside, Tick, Send, Record, configure_telegram_observation,
         enqueue_telegram_observation_job, enqueue_checkpoint_interpretation_job, telegramVars
    <3>2. QED
      BY <1>2, <1>3, <1>4, <3>1
  <2>2. QED
    BY <1>4, <2>1, NextCases, BeginsFrame, ContinuesFrame

\* Before the first successful cycle nothing that is dropped counts as missing.
LEMMA UnwatchedBefore ==
  ASSUME LearnInv, LearnNext, row[Own].status # "FRESH", dropped \subseteq unwatched
  PROVE  dropped' \subseteq unwatched' /\ Missing' = {}
<1>1. dropped' \subseteq unwatched'
  <2>1. CASE Tick
    BY <2>1 DEF Tick
  <2>2. CASE ~Tick
    BY <2>2, NextCases, BeginsFrame, ContinuesFrame, OutsideFrame
  <2>3. QED
    BY <2>1, <2>2
<1>2. QED
  BY <1>1 DEF Missing

\* The row of the account is as it was, new, or written by a cycle.
LEMMA OwnRowCases ==
  ASSUME LearnInv, LearnNext
  PROVE  \/ /\ row'[Own].status = row[Own].status /\ row'[Own].ingested = row[Own].ingested
            /\ row'[Own].gap = row[Own].gap
         \/ row[Own].status = "NONE" /\ row'[Own].status = "UNKNOWN"
         \/ \E w \in Workers, recorded \in BOOLEAN :
              /\ ObserveCommit(w, recorded) /\ tx[w].job.account = Own
              /\ row'[Own] = Written(row[Own], tx[w])
<1>1. DOMAIN row = Accounts /\ Own \in Accounts
  BY LearningAssumption DEF LearnInv, CursorInv
<1>2. CASE UNCHANGED row
  BY <1>2
<1>3. ASSUME NEW a, NEW types, configure_telegram_observation(a, types)
      PROVE  \/ /\ row'[Own].status = row[Own].status /\ row'[Own].ingested = row[Own].ingested
                /\ row'[Own].gap = row[Own].gap
             \/ row[Own].status = "NONE" /\ row'[Own].status = "UNKNOWN"
  <2>1. PICK r : r = [status |-> "UNKNOWN", started |-> now, last |-> 0, ingested |-> 0,
                      gap |-> FALSE, types |-> types]
    OBVIOUS
  <2>2. PICK q : q = [row[a] EXCEPT !.types = types]
    OBVIOUS
  <2>3. \/ row[a].status = "NONE" /\ row' = [row EXCEPT ![a] = r]
        \/ row' = [row EXCEPT ![a] = q]
    BY <1>3, <2>1, <2>2 DEF configure_telegram_observation
  <2>4. r.status = "UNKNOWN"
    BY <2>1
  <2>5. q.status = row[a].status /\ q.ingested = row[a].ingested /\ q.gap = row[a].gap
    BY <2>2
  <2>6. QED
    BY <1>1, <2>3, <2>4, <2>5
<1>4. ASSUME NEW w \in Workers, NEW recorded \in BOOLEAN, ObserveCommit(w, recorded)
      PROVE  row'[Own] = row[Own] \/ (tx[w].job.account = Own /\ row'[Own] = Written(row[Own], tx[w]))
  <2>1. PICK a, r : a = tx[w].job.account /\ row' = [row EXCEPT ![a] = r] /\ r = Written(row[a], tx[w])
    BY <1>4, Zenon DEF ObserveCommit
  <2>2. QED
    BY <1>1, <2>1
<1>5. QED
  BY <1>2, <1>3, <1>4, NextCases, BeginsFrame, ContinuesFrame, OutsideFrame

\* The times that the invariants compare.
LEMMA TimesAreNumbers ==
  ASSUME LearnInv
  PROVE  /\ now \in Nat /\ row[Own].ingested \in Nat /\ row[Own].ingested <= now
         /\ \A u \in queue : u \in 1..Len(updates) /\ updates[u].arrived \in Nat
         /\ RetentionGap \in Nat /\ Span \in Nat /\ Retention \in Nat /\ Window \in Nat /\ Grace \in Nat
         /\ RetentionGap + Span <= Retention
<1>1. now \in Nat /\ CursorInv /\ RowsTyped /\ Own \in Accounts
  BY LearningAssumption DEF LearnInv, CursorInv
<1>2. row[Own].ingested \in 0..now
  BY <1>1 DEF RowsTyped
<1>3. \A u \in queue : u \in 1..Len(updates) /\ updates[u].arrived \in Nat
  BY <1>1, TimesTyped DEF CursorInv
<1>4. QED
  BY <1>1, <1>2, <1>3, LearningAssumption

\* A cycle stores its batch, and leaves its time and its gap in the row.
LEMMA CommitWrites ==
  ASSUME LearnInv, LearnNext, NEW w \in Workers, NEW recorded \in BOOLEAN, ObserveCommit(w, recorded),
         row'[Own] = Written(row[Own], tx[w])
  PROVE  /\ row'[Own].status = "FRESH" /\ row'[Own].ingested = now /\ now' = now
         /\ queue' = queue /\ updates' = updates /\ tx[w].step = "polled" /\ ~Tick
         /\ (tx[w].gap \/ row[Own].gap) => row'[Own].gap
         /\ \A u \in tx[w].batch : Handled(u)'
<1>1. row'[Own].status = "FRESH" /\ row'[Own].ingested = now
  BY DEF Written
<1>2. PICK gap : gap = (row[Own].gap \/ tx[w].gap)
  OBVIOUS
<1>3. row'[Own].gap = gap
  BY <1>2 DEF Written
<1>4. (tx[w].gap \/ row[Own].gap) => row'[Own].gap
  BY <1>2, <1>3, Zenon
<1>5. Continues(w)
  BY DEF Continues
<1>6. now' = now /\ queue' = queue /\ updates' = updates
  BY <1>5, ContinuesFrame
<1>7. ~Tick
  <2>1. now \in Nat
    BY TimesAreNumbers
  <2>2. QED
    BY <1>6, <2>1 DEF Tick
<1>8. \A u \in tx[w].batch : Handled(u)'
  BY Stores DEF Handled
<1>9. tx[w].step = "polled"
  BY Stores
<1>10. QED
  BY <1>1, <1>4, <1>6, <1>7, <1>8, <1>9

LEMMA RowInvStep ==
  ASSUME LearnInv, RowInv, CycleInv, LearnNext
  PROVE  RowInv'
<1>1. now' \in Nat /\ now <= now'
  BY Growth DEF LearnInv
<1>2. CASE row[Own].status # "FRESH" /\ row'[Own].status # "FRESH"
  BY <1>2, UnwatchedBefore DEF RowInv
<1>3. CASE /\ row[Own].status = "FRESH" /\ row'[Own].status = "FRESH"
           /\ row'[Own].ingested = row[Own].ingested /\ row'[Own].gap = row[Own].gap
  <2>1. ASSUME NEW u, u \in queue'
        PROVE  Handled(u)' \/ row'[Own].ingested <= updates'[u].arrived + Span
    <3>1. CASE u \in queue /\ u \in 1..Len(updates) /\ updates'[u] = updates[u]
      <4>1. Handled(u) \/ row[Own].ingested <= updates[u].arrived + Span
        BY <1>3, <3>1 DEF RowInv
      <4>2. QED
        BY <1>3, <3>1, <4>1, HandledStays
    <3>2. CASE updates'[u].arrived = now
      BY <1>3, <3>2, TimesAreNumbers
    <3>3. QED
      BY <2>1, <3>1, <3>2, QueueCases
  <2>2. ASSUME ~row'[Own].gap, NEW u, u \in Missing'
        PROVE  row'[Own].ingested + RetentionGap < now'
    <3>1. ~row[Own].gap
      BY <1>3, <2>2
    <3>2. CASE u \in Missing
      <4>1. row[Own].ingested + RetentionGap < now
        BY <1>3, <3>1, <3>2 DEF RowInv
      <4>2. QED
        BY <1>1, <1>3, <4>1, TimesAreNumbers
    <3>3. CASE Tick /\ Aged(u) /\ ~Handled(u)
      <4>1. u \in queue /\ now + 1 > updates[u].arrived + Retention /\ now' = now + 1
        BY <3>3 DEF Tick, Aged
      <4>2. row[Own].ingested <= updates[u].arrived + Span
        BY <1>3, <3>3, <4>1 DEF RowInv
      <4>3. /\ now \in Nat /\ row[Own].ingested \in Nat /\ updates[u].arrived \in Nat
            /\ RetentionGap \in Nat /\ Span \in Nat /\ Retention \in Nat
            /\ RetentionGap + Span <= Retention
        BY <4>1, TimesAreNumbers
      <4>4. row[Own].ingested + RetentionGap < now + 1
        BY <4>1, <4>2, <4>3
      <4>5. QED
        BY <1>3, <4>1, <4>4
    <3>4. QED
      BY <2>2, <3>2, <3>3, MissingCases
  <2>3. QED
    BY <1>3, <2>1, <2>2 DEF RowInv
<1>4. ASSUME NEW w \in Workers, NEW recorded \in BOOLEAN, ObserveCommit(w, recorded),
             tx[w].job.account = Own, row'[Own] = Written(row[Own], tx[w])
      PROVE  RowInv'
  <2>1. /\ row'[Own].status = "FRESH" /\ row'[Own].ingested = now /\ now' = now
        /\ queue' = queue /\ updates' = updates /\ tx[w].step = "polled" /\ ~Tick
        /\ (tx[w].gap \/ row[Own].gap) => row'[Own].gap
        /\ \A u \in tx[w].batch : Handled(u)'
    BY <1>4, CommitWrites
  <2>2. /\ tx[w].since \in Nat /\ now <= tx[w].since + Span
        /\ \A u \in queue : u \in tx[w].batch \/ Handled(u) \/ tx[w].since <= updates[u].arrived
        /\ tx[w].gap \/ row[Own].gap \/ Missing \subseteq tx[w].batch
    BY <1>4, <2>1 DEF CycleInv
  <2>3. ASSUME NEW u \in queue PROVE Handled(u)' \/ now <= updates[u].arrived + Span
    <3>1. tx[w].since <= updates[u].arrived => now <= updates[u].arrived + Span
      BY <2>2, TimesAreNumbers
    <3>2. QED
      BY <2>1, <2>2, <3>1, HandledStays
  <2>4. ASSUME ~row'[Own].gap PROVE Missing' = {}
    <3>1. SUFFICES ASSUME NEW u, u \in Missing' PROVE FALSE
      OBVIOUS
    <3>2. u \in tx[w].batch
      BY <2>1, <2>2, <2>4, <3>1, MissingCases
    <3>3. QED
      BY <2>1, <3>1, <3>2 DEF Missing
  <2>5. QED
    BY <2>1, <2>3, <2>4 DEF RowInv
<1>5. QED
  BY <1>2, <1>3, <1>4, OwnRowCases

\* A cycle that stays open still has what was queued when it polled: nothing of
\* what came later grows old enough to be dropped.
LEMMA OpenCycleStays ==
  ASSUME LearnInv, RowInv, CycleInv, LearnNext, NEW w \in Workers, tx[w].step = "polled",
         tx[w].job.account = Own
  PROVE  /\ \A u : u \in queue' => u \in tx[w].batch \/ Handled(u)' \/ tx[w].since <= updates'[u].arrived
         /\ tx[w].gap \/ row'[Own].gap \/ Missing' \subseteq tx[w].batch
<1>1. /\ tx[w].since \in Nat /\ tx[w].since <= now
      /\ \A u \in queue : u \in tx[w].batch \/ Handled(u) \/ tx[w].since <= updates[u].arrived
      /\ tx[w].gap \/ row[Own].gap \/ Missing \subseteq tx[w].batch
  BY DEF CycleInv
<1>2. ASSUME NEW u, u \in queue'
      PROVE  u \in tx[w].batch \/ Handled(u)' \/ tx[w].since <= updates'[u].arrived
  BY <1>1, <1>2, QueueCases, HandledStays
<1>3. ASSUME Missing \subseteq tx[w].batch PROVE Missing' \subseteq tx[w].batch
  <2>1. SUFFICES ASSUME NEW u, u \in Missing', u \notin tx[w].batch PROVE FALSE
    OBVIOUS
  <2>2. ~Handled(u) /\ Tick /\ Aged(u)
    BY <1>3, <2>1, MissingCases
  <2>3. /\ u \in queue /\ now + 1 > updates[u].arrived + Retention /\ now < tx[w].since + Span
    BY <2>2 DEF Tick, Aged
  <2>4. tx[w].since <= updates[u].arrived
    BY <1>1, <2>1, <2>2, <2>3
  <2>5. /\ now \in Nat /\ updates[u].arrived \in Nat /\ RetentionGap \in Nat /\ Span \in Nat
        /\ Retention \in Nat /\ RetentionGap + Span <= Retention
    BY <2>3, TimesAreNumbers
  <2>6. QED
    BY <1>1, <2>3, <2>4, <2>5
<1>4. row[Own].gap => row'[Own].gap \/ Missing' \subseteq tx[w].batch
  <2>1. CASE row[Own].status = "NONE"
    <3>1. Missing' = {}
      BY <2>1, UnwatchedBefore DEF RowInv
    <3>2. QED
      BY <3>1
  <2>2. CASE row'[Own].gap = row[Own].gap
    BY <2>2
  <2>3. ASSUME NEW v \in Workers, NEW recorded \in BOOLEAN, ObserveCommit(v, recorded),
               row'[Own] = Written(row[Own], tx[v])
        PROVE  row[Own].gap => row'[Own].gap
    BY <2>3, CommitWrites
  <2>4. QED
    BY <2>1, <2>2, <2>3, OwnRowCases
<1>5. QED
  BY <1>1, <1>2, <1>3, <1>4

\* A cycle that polls.
LEMMA PollCovers ==
  ASSUME LearnInv, RowInv, LearnNext, NEW w \in Workers, NEW k \in DOMAIN jobs,
         NEW n \in 1..BatchLimit, ObserveBegin(w, k, n), k.account = Own
  PROVE  /\ tx'[w].since = now /\ now' = now
         /\ \A u : u \in queue' => u \in tx'[w].batch \/ Handled(u)'
         /\ tx'[w].gap \/ row'[Own].gap \/ Missing' \subseteq tx'[w].batch
<1>1. PICK gap \in BOOLEAN, recorded \in BOOLEAN :
        /\ gap = (row[Own].status = "FRESH" /\ now > row[Own].ingested + RetentionGap)
        /\ tx' = [tx EXCEPT ![w] =
            [step |-> "polled", job |-> k, since |-> now, batch |-> Answer(row[Own], n),
             last |-> row[Own].last, gap |-> gap,
             fresh |-> Answer(row[Own], n) \ Stored(k.account), recorded |-> recorded]]
  BY PollTx
<1>2. PICK t : t = [step |-> "polled", job |-> k, since |-> now, batch |-> Answer(row[Own], n),
                    last |-> row[Own].last, gap |-> gap,
                    fresh |-> Answer(row[Own], n) \ Stored(k.account), recorded |-> recorded]
  OBVIOUS
<1>3. tx'[w] = t /\ t.since = now /\ t.batch = Answer(row[Own], n) /\ t.gap = gap
  BY <1>1, <1>2 DEF LearnInv, JobInv
<1>4. Begins(w, k)
  BY DEF Begins
<1>5. UNCHANGED <<now, row, dropped, unwatched>> /\ Poll(row[Own], n)
  BY <1>4, BeginsFrame DEF ObserveBegin
<1>6. \A u : u \in queue' => u \in Answer(row[Own], n) \/ u \in skipped' \cup behind'
  BY <1>5 DEF Poll
<1>7. \A u : u \in Missing' => u \in Missing
  <2>1. ASSUME Tick PROVE FALSE
    <3>1. now \in Nat
      BY TimesAreNumbers
    <3>2. QED
      BY <1>5, <2>1, <3>1 DEF Tick
  <2>2. QED
    BY <2>1, MissingCases
<1>8. ASSUME ~gap, ~row[Own].gap PROVE Missing' = {}
  <2>1. CASE row[Own].status # "FRESH"
    BY <2>1, UnwatchedBefore DEF RowInv
  <2>2. CASE row[Own].status = "FRESH"
    <3>1. ~(now > row[Own].ingested + RetentionGap)
      BY <1>1, <1>8, <2>2, Zenon
    <3>2. \A u \in Missing : row[Own].ingested + RetentionGap < now
      BY <1>8, <2>2 DEF RowInv
    <3>3. now \in Nat /\ row[Own].ingested \in Nat /\ RetentionGap \in Nat
      BY TimesAreNumbers
    <3>4. Missing = {}
      BY <3>1, <3>2, <3>3
    <3>5. QED
      BY <1>7, <3>4
  <2>3. QED
    BY <2>1, <2>2
<1>9. QED
  BY <1>3, <1>5, <1>6, <1>8 DEF Handled

LEMMA CycleInvStep ==
  ASSUME LearnInv, RowInv, CycleInv, LearnNext
  PROVE  CycleInv'
<1>1. SUFFICES ASSUME NEW w \in Workers, tx'[w].step = "polled"
               PROVE  /\ tx'[w].since \in Nat /\ tx'[w].since <= now' /\ now' <= tx'[w].since + Span
                      /\ tx'[w].job.account = Own =>
                           /\ \A u \in queue' : u \in tx'[w].batch \/ Handled(u)'
                                                \/ tx'[w].since <= updates'[u].arrived
                           /\ tx'[w].gap \/ row'[Own].gap \/ Missing' \subseteq tx'[w].batch
  BY DEF CycleInv
<1>2. now \in Nat /\ Span \in Nat /\ JobInv /\ DOMAIN tx = Workers /\ now' \in Nat /\ now <= now'
  BY TimesAreNumbers, Growth DEF LearnInv, JobInv
<1>3. CASE tx'[w] = tx[w]
  <2>1. tx[w].since \in Nat /\ tx[w].since <= now /\ now <= tx[w].since + Span
    BY <1>1, <1>3 DEF CycleInv
  <2>2. now' <= tx[w].since + Span
    <3>1. CASE Tick
      BY <1>1, <1>2, <1>3, <2>1, <3>1 DEF Tick
    <3>2. CASE ~Tick
      <4>1. now' = now
        BY <3>2, NextCases, BeginsFrame, ContinuesFrame, OutsideFrame
      <4>2. QED
        BY <2>1, <4>1
    <3>3. QED
      BY <3>1, <3>2
  <2>3. tx[w].since <= now'
    BY <1>2, <2>1
  <2>4. QED
    BY <1>1, <1>3, <2>1, <2>2, <2>3, OpenCycleStays
<1>4. ASSUME NEW k \in DOMAIN jobs, NEW n \in 1..BatchLimit, ObserveBegin(w, k, n)
      PROVE  /\ tx'[w].since \in Nat /\ tx'[w].since <= now' /\ now' <= tx'[w].since + Span
             /\ tx'[w].job.account = Own =>
                  /\ \A u \in queue' : u \in tx'[w].batch \/ Handled(u)'
                                       \/ tx'[w].since <= updates'[u].arrived
                  /\ tx'[w].gap \/ row'[Own].gap \/ Missing' \subseteq tx'[w].batch
  <2>1. PICK gap \in BOOLEAN, recorded \in BOOLEAN : tx' = [tx EXCEPT ![w] =
            [step |-> "polled", job |-> k, since |-> now, batch |-> Answer(row[k.account], n),
             last |-> row[k.account].last, gap |-> gap,
             fresh |-> Answer(row[k.account], n) \ Stored(k.account), recorded |-> recorded]]
    BY <1>4, PollTx
  <2>2. tx'[w].since = now /\ tx'[w].job = k
    BY <1>2, <2>1
  <2>3. now' = now
    BY <1>4, BeginsFrame DEF Begins
  <2>4. k.account = Own =>
          /\ \A u \in queue' : u \in tx'[w].batch \/ Handled(u)'
          /\ tx'[w].gap \/ row'[Own].gap \/ Missing' \subseteq tx'[w].batch
    BY <1>4, PollCovers
  <2>5. QED
    BY <1>2, <2>2, <2>3, <2>4
<1>5. CASE tx'[w] = Idle \/ MetricCalculate(w) \/ \E k \in DOMAIN jobs : MetricBegin(w, k) \/ InterpretBegin(w, k) \/ LearnBegin(w, k)
  BY <1>1, <1>2, <1>5 DEF Idle, MetricCalculate, MetricBegin, InterpretBegin, LearnBegin
<1>6. QED
  BY <1>2, <1>3, <1>4, <1>5, TxCases

-----------------------------------------------------------------------------
(* A complete version counts every reaction that came in time.             *)

\* A cycle committed at this time or later has seen all that came in time.
Covers(ingested) ==
  /\ WindowEnd + Grace <= ingested /\ ingested <= now
  /\ \A u \in 1..Len(updates) : InTime(u) => u \in unwatched \/ Handled(u)

\* What a complete version must count, or not be there at all.
Relevant(u) == InTime(u) /\ (InWindow(u) \/ updates[u].kind = "malformed")

CountsAll(v) ==
  v.availability = "AVAILABLE" =>
    /\ Covers(v.ingested)
    /\ \A u \in 1..Len(updates) :
         Relevant(u) => Excused(u) \/ u \in v.left \/ \E o \in v.events : o.update = u

CompleteInv ==
  /\ \A w \in Workers : tx[w].step = "covered" /\ tx[w].availability = "AVAILABLE" => Covers(tx[w].ingested)
  /\ \A w \in Workers : tx[w].step = "calculated" => CountsAll(tx[w].version)
  /\ \A i \in 1..Len(metrics) : CountsAll(metrics[i])

\* metric_coverage says AVAILABLE only if nothing that came in time is missing.
LEMMA CoverageIsTrue ==
  ASSUME LearnInv, RowInv, metric_coverage(row[Own]) = "AVAILABLE"
  PROVE  Covers(row[Own].ingested)
<1>1. /\ row[Own].status = "FRESH" /\ ~row[Own].gap /\ ~(now > row[Own].ingested + RetentionGap)
      /\ ~(row[Own].ingested < WindowEnd + Grace)
  BY DEF metric_coverage
<1>2. /\ now \in Nat /\ row[Own].ingested \in Nat /\ row[Own].ingested <= now
      /\ RetentionGap \in Nat /\ Span \in Nat /\ Window \in Nat /\ Grace \in Nat
  BY TimesAreNumbers
<1>3. WindowEnd \in Nat
  BY <1>2 DEF WindowEnd, LearnInv, PublicationTyped
<1>4. ASSUME NEW u \in 1..Len(updates), InTime(u) PROVE u \in unwatched \/ Handled(u)
  <2>1. updates[u].arrived \in Nat
    BY TimesTyped DEF LearnInv
  <2>2. updates[u].arrived + Span < row[Own].ingested
    BY <1>1, <1>2, <1>3, <1>4, <2>1 DEF InTime
  <2>3. u \in queue \/ u \in dropped \/ Handled(u)
    BY DEF LearnInv, CursorInv, Accounted, Handled
  <2>4. CASE u \in queue
    BY <1>1, <1>2, <2>1, <2>2, <2>4 DEF RowInv
  <2>5. CASE u \in dropped
    <3>1. \A m \in Missing : row[Own].ingested + RetentionGap < now
      BY <1>1 DEF RowInv
    <3>2. Missing = {}
      BY <1>1, <1>2, <3>1
    <3>3. QED
      BY <2>5, <3>2 DEF Missing
  <2>6. QED
    BY <2>3, <2>4, <2>5
<1>5. QED
  BY <1>1, <1>2, <1>3, <1>4 DEF Covers

\* An update of the next state is one of this one, or has just arrived.
LEMMA UpdateCases ==
  ASSUME LearnInv, LearnNext, NEW u \in 1..Len(updates')
  PROVE  u \in 1..Len(updates) \/ updates'[u].arrived = now
<1>1. IsSeq(updates) /\ Len(updates) \in Nat
  BY SeqParts DEF LearnInv, CursorInv, IsSeq
<1>2. ASSUME NEW kind, NEW t, Arrive(kind, t) PROVE u \in 1..Len(updates) \/ updates'[u].arrived = now
  <2>1. PICK e : updates' = Append(updates, e) /\ e.arrived = now
    BY <1>2 DEF Arrive
  <2>2. /\ u \in 1..Len(updates) \/ u = Len(updates) + 1
        /\ updates'[Len(updates) + 1] = e
    BY <1>1, <2>1, AppendParts
  <2>3. QED
    BY <2>1, <2>2
<1>3. QED
  BY <1>2, NextCases, BeginsFrame, ContinuesFrame, OutsideFrame

\* What is covered stays covered: a later update comes too late to be in time.
LEMMA CoversStays ==
  ASSUME LearnInv, LearnNext, Recorded, NEW n \in Nat, Covers(n)
  PROVE  /\ Covers(n)'
         /\ \A u \in 1..Len(updates') : InTime(u)' => u \in 1..Len(updates) /\ InTime(u)
<1>1. /\ now \in Nat /\ now' \in Nat /\ now <= now' /\ unwatched \subseteq unwatched'
      /\ WindowEnd' = WindowEnd
      /\ \A u \in 1..Len(updates) : InTime(u)' <=> InTime(u)
  BY WindowFixed, Growth DEF LearnInv
<1>2. Span \in Nat /\ Grace \in Nat /\ WindowEnd \in Nat
  BY TimesAreNumbers DEF WindowEnd, LearnInv, PublicationTyped
<1>3. WindowEnd + Grace <= n /\ n <= now
  BY DEF Covers
<1>4. ASSUME NEW u \in 1..Len(updates'), InTime(u)' PROVE u \in 1..Len(updates) /\ InTime(u)
  <2>1. CASE updates'[u].arrived = now
    <3>1. now + Span < WindowEnd + Grace
      BY <1>1, <1>4, <2>1 DEF InTime
    <3>2. QED
      BY <1>1, <1>2, <1>3, <3>1
  <2>2. QED
    BY <1>1, <1>4, <2>1, UpdateCases
<1>5. \A u \in 1..Len(updates') : InTime(u)' => u \in unwatched' \/ Handled(u)'
  BY <1>1, <1>4, HandledStays DEF Covers
<1>6. n <= now'
  BY <1>1, <1>3
<1>7. QED
  BY <1>1, <1>3, <1>4, <1>5, <1>6 DEF Covers

LEMMA CountsAllStays ==
  ASSUME LearnInv, LearnNext, Recorded, NEW v \in Versions, CountsAll(v)
  PROVE  CountsAll(v)'
<1>1. SUFFICES ASSUME v.availability = "AVAILABLE"
               PROVE  /\ Covers(v.ingested)'
                      /\ \A u \in 1..Len(updates') :
                           Relevant(u)' =>
                             Excused(u)' \/ u \in v.left \/ \E o \in v.events : o.update = u
  BY DEF CountsAll
<1>2. v.ingested \in Nat /\ Covers(v.ingested)
  BY <1>1 DEF CountsAll, Versions
<1>3. /\ Covers(v.ingested)'
      /\ \A u \in 1..Len(updates') : InTime(u)' => u \in 1..Len(updates) /\ InTime(u)
  BY <1>2, CoversStays
<1>4. \A u \in 1..Len(updates) : (InWindow(u)' <=> InWindow(u)) /\ updates'[u].kind = updates[u].kind
  BY WindowFixed, Growth DEF LearnInv, Extends
<1>5. ASSUME NEW u, Excused(u) PROVE Excused(u)'
  <2>1. observations \subseteq observations' /\ skipped \subseteq skipped' /\ unwatched \subseteq unwatched'
    BY Growth DEF LearnInv
  <2>2. QED
    BY <1>5, <2>1 DEF Excused
<1>6. QED
  BY <1>1, <1>3, <1>4, <1>5 DEF CountsAll, Relevant

\* What a calculation reads counts all that its coverage promises, but for what
\* full answers left in the queue.
LEMMA CalculationIsComplete ==
  ASSUME LearnInv, NEW v, v.events = Measured, v.left = behind \ Stored(Own),
         v.availability = "AVAILABLE" => Covers(v.ingested)
  PROVE  CountsAll(v)
<1>1. SUFFICES ASSUME v.availability = "AVAILABLE", NEW u \in 1..Len(updates), Relevant(u),
                      ~Excused(u), u \notin v.left
               PROVE  \E o \in v.events : o.update = u
  BY DEF CountsAll
<1>2. u \in unwatched \/ Handled(u)
  BY <1>1 DEF Covers, Relevant
<1>3. u \in behind => u \in Stored(Own)
  BY <1>1
<1>4. PICK o \in observations : o.update = u /\ o.linked
  BY <1>1, <1>2, <1>3 DEF Handled, Excused, Stored
<1>5. updates[u].kind # "malformed"
  BY <1>4 DEF LearnInv, ObservedInv
<1>6. o \in Measured
  BY <1>1, <1>4, <1>5 DEF Measured, Relevant
<1>7. QED
  BY <1>4, <1>6

LEMMA CompleteInvStep ==
  ASSUME LearnInv, RowInv, CompleteInv, LearnNext
  PROVE  CompleteInv'
<1>1. /\ JobInv /\ TxTyped /\ LogInv /\ ResultInv /\ VersionsInv /\ DOMAIN tx = Workers
      /\ IsSeq(metrics) /\ Len(metrics) \in Nat /\ Extends(metrics, metrics') /\ Len(metrics') \in Nat
  BY LogInvStep, SeqParts DEF LearnInv, LogInv, JobInv
<1>2. ASSUME NEW w \in Workers, tx[w].step \in {"covered", "calculated"}
      PROVE  Recorded /\ tx[w] # Idle
  <2>1. tx[w] # Idle /\ tx[w].job.kind = "metric"
    BY <1>1, <1>2 DEF TxTyped, Idle
  <2>2. QED
    BY <1>1, <2>1 DEF JobInv, LearnInv, KeysRefer, KeyRefers
<1>3. ASSUME NEW w \in Workers, tx[w].step = "covered"
      PROVE  tx[w].ingested \in Nat /\ (tx[w].availability = "AVAILABLE" => Covers(tx[w].ingested))
  BY <1>1, <1>3 DEF TxTyped, TxStates, Idle, CompleteInv
<1>4. ASSUME NEW w \in Workers, tx[w].step = "calculated"
      PROVE  tx[w].version \in Versions /\ CountsAll(tx[w].version)
  BY <1>1, <1>4 DEF TxTyped, TxStates, Idle, CompleteInv
<1>5. ASSUME NEW w \in Workers, tx'[w].step = "covered", tx'[w].availability = "AVAILABLE"
      PROVE  Covers(tx[w].ingested)'
  <2>1. CASE tx'[w] = tx[w]
    <3>1. PICK n \in Nat : n = tx[w].ingested /\ Covers(n)
      BY <1>3, <1>5, <2>1
    <3>2. Covers(n)' /\ tx'[w].ingested = n
      BY <1>2, <1>5, <2>1, <3>1, CoversStays
    <3>3. QED
      BY <3>2 DEF Covers
  <2>2. ASSUME NEW k \in DOMAIN jobs, MetricBegin(w, k) PROVE Covers(tx[w].ingested)'
    <3>1. tx'[w].ingested = row[Own].ingested /\ tx'[w].availability = metric_coverage(row[Own])
      BY <1>1, <2>2 DEF MetricBegin
    <3>2. PICK n \in Nat : n = row[Own].ingested /\ Covers(n)
      BY <1>5, <3>1, CoverageIsTrue, TimesAreNumbers
    <3>3. Recorded
      BY <2>2 DEF MetricBegin, Queued, LearnInv, KeysRefer, KeyRefers
    <3>4. Covers(n)' /\ tx'[w].ingested = n
      BY <3>1, <3>2, <3>3, CoversStays
    <3>5. QED
      BY <3>4 DEF Covers
  <2>3. ASSUME NEW k \in DOMAIN jobs, NEW n, ObserveBegin(w, k, n) PROVE FALSE
    <3>1. PICK t : tx' = [tx EXCEPT ![w] = t] /\ t.step = "polled"
      BY <2>3, PollOpens
    <3>2. QED
      BY <1>1, <1>5, <3>1
  <2>4. CASE tx'[w] = Idle \/ MetricCalculate(w) \/ \E k \in DOMAIN jobs : InterpretBegin(w, k) \/ LearnBegin(w, k)
    BY <1>1, <1>5, <2>4 DEF Idle, MetricCalculate, InterpretBegin, LearnBegin
  <2>5. QED
    BY <1>1, <2>1, <2>2, <2>3, <2>4, TxCases
<1>6. ASSUME NEW w \in Workers, tx'[w].step = "calculated"
      PROVE  CountsAll(tx[w].version)'
  <2>1. CASE tx'[w] = tx[w]
    <3>1. PICK v \in Versions : v = tx[w].version /\ CountsAll(v)
      BY <1>4, <1>6, <2>1
    <3>2. CountsAll(v)' /\ tx'[w].version = v
      BY <1>2, <1>6, <2>1, <3>1, CountsAllStays
    <3>3. QED
      BY <3>2 DEF CountsAll, Covers, Relevant
  <2>2. CASE MetricCalculate(w)
    <3>1. PICK v : /\ tx'[w] = [step |-> "calculated", job |-> tx[w].job, latest |-> Len(metrics), version |-> v]
                   /\ v = [availability |-> tx[w].availability, ingested |-> tx[w].ingested,
                          events |-> Measured, left |-> behind \ Stored(Own)]
                   /\ tx[w].step = "covered"
      BY <1>1, <2>2, CalculatedTx
    <3>2. /\ tx'[w].version = v /\ v.availability = tx[w].availability /\ v.ingested = tx[w].ingested
          /\ v.events = Measured /\ v.left = behind \ Stored(Own)
      BY <3>1
    <3>3. v.availability = "AVAILABLE" => Covers(v.ingested)
      BY <1>3, <3>1, <3>2
    <3>4. CountsAll(v)
      BY <3>2, <3>3, CalculationIsComplete
    <3>5. v \in Versions
      <4>1. tx[w].availability \in Availability /\ tx[w].ingested \in Nat
        BY <1>1, <3>1 DEF TxTyped, TxStates, Idle
      <4>2. Measured \subseteq ObservationRows
        BY DEF Measured, LearnInv, ObservationsTyped
      <4>3. behind \subseteq Nat \ {0}
        BY SeqParts DEF LearnInv, UpdatesTyped, CursorInv, IsSeq
      <4>4. QED
        BY <3>1, <4>1, <4>2, <4>3 DEF Versions
    <3>6. CountsAll(v)'
      BY <1>2, <3>1, <3>4, <3>5, CountsAllStays
    <3>7. QED
      BY <3>2, <3>6 DEF CountsAll, Covers, Relevant
  <2>3. QED
    BY <1>1, <1>6, <2>1, <2>2, CalculatedCases
<1>7. ASSUME NEW i \in 1..Len(metrics')
      PROVE  CountsAll(metrics[i])'
  <2>1. ASSUME NEW v \in Versions, CountsAll(v), Recorded, metrics'[i] = v PROVE CountsAll(metrics[i])'
    <3>1. CountsAll(v)'
      BY <2>1, CountsAllStays
    <3>2. QED
      BY <2>1, <3>1 DEF CountsAll, Covers, Relevant
  <2>2. CASE i \in 1..Len(metrics)
    <3>1. metrics[i] \in Versions /\ CountsAll(metrics[i]) /\ metrics'[i] = metrics[i]
      BY <1>1, <2>2 DEF VersionsInv, CompleteInv, Extends
    <3>2. Recorded
      BY <1>1, <2>2, SeqParts DEF VersionsInv
    <3>3. QED
      BY <2>1, <3>1, <3>2
  <2>3. CASE i \notin 1..Len(metrics)
    <3>1. PICK w \in Workers : MetricCommit(w) /\ metrics' # metrics
      BY <2>3, NextCases, BeginsFrame, ContinuesFrame, OutsideFrame
    <3>2. tx[w].step = "calculated" /\ metrics' = Append(metrics, tx[w].version)
      BY <3>1 DEF MetricCommit
    <3>3. metrics'[i] = tx[w].version
      BY <1>1, <2>3, <3>2, AppendParts
    <3>4. QED
      BY <1>2, <1>4, <2>1, <3>2, <3>3
  <2>4. QED
    BY <2>2, <2>3
<1>8. QED
  BY <1>5, <1>6, <1>7 DEF CompleteInv

CountInv == checkpoint \in Checkpoints /\ RowInv /\ CycleInv /\ CompleteInv

LEMMA CountInvInit == LearnInit => CountInv
<1> SUFFICES ASSUME LearnInit PROVE CountInv
  OBVIOUS
<1>1. /\ checkpoint \in Checkpoints /\ dropped = {} /\ metrics = <<>> /\ Len(metrics) = 0
      /\ row[Own] = NoRow /\ \A w \in Workers : tx[w].step = "idle"
  BY LearningAssumption DEF LearnInit, Idle
<1>2. row[Own].status # "FRESH"
  BY <1>1 DEF NoRow
<1>3. RowInv /\ CycleInv
  BY <1>1, <1>2 DEF RowInv, CycleInv
<1>4. CompleteInv
  BY <1>1 DEF CompleteInv
<1>5. QED
  BY <1>1, <1>3, <1>4 DEF CountInv

LEMMA CountInvStep == LearnInv /\ CountInv /\ [LearnNext]_learnVars => CountInv'
<1> SUFFICES ASSUME LearnInv, CountInv, [LearnNext]_learnVars PROVE CountInv'
  OBVIOUS
<1>1. CASE LearnNext
  <2>1. RowInv /\ CycleInv /\ CompleteInv /\ checkpoint' \in Checkpoints
    BY <1>1 DEF CountInv, LearnNext
  <2>2. RowInv' /\ CycleInv' /\ CompleteInv'
    BY <1>1, <2>1, RowInvStep, CycleInvStep, CompleteInvStep
  <2>3. QED
    BY <2>1, <2>2 DEF CountInv
<1>2. CASE UNCHANGED learnVars
  <2>1. /\ UNCHANGED <<now, updates, queue, dropped, unwatched, skipped, behind, publication, checkpoint>>
        /\ UNCHANGED <<row, observations, metrics, tx>>
    BY <1>2 DEF learnVars, telegramVars
  <2>2. Missing' = Missing /\ \A u : Handled(u)' <=> Handled(u)
    BY <2>1 DEF Missing, Handled
  <2>3. RowInv' /\ CycleInv'
    BY <2>1, <2>2 DEF CountInv, RowInv, CycleInv
  <2>4. WindowEnd' = WindowEnd
    BY <2>1 DEF WindowEnd
  <2>5. \A u : (InTime(u)' <=> InTime(u)) /\ (InWindow(u)' <=> InWindow(u)) /\ (Excused(u)' <=> Excused(u))
    BY <2>1, <2>4 DEF InTime, InWindow, Excused
  <2>6. CompleteInv'
    BY <2>1, <2>2, <2>4, <2>5 DEF CountInv, CompleteInv, CountsAll, Covers, Relevant
  <2>7. QED
    BY <2>1, <2>3, <2>6 DEF CountInv
<1>3. QED
  BY <1>1, <1>2

LEMMA CountInvHolds == LearnSpec => []CountInv
BY CountInvInit, CountInvStep, LearnInvHolds, PTL DEF LearnSpec

LEMMA CompleteFromInv == LearnInv /\ CountInv => CompleteCountsAll
<1> SUFFICES ASSUME LearnInv, CountInv, NEW i \in DOMAIN metrics, metrics[i].availability = "AVAILABLE",
                    NEW u \in DOMAIN updates, Relevant(u)
             PROVE  Excused(u) \/ u \in metrics[i].left \/ \E o \in metrics[i].events : o.update = u
  BY DEF CompleteCountsAll, Relevant
<1>1. i \in 1..Len(metrics) /\ u \in 1..Len(updates)
  BY SeqParts DEF LearnInv, LogInv, CursorInv
<1>2. CountsAll(metrics[i])
  BY <1>1 DEF CountInv, CompleteInv
<1>3. QED
  BY <1>1, <1>2 DEF CountsAll

\* A version that claims to be complete counts every reaction of the window
\* that came in time, is not excused and was not left in Telegram's queue by a
\* full answer, whatever crashed, overlapped, was lost or was dropped by
\* Telegram, for any number of updates in an answer, and any retention gap and any longest
\* transaction that together stay within Telegram's retention
\* (metric_coverage, TelegramObservationHandler's gap).
THEOREM CompleteIsComplete == LearnSpec => []CompleteCountsAll
BY CompleteFromInv, LearnInvHolds, CountInvHolds, PTL

-----------------------------------------------------------------------------
(* The class of a result is true of what happened.                         *)

\* The reactions that a complete version must count.
LEMMA MissedAreCounted ==
  ASSUME LearnInv, CountInv, NEW i \in 1..Len(metrics), metrics[i].availability = "AVAILABLE",
         NEW M, M = {u \in Reactions : InTime(u) /\ ~Excused(u) /\ u \notin metrics[i].left}
  PROVE  Cardinality(M) \in Nat /\ Cardinality(M) <= Count(metrics[i])
<1> DEFINE E == metrics[i].events
           g == [u \in M |-> CHOOSE o \in E : o.update = u]
<1>1. CursorInv /\ ObservedInv /\ VersionsInv /\ IsSeq(metrics)
  BY DEF LearnInv, LogInv
<1>2. IsFiniteSet(E)
  BY <1>1, EventsAreReactions DEF VersionsInv
<1>3. \A u \in M : \E o \in E : o.update = u
  <2>1. DOMAIN metrics = 1..Len(metrics)
    BY <1>1, SeqParts
  <2>2. QED
    BY <2>1, CompleteFromInv DEF CompleteCountsAll, Reactions
<1> HIDE DEF E
<1>4. \A u \in M : g[u] \in E /\ g[u].update = u
  BY <1>3
<1>5. g \in Injection(M, E)
  <2>1. g \in [M -> E]
    BY <1>4
  <2>2. \A t, u \in M : g[t] = g[u] => t = u
    BY <1>4
  <2> HIDE DEF g
  <2>3. QED
    BY <2>1, <2>2 DEF Injection, IsInjective
<1> HIDE DEF g
<1>6. IsFiniteSet(M) /\ Cardinality(M) <= Cardinality(E)
  BY <1>2, <1>5, FS_Injection
<1>7. QED
  BY <1>6, FS_CardinalityType DEF Count, E

\* There were enough reactions for a SUCCESS or a WEAK_SIGNAL, and no more than
\* its class allows that came in time, are not excused and were not left in the
\* queue by a full answer, whatever thresholds the checkpoint has (interpret_checkpoint).
THEOREM VerdictsAreTrue == LearnSpec => []VerdictTrue
<1>1. LearnInv /\ CountInv => VerdictTrue
  <2> SUFFICES ASSUME LearnInv, CountInv, NEW i \in DOMAIN results
               PROVE  LET class == results[i].class
                          version == metrics[results[i].metric]
                          missed == Cardinality({u \in Reactions :
                                      InTime(u) /\ ~Excused(u) /\ u \notin version.left})
                      IN /\ class = "SUCCESS" => Cardinality(Reactions) >= checkpoint.success
                         /\ class = "WEAK_SIGNAL" => /\ Cardinality(Reactions) >= checkpoint.weak
                                                     /\ missed < checkpoint.success
                         /\ class = "FAILURE" => missed = 0
    BY DEF VerdictTrue
  <2>1. i \in 1..Len(results) /\ CursorInv /\ ObservedInv /\ VersionsInv /\ ClassInv
    <3>1. IsSeq(results)
      BY DEF LearnInv, ResultInv, IsSeq
    <3>2. QED
      BY <3>1, SeqParts DEF LearnInv
  <2>2. PICK n \in 1..Len(metrics) :
          n = results[i].metric /\ results[i].class = Interpretation(metrics[n])
    BY <2>1 DEF ClassInv
  <2>3. PICK M : M = {u \in Reactions : InTime(u) /\ ~Excused(u) /\ u \notin metrics[n].left}
    OBVIOUS
  <2>4. /\ Count(metrics[n]) \in Nat /\ Count(metrics[n]) <= Cardinality(Reactions)
        /\ Cardinality(Reactions) \in Nat
    BY <2>1, EventsAreReactions, ReactionsFinite DEF VersionsInv, Count
  <2>5. metrics[n].availability = "AVAILABLE" =>
          Cardinality(M) \in Nat /\ Cardinality(M) <= Count(metrics[n])
    BY <2>3, MissedAreCounted
  <2>6. checkpoint.weak \in Nat /\ checkpoint.success \in Nat
    BY LearningAssumption DEF CountInv
  <2>7. CASE results[i].class = "SUCCESS"
    BY <2>2, <2>4, <2>6, <2>7 DEF Interpretation
  <2>8. CASE results[i].class = "WEAK_SIGNAL"
    <3>1. /\ metrics[n].availability = "AVAILABLE" /\ Count(metrics[n]) >= checkpoint.weak
          /\ ~(Count(metrics[n]) >= checkpoint.success)
      BY <2>2, <2>8 DEF Interpretation
    <3>2. Cardinality(Reactions) >= checkpoint.weak /\ Cardinality(M) < checkpoint.success
      BY <2>4, <2>5, <2>6, <3>1
    <3>3. QED
      BY <2>2, <2>3, <2>8, <3>2
  <2>9. CASE results[i].class = "FAILURE"
    <3>1. metrics[n].availability = "AVAILABLE" /\ Count(metrics[n]) = 0
      BY <2>2, <2>9 DEF Interpretation
    <3>2. Cardinality(M) = 0
      BY <2>5, <3>1
    <3>3. QED
      BY <2>2, <2>3, <2>9, <3>2
  <2>10. QED
    BY <2>7, <2>8, <2>9
<1>2. QED
  BY <1>1, LearnInvHolds, CountInvHolds, PTL
=============================================================================
