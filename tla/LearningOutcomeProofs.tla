------------------------ MODULE LearningOutcomeProofs ------------------------
(***************************************************************************)
(* Proofs about what LearningLoop counts, interprets and learns, for any   *)
(* accounts, workers, thresholds, times and bounds, and any number of      *)
(* disturbances.                                                           *)
(***************************************************************************)
EXTENDS LearningLoopProofs

-----------------------------------------------------------------------------
(* What a step does to transactions, jobs and logs.                        *)

IsSeq(s) == \E S : s \in Seq(S)

\* An append-only table keeps its rows.
Extends(s, t) == Len(s) <= Len(t) /\ \A i \in 1..Len(s) : t[i] = s[i]

LEMMA SeqParts ==
  ASSUME NEW s, IsSeq(s)
  PROVE  Len(s) \in Nat /\ DOMAIN s = 1..Len(s) /\ Extends(s, s) /\ (s = <<>> <=> Len(s) = 0)
<1>1. PICK S : s \in Seq(S)
  BY DEF IsSeq
<1>2. QED
  BY <1>1 DEF Extends

LEMMA AppendParts ==
  ASSUME NEW s, IsSeq(s), NEW e, NEW t, t = Append(s, e)
  PROVE  /\ IsSeq(t) /\ Len(s) \in Nat /\ Len(t) = Len(s) + 1
         /\ t[Len(s) + 1] = e /\ Extends(s, t)
         /\ \A i \in 1..Len(t) : i \in 1..Len(s) \/ i = Len(s) + 1
<1>1. PICK S : s \in Seq(S)
  BY DEF IsSeq
<1>2. s \in Seq(S \cup {e}) /\ e \in S \cup {e} /\ Len(s) \in Nat
  BY <1>1
<1>3. t \in Seq(S \cup {e}) /\ Len(t) = Len(s) + 1 /\ t[Len(s) + 1] = e
        /\ \A i \in 1..Len(s) : t[i] = s[i]
  BY <1>2
<1>4. QED
  BY <1>2, <1>3 DEF IsSeq, Extends

\* A worker's transaction stays, ends, or is opened or moved on by one of these.
LEMMA TxCases ==
  ASSUME JobInv, LearnNext, NEW w \in Workers
  PROVE  \/ tx'[w] = tx[w] \/ tx'[w] = Idle
         \/ \E k \in DOMAIN jobs : \/ \E n \in 1..BatchLimit : ObserveBegin(w, k, n)
                                   \/ MetricBegin(w, k) \/ InterpretBegin(w, k) \/ LearnBegin(w, k)
         \/ MetricCalculate(w)
<1>1. DOMAIN tx = Workers
  BY DEF JobInv
<1>2. CASE Outside
  BY <1>2 DEF Outside, Tick, Arrive, Send, Record, configure_telegram_observation,
       enqueue_telegram_observation_job, enqueue_checkpoint_interpretation_job
<1>3. ASSUME NEW v \in Workers, NEW k \in DOMAIN jobs, Begins(v, k)
      PROVE  \/ tx'[w] = tx[w]
             \/ \E j \in DOMAIN jobs : \/ \E n \in 1..BatchLimit : ObserveBegin(w, j, n)
                                       \/ MetricBegin(w, j) \/ InterpretBegin(w, j) \/ LearnBegin(w, j)
  <2>1. CASE (\E n : ObserveUnavailable(v, k, n) \/ ObserveRaises(v, k, n)) \/ InterpretRaises(v, k)
    BY <2>1 DEF ObserveUnavailable, ObserveRaises, InterpretRaises
  <2>2. ASSUME NEW n \in 1..BatchLimit, ObserveBegin(v, k, n)
        PROVE  \/ tx'[w] = tx[w]
               \/ \E j \in DOMAIN jobs, m \in 1..BatchLimit : ObserveBegin(w, j, m)
    <3>1. PICK t : tx' = [tx EXCEPT ![v] = t]
      BY <2>2, PollOpens
    <3>2. QED
      BY <1>1, <2>2, <3>1
  <2>3. CASE MetricBegin(v, k) \/ InterpretBegin(v, k) \/ LearnBegin(v, k)
    <3>1. PICK t : tx' = [tx EXCEPT ![v] = t]
      BY <2>3 DEF MetricBegin, InterpretBegin, LearnBegin
    <3>2. QED
      BY <1>1, <2>3, <3>1
  <2>4. QED
    BY <1>3, <2>1, <2>2, <2>3 DEF Begins
<1>4. ASSUME NEW v \in Workers, Continues(v)
      PROVE  tx'[w] = tx[w] \/ tx'[w] = Idle \/ MetricCalculate(w)
  <2>1. CASE MetricCalculate(v)
    <3>1. PICK t : tx' = [tx EXCEPT ![v] = t]
      BY <2>1 DEF MetricCalculate
    <3>2. QED
      BY <1>1, <2>1, <3>1
  <2>2. CASE ~MetricCalculate(v)
    <3>1. tx' = [tx EXCEPT ![v] = Idle]
      BY <1>4, <2>2, Zenon DEF Continues, ObserveCommit, ObserveConflicts, MetricCommit,
           InterpretCommit, LearnCommit, Crash
    <3>2. QED
      BY <1>1, <3>1
  <2>3. QED
    BY <2>1, <2>2
<1>5. QED
  BY <1>2, <1>3, <1>4, NextCases

-----------------------------------------------------------------------------
\* Why there is a new job.
Created(k) ==
  \/ \E a \in Accounts, n \in Nat \ {0} : k = Key("observe", a, n)
  \/ \E w \in Workers, recorded \in BOOLEAN :
       /\ ObserveCommit(w, recorded)
       /\ k = Key("metric", Own, tx[w].job.n) /\ tx[w].job.account = Own
       /\ recorded \/ \E o \in observations : o.linked
  \/ \E n \in DOMAIN metrics : k = Key("interpret", Own, n)
  \/ \E w \in Workers : InterpretCommit(w) /\ k = LearnKey(Len(results) + 1)

\* An attempt that begins and, with the status, how it went.
Attempted(k, status) ==
  \E w \in Workers :
    \/ status = "RUNNING" /\ tx'[w] # Idle /\ tx'[w].job = k
    \/ status = "QUEUED" /\ jobs'[k].left # 0
    \/ status = "FAILED" /\ jobs'[k].left = 0
    \/ status = "FAILED" /\ ((\E n : ObserveRaises(w, k, n)) \/ InterpretRaises(w, k))

\* A transaction that ends and, with the status, how its job does.
Finished(k, status) ==
  \E w \in Workers :
    /\ tx[w] # Idle /\ tx[w].job = k /\ tx'[w] = Idle
    /\ \/ status = "QUEUED" /\ jobs'[k].left # 0
       \/ status = "FAILED" /\ jobs'[k].left = 0
       \/ status = "FAILED" /\ (ObserveConflicts(w) \/ MetricCommit(w))
       \/ /\ status = "SUCCEEDED"
          /\ \/ \E recorded \in BOOLEAN : ObserveCommit(w, recorded)
             \/ MetricCommit(w) \/ InterpretCommit(w) \/ LearnCommit(w)

\* What becomes of a job in a step.
JobChange(k) ==
  \/ k \in DOMAIN jobs /\ jobs'[k] = jobs[k]
  \/ k \notin DOMAIN jobs /\ jobs'[k] = [status |-> "QUEUED", left |-> Attempts[k.kind]] /\ Created(k)
  \/ /\ k \in DOMAIN jobs /\ jobs[k].status = "QUEUED"
     /\ jobs'[k] = [status |-> jobs'[k].status, left |-> jobs[k].left - 1]
     /\ Attempted(k, jobs'[k].status)
  \/ /\ k \in DOMAIN jobs /\ jobs[k].status = "RUNNING"
     /\ jobs'[k] = [status |-> jobs'[k].status, left |-> jobs[k].left]
     /\ Finished(k, jobs'[k].status)

LEMMA EnqueueChange ==
  ASSUME JobInv, NEW key, Created(key), jobs' = create_job(jobs, key)
  PROVE  DOMAIN jobs \subseteq DOMAIN jobs' /\ \A k \in DOMAIN jobs' : JobChange(k)
<1>1. /\ DOMAIN jobs' = DOMAIN jobs \cup {key} /\ \A i \in DOMAIN jobs : jobs'[i] = jobs[i]
      /\ key \notin DOMAIN jobs => jobs'[key] = [status |-> "QUEUED", left |-> Attempts[key.kind]]
  <2>1. /\ DOMAIN create_job(jobs, key) = DOMAIN jobs \cup {key}
        /\ \A i \in DOMAIN jobs : create_job(jobs, key)[i] = jobs[i]
        /\ key \notin DOMAIN jobs =>
             create_job(jobs, key)[key] = [status |-> "QUEUED", left |-> Attempts[key.kind]]
    BY CreateJobParts
  <2>2. QED
    BY <2>1
<1>2. key \notin DOMAIN jobs => JobChange(key)
  BY <1>1 DEF JobChange
<1>3. \A i \in DOMAIN jobs : JobChange(i)
  BY <1>1 DEF JobChange
<1>4. QED
  BY <1>1, <1>2, <1>3

\* The job that is ended or claimed is this one.
LEMMA EndedJob ==
  ASSUME NEW js, NEW k \in DOMAIN js, IsJob(js[k]), NEW status
  PROVE  Ended(js, k, status)[k] = [status |-> status, left |-> js[k].left]
BY DEF Ended, IsJob

LEMMA ClaimedJob ==
  ASSUME NEW js, NEW k \in DOMAIN js
  PROVE  Claimed(js, k)[k] = [status |-> "RUNNING", left |-> js[k].left - 1]
BY DEF Claimed

LEMMA BeginChange ==
  ASSUME JobInv, NEW w \in Workers, NEW key \in DOMAIN jobs, Begins(w, key)
  PROVE  DOMAIN jobs' = DOMAIN jobs /\ \A k \in DOMAIN jobs' : JobChange(k)
<1>1. PICK claimed : claimed = Claimed(jobs, key)
  OBVIOUS
<1>2. /\ DOMAIN claimed = DOMAIN jobs /\ \A i \in DOMAIN jobs : i # key => claimed[i] = jobs[i]
      /\ IsJob(claimed[key]) /\ claimed[key] = [status |-> "RUNNING", left |-> jobs[key].left - 1]
  BY <1>1, ClaimedParts, ClaimedJob
<1>3. jobs[key].status = "QUEUED" /\ tx[w] = Idle /\ DOMAIN tx = Workers
  BY DEF Begins, ObserveBegin, ObserveUnavailable, ObserveRaises, MetricBegin, InterpretBegin,
     InterpretRaises, LearnBegin, Queued, JobInv
<1>4. ASSUME NEW status, jobs' = Ended(claimed, key, status)
      PROVE  /\ DOMAIN jobs' = DOMAIN jobs /\ \A i \in DOMAIN jobs : i # key => jobs'[i] = jobs[i]
             /\ jobs'[key] = [status |-> status, left |-> jobs[key].left - 1]
  <2>1. /\ DOMAIN jobs' = DOMAIN claimed /\ \A i \in DOMAIN claimed : i # key => jobs'[i] = claimed[i]
        /\ jobs'[key] = [status |-> status, left |-> claimed[key].left]
    BY <1>2, <1>4, EndedParts, EndedJob
  <2>2. claimed[key].left = jobs[key].left - 1
    BY <1>2
  <2>3. QED
    BY <1>2, <2>1, <2>2
<1>5. CASE (\E n : ObserveBegin(w, key, n)) \/ MetricBegin(w, key) \/ InterpretBegin(w, key) \/ LearnBegin(w, key)
  <2>1. jobs' = claimed
    BY <1>1, <1>5, Zenon DEF ObserveBegin, MetricBegin, InterpretBegin, LearnBegin
  <2>2. PICK t : t.job = key /\ t.step # "idle" /\ tx' = [tx EXCEPT ![w] = t]
    <3>1. CASE \E n : ObserveBegin(w, key, n)
      BY <3>1, PollOpens
    <3>2. CASE MetricBegin(w, key) \/ InterpretBegin(w, key) \/ LearnBegin(w, key)
      BY <3>2 DEF MetricBegin, InterpretBegin, LearnBegin
    <3>3. QED
      BY <1>5, <3>1, <3>2
  <2>3. tx'[w] = t /\ t # Idle
    BY <1>3, <2>2 DEF Idle
  <2>4. Attempted(key, "RUNNING")
    BY <2>2, <2>3 DEF Attempted
  <2>5. QED
    BY <1>2, <1>3, <2>1, <2>4 DEF JobChange
<1>6. CASE \E n : ObserveUnavailable(w, key, n)
  <2>1. jobs' = Retried(claimed, key)
    BY <1>1, <1>6 DEF ObserveUnavailable
  <2>2. PICK status : /\ jobs' = Ended(claimed, key, status)
                      /\ \/ status = "FAILED" /\ claimed[key].left = 0
                         \/ status = "QUEUED" /\ claimed[key].left # 0
    BY <2>1 DEF Retried
  <2>3. /\ DOMAIN jobs' = DOMAIN jobs /\ \A i \in DOMAIN jobs : i # key => jobs'[i] = jobs[i]
        /\ jobs'[key] = [status |-> status, left |-> jobs[key].left - 1]
    BY <1>4, <2>2
  <2>4. jobs'[key].status = status /\ jobs'[key].left = claimed[key].left
    BY <1>2, <2>3
  <2>5. Attempted(key, status)
    BY <2>2, <2>4 DEF Attempted
  <2>6. JobChange(key)
    BY <1>3, <2>3, <2>4, <2>5 DEF JobChange
  <2>7. QED
    BY <2>3, <2>6 DEF JobChange
<1>7. CASE (\E n : ObserveRaises(w, key, n)) \/ InterpretRaises(w, key)
  <2>1. jobs' = Ended(claimed, key, "FAILED")
    BY <1>1, <1>7 DEF ObserveRaises, InterpretRaises
  <2>2. Attempted(key, "FAILED")
    BY <1>7 DEF Attempted
  <2>3. /\ DOMAIN jobs' = DOMAIN jobs /\ \A i \in DOMAIN jobs : i # key => jobs'[i] = jobs[i]
        /\ jobs'[key] = [status |-> "FAILED", left |-> jobs[key].left - 1]
    BY <1>4, <2>1
  <2>4. JobChange(key)
    BY <1>3, <2>2, <2>3 DEF JobChange
  <2>5. QED
    BY <2>3, <2>4 DEF JobChange
<1>8. QED
  BY <1>5, <1>6, <1>7 DEF Begins

\* An open transaction ends with its job, and may create another.
LEMMA EndChange ==
  ASSUME JobInv, NEW w \in Workers, tx[w] # Idle, tx' = [tx EXCEPT ![w] = Idle], NEW status,
         \/ jobs' = Ended(jobs, tx[w].job, status)
         \/ \E k : Created(k) /\ jobs' = create_job(Ended(jobs, tx[w].job, status), k),
         jobs'[tx[w].job] = [status |-> status, left |-> jobs[tx[w].job].left]
           => Finished(tx[w].job, status)
  PROVE  DOMAIN jobs \subseteq DOMAIN jobs' /\ \A k \in DOMAIN jobs' : JobChange(k)
<1>1. PICK key \in DOMAIN jobs : key = tx[w].job
  BY DEF JobInv
<1>2. jobs[key].status = "RUNNING" /\ IsJob(jobs[key])
  BY <1>1 DEF JobInv
<1>3. PICK ended : ended = Ended(jobs, key, status)
  OBVIOUS
<1>4. /\ DOMAIN ended = DOMAIN jobs /\ \A i \in DOMAIN jobs : i # key => ended[i] = jobs[i]
      /\ ended[key] = [status |-> status, left |-> jobs[key].left]
  BY <1>2, <1>3, EndedParts, EndedJob
<1>5. CASE jobs' = ended
  <2>1. Finished(key, status)
    BY <1>1, <1>4, <1>5
  <2>2. QED
    BY <1>2, <1>4, <1>5, <2>1 DEF JobChange
<1>6. ASSUME NEW k, Created(k), jobs' = create_job(ended, k)
      PROVE  DOMAIN jobs \subseteq DOMAIN jobs' /\ \A i \in DOMAIN jobs' : JobChange(i)
  <2>1. /\ DOMAIN jobs' = DOMAIN jobs \cup {k} /\ \A i \in DOMAIN jobs : jobs'[i] = ended[i]
        /\ k \notin DOMAIN jobs => jobs'[k] = [status |-> "QUEUED", left |-> Attempts[k.kind]]
    <3>1. /\ DOMAIN create_job(ended, k) = DOMAIN ended \cup {k}
          /\ \A i \in DOMAIN ended : create_job(ended, k)[i] = ended[i]
          /\ k \notin DOMAIN ended =>
               create_job(ended, k)[k] = [status |-> "QUEUED", left |-> Attempts[k.kind]]
      BY CreateJobParts
    <3>2. QED
      BY <1>4, <1>6, <3>1
  <2>2. Finished(key, status)
    BY <1>1, <1>4, <2>1
  <2>3. JobChange(key)
    BY <1>2, <1>4, <2>1, <2>2 DEF JobChange
  <2>4. \A i \in DOMAIN jobs : JobChange(i)
    BY <1>4, <2>1, <2>3 DEF JobChange
  <2>5. k \notin DOMAIN jobs => JobChange(k)
    BY <1>6, <2>1 DEF JobChange
  <2>6. QED
    BY <2>1, <2>4, <2>5
<1>7. QED
  BY <1>1, <1>3, <1>5, <1>6

LEMMA ContinueChange ==
  ASSUME JobInv, NEW w \in Workers, Continues(w)
  PROVE  DOMAIN jobs \subseteq DOMAIN jobs' /\ \A k \in DOMAIN jobs' : JobChange(k)
<1>1. CASE MetricCalculate(w)
  BY <1>1 DEF MetricCalculate, JobChange
<1>2. ASSUME ~MetricCalculate(w)
      PROVE  tx[w] # Idle /\ tx' = [tx EXCEPT ![w] = Idle] /\ tx'[w] = Idle
  <2>1. tx[w].step # "idle" /\ tx' = [tx EXCEPT ![w] = Idle]
    BY <1>2 DEF Continues, ObserveCommit, ObserveConflicts, MetricCommit, InterpretCommit,
         LearnCommit, Crash
  <2>2. DOMAIN tx = Workers
    BY DEF JobInv
  <2>3. QED
    BY <2>1, <2>2 DEF Idle
<1>3. PICK key : key = tx[w].job
  OBVIOUS
<1>4. ASSUME NEW recorded \in BOOLEAN, ObserveCommit(w, recorded), ~MetricCalculate(w)
      PROVE  DOMAIN jobs \subseteq DOMAIN jobs' /\ \A k \in DOMAIN jobs' : JobChange(k)
  <2>1. Finished(key, "SUCCEEDED")
    BY <1>2, <1>3, <1>4 DEF Finished
  <2>2. PICK measured : measured <=> /\ key.account = Own
                                     /\ recorded \/ \E o \in observations :
                                                      /\ o.account = key.account /\ o.linked
                                                      /\ o.update \in tx[w].batch
    BY Zenon
  <2>3. jobs' = IF measured THEN create_job(Ended(jobs, key, "SUCCEEDED"), Key("metric", key.account, key.n))
                ELSE Ended(jobs, key, "SUCCEEDED")
    BY <1>3, <1>4, <2>2, Zenon DEF ObserveCommit
  <2>4. measured => Created(Key("metric", Own, key.n)) /\ key.account = Own
    BY <1>3, <1>4, <2>2, Zenon DEF Created
  <2>5. \/ jobs' = Ended(jobs, key, "SUCCEEDED")
        \/ \E k : Created(k) /\ jobs' = create_job(Ended(jobs, key, "SUCCEEDED"), k)
    BY <2>3, <2>4, Zenon
  <2>6. QED
    BY <1>2, <1>3, <1>4, <2>1, <2>5, EndChange
<1>5. CASE InterpretCommit(w) /\ ~MetricCalculate(w)
  <2>1. Finished(key, "SUCCEEDED")
    BY <1>2, <1>3, <1>5 DEF Finished
  <2>2. jobs' = create_job(Ended(jobs, key, "SUCCEEDED"), LearnKey(Len(results) + 1))
    BY <1>3, <1>5 DEF InterpretCommit
  <2>3. Created(LearnKey(Len(results) + 1))
    BY <1>5 DEF Created
  <2>4. QED
    BY <1>2, <1>3, <1>5, <2>1, <2>2, <2>3, EndChange
<1>6. CASE MetricCommit(w) /\ ~MetricCalculate(w)
  <2>1. Finished(key, "SUCCEEDED") /\ Finished(key, "FAILED")
    BY <1>2, <1>3, <1>6 DEF Finished
  <2>2. PICK status \in {"SUCCEEDED", "FAILED"} : jobs' = Ended(jobs, key, status)
    BY <1>3, <1>6 DEF MetricCommit
  <2>3. QED
    BY <1>2, <1>3, <1>6, <2>1, <2>2, EndChange
<1>7. CASE LearnCommit(w) /\ ~MetricCalculate(w)
  <2>1. Finished(key, "SUCCEEDED")
    BY <1>2, <1>3, <1>7 DEF Finished
  <2>2. jobs' = Ended(jobs, key, "SUCCEEDED")
    BY <1>3, <1>7 DEF LearnCommit
  <2>3. QED
    BY <1>2, <1>3, <1>7, <2>1, <2>2, EndChange
<1>8. CASE ObserveConflicts(w) /\ ~MetricCalculate(w)
  <2>1. Finished(key, "FAILED")
    BY <1>2, <1>3, <1>8 DEF Finished
  <2>2. jobs' = Ended(jobs, key, "FAILED")
    BY <1>3, <1>8 DEF ObserveConflicts
  <2>3. QED
    BY <1>2, <1>3, <1>8, <2>1, <2>2, EndChange
<1>9. CASE Crash(w) /\ ~MetricCalculate(w)
  <2>1. jobs' = Retried(jobs, key)
    BY <1>3, <1>9 DEF Crash
  <2>2. PICK status : /\ jobs' = Ended(jobs, key, status)
                      /\ \/ status = "FAILED" /\ jobs[key].left = 0
                         \/ status = "QUEUED" /\ jobs[key].left # 0
    BY <2>1 DEF Retried
  <2>3. ASSUME jobs'[key] = [status |-> status, left |-> jobs[key].left] PROVE Finished(key, status)
    <3>1. jobs'[key].left = jobs[key].left
      BY <2>3
    <3>2. QED
      BY <1>2, <1>3, <1>9, <2>2, <3>1 DEF Finished
  <2>4. QED
    BY <1>2, <1>3, <1>9, <2>2, <2>3, EndChange
<1>10. QED
  BY <1>1, <1>4, <1>5, <1>6, <1>7, <1>8, <1>9, Zenon DEF Continues

\* Every job of the next state is one of this one, or created by the step.
LEMMA JobCases ==
  ASSUME JobInv, LearnNext, IsSeq(metrics)
  PROVE  DOMAIN jobs \subseteq DOMAIN jobs' /\ \A k \in DOMAIN jobs' : JobChange(k)
<1>1. CASE UNCHANGED jobs
  BY <1>1 DEF JobChange
<1>2. CASE Tick \/ (\E kind \in Kinds, t \in 0..now : Arrive(kind, t)) \/ Send \/ Record
  BY <1>1, <1>2 DEF Tick, Arrive, Send, Record
<1>3. CASE Owner
  <2>1. ASSUME NEW a \in Accounts, NEW n \in 1..MaxCycles[a], enqueue_telegram_observation_job(a, n)
        PROVE  DOMAIN jobs \subseteq DOMAIN jobs' /\ \A k \in DOMAIN jobs' : JobChange(k)
    <3>1. n \in Nat \ {0}
      BY LearningAssumption
    <3>2. Created(Key("observe", a, n))
      BY <3>1 DEF Created
    <3>3. QED
      BY <2>1, <3>2, EnqueueChange DEF enqueue_telegram_observation_job
  <2>2. ASSUME NEW n \in DOMAIN metrics, enqueue_checkpoint_interpretation_job(n)
        PROVE  DOMAIN jobs \subseteq DOMAIN jobs' /\ \A k \in DOMAIN jobs' : JobChange(k)
    <3>1. Created(Key("interpret", Own, n))
      BY DEF Created
    <3>2. QED
      BY <2>2, <3>1, EnqueueChange DEF enqueue_checkpoint_interpretation_job
  <2>3. ASSUME NEW a, NEW types, configure_telegram_observation(a, types) PROVE UNCHANGED jobs
    BY <2>3 DEF configure_telegram_observation
  <2>4. QED
    BY <1>1, <1>3, <2>1, <2>2, <2>3 DEF Owner
<1>4. ASSUME NEW w \in Workers, Step(w) \/ Crash(w)
      PROVE  (\E k \in DOMAIN jobs : Begins(w, k)) \/ Continues(w)
  BY <1>4 DEF Step, Begins, Continues
<1>5. QED
  BY <1>2, <1>3, <1>4, BeginChange, ContinueChange DEF LearnNext

-----------------------------------------------------------------------------
(* What each step leaves alone, and what only grows.                       *)

LogInv == IsSeq(metrics) /\ IsSeq(learnings)

\* An attempt that begins writes nothing but Telegram's queue.
LEMMA BeginsFrame ==
  ASSUME NEW w, NEW k, Begins(w, k)
  PROVE  /\ UNCHANGED <<now, publication, experiment, row, observations, metrics, results, learnings>>
         /\ UNCHANGED <<updates, dropped, unwatched>>
         /\ skipped \subseteq skipped' /\ behind \subseteq behind' /\ queue' \subseteq queue
<1>1. UNCHANGED <<now, publication, experiment, row, observations, metrics, results, learnings>>
  BY Zenon DEF Begins, ObserveBegin, ObserveUnavailable, ObserveRaises, MetricBegin, InterpretBegin,
     InterpretRaises, LearnBegin
<1>2. (\E r, n : Poll(r, n)) \/ UNCHANGED telegramVars
  BY Zenon DEF Begins, ObserveBegin, ObserveUnavailable, ObserveRaises, MetricBegin, InterpretBegin,
     InterpretRaises, LearnBegin, telegramVars
<1>3. QED
  BY <1>1, <1>2 DEF Poll, Unconfirmed, telegramVars

\* A transaction that goes on or ends leaves Telegram and the publication alone.
LEMMA ContinuesFrame ==
  ASSUME NEW w, Continues(w)
  PROVE  /\ UNCHANGED <<now, updates, queue, dropped, unwatched, skipped, behind, publication>>
         /\ (\E recorded \in BOOLEAN : ObserveCommit(w, recorded)) \/ UNCHANGED <<row, observations>>
         /\ MetricCommit(w) \/ UNCHANGED metrics
         /\ InterpretCommit(w) \/ UNCHANGED <<results, experiment>>
         /\ LearnCommit(w) \/ UNCHANGED learnings
<1>1. ASSUME NEW recorded \in BOOLEAN, ObserveCommit(w, recorded)
      PROVE  /\ UNCHANGED <<now, updates, queue, dropped, unwatched, skipped, behind, publication>>
             /\ UNCHANGED <<metrics, results, experiment, learnings>>
  BY <1>1, Zenon DEF ObserveCommit, telegramVars
<1>2. CASE ObserveConflicts(w)
  BY <1>2 DEF ObserveConflicts, telegramVars
<1>3. CASE MetricCalculate(w) \/ MetricCommit(w)
  BY <1>3 DEF MetricCalculate, MetricCommit, telegramVars
<1>4. CASE InterpretCommit(w) \/ LearnCommit(w) \/ Crash(w)
  BY <1>4 DEF InterpretCommit, LearnCommit, Crash, telegramVars
<1>5. QED
  BY <1>1, <1>2, <1>3, <1>4, Zenon DEF Continues

\* The owner's and Telegram's steps write no version, result, learning or
\* observation.
LEMMA OutsideFrame ==
  ASSUME Outside
  PROVE  /\ UNCHANGED <<observations, metrics, results, learnings, skipped, behind, tx>>
         /\ Tick \/ UNCHANGED <<now, dropped, unwatched>>
         /\ (\E kind \in Kinds, t \in 0..now : Arrive(kind, t)) \/ UNCHANGED updates
         /\ (\E a \in Accounts : \E types : configure_telegram_observation(a, types)) \/ UNCHANGED row
         /\ Send \/ Record \/ UNCHANGED publication
         /\ Record \/ UNCHANGED experiment
<1>1. CASE Tick
  BY <1>1 DEF Tick
<1>2. ASSUME NEW kind \in Kinds, NEW t \in 0..now, Arrive(kind, t)
      PROVE  UNCHANGED <<observations, metrics, results, learnings, skipped, behind, tx, now, dropped,
                         unwatched, row, publication, experiment>>
  BY <1>2 DEF Arrive
<1>3. CASE Send \/ Record
  BY <1>3 DEF Send, Record, telegramVars
<1>4. ASSUME NEW a, NEW types, configure_telegram_observation(a, types)
      PROVE  UNCHANGED <<observations, metrics, results, learnings, skipped, behind, tx, now, dropped,
                         unwatched, updates, publication, experiment>>
  BY <1>4, Zenon DEF configure_telegram_observation, telegramVars
<1>5. CASE (\E a, n : enqueue_telegram_observation_job(a, n)) \/ \E n : enqueue_checkpoint_interpretation_job(n)
  BY <1>5 DEF enqueue_telegram_observation_job, enqueue_checkpoint_interpretation_job, telegramVars
<1>6. QED
  BY <1>1, <1>2, <1>3, <1>4, <1>5, Zenon DEF Outside

LEMMA LogInvStep ==
  ASSUME LogInv, ResultInv, LearnNext
  PROVE  /\ LogInv' /\ IsSeq(results) /\ IsSeq(results')
         /\ Extends(metrics, metrics') /\ Extends(results, results') /\ Extends(learnings, learnings')
         /\ Len(metrics') \in Nat /\ Len(results') \in Nat /\ Len(learnings') \in Nat
<1>1. IsSeq(metrics) /\ IsSeq(results) /\ IsSeq(learnings)
  BY DEF LogInv, ResultInv, IsSeq
<1>2. metrics' = metrics \/ \E v : metrics' = Append(metrics, v)
  BY NextCases, BeginsFrame, OutsideFrame, ContinuesFrame DEF MetricCommit
<1>3. results' = results \/ \E r : results' = Append(results, r)
  BY NextCases, BeginsFrame, OutsideFrame, ContinuesFrame DEF InterpretCommit
<1>4. learnings' = learnings \/ \E r : learnings' = Append(learnings, r)
  BY NextCases, BeginsFrame, OutsideFrame, ContinuesFrame DEF LearnCommit
<1>5. ASSUME NEW s, IsSeq(s), NEW t, t = s \/ \E e : t = Append(s, e)
      PROVE  IsSeq(t) /\ Extends(s, t) /\ Len(t) \in Nat
  <2>1. CASE t = s
    BY <1>5, <2>1, SeqParts
  <2>2. ASSUME NEW e, t = Append(s, e) PROVE IsSeq(t) /\ Extends(s, t) /\ Len(t) \in Nat
    <3>1. IsSeq(t) /\ Extends(s, t)
      BY <1>5, <2>2, AppendParts
    <3>2. QED
      BY <3>1, SeqParts
  <2>3. QED
    BY <1>5, <2>1, <2>2
<1>6. QED
  BY <1>1, <1>2, <1>3, <1>4, <1>5 DEF LogInv

\* Nothing that happened is forgotten, and a recorded publication is fixed.
LEMMA Growth ==
  ASSUME CursorInv, ResultInv, LearnNext
  PROVE  /\ now \in Nat /\ now' \in Nat /\ now <= now' /\ checkpoint' = checkpoint
         /\ Extends(updates, updates') /\ Len(updates) \in Nat /\ Len(updates') \in Nat
         /\ observations \subseteq observations' /\ skipped \subseteq skipped' /\ behind \subseteq behind'
         /\ unwatched \subseteq unwatched' /\ dropped \subseteq dropped'
         /\ publication.stage # "unsent" => publication'.at = publication.at
                                            /\ publication'.stage # "unsent"
         /\ publication.stage = "recorded" => publication' = publication
<1>1. now \in Nat /\ IsSeq(updates) /\ checkpoint' = checkpoint
  BY DEF CursorInv, IsSeq, LearnNext
<1>2. Len(updates) \in Nat /\ Extends(updates, updates)
  BY <1>1, SeqParts
<1>3. CASE Outside
  <2>1. /\ now' \in Nat /\ now <= now' /\ unwatched \subseteq unwatched' /\ dropped \subseteq dropped'
    BY <1>1, <1>3, OutsideFrame DEF Tick
  <2>2. updates' = updates \/ \E e : updates' = Append(updates, e)
    BY <1>3, OutsideFrame DEF Arrive
  <2>3. Extends(updates, updates') /\ Len(updates') \in Nat
    BY <1>1, <1>2, <2>2, AppendParts
  <2>4. /\ publication.stage # "unsent" => publication'.at = publication.at
                                           /\ publication'.stage # "unsent"
        /\ publication.stage = "recorded" => publication' = publication
    BY <1>3, OutsideFrame DEF Send, Record, ResultInv
  <2>5. QED
    BY <1>1, <1>2, <1>3, <2>1, <2>3, <2>4, OutsideFrame
<1>4. ASSUME NEW w \in Workers, NEW k \in DOMAIN jobs, Begins(w, k)
      PROVE  /\ UNCHANGED <<now, updates, observations, unwatched, dropped, publication>>
             /\ skipped \subseteq skipped' /\ behind \subseteq behind'
  BY <1>4, BeginsFrame
<1>5. ASSUME NEW w \in Workers, Continues(w)
      PROVE  /\ UNCHANGED <<now, updates, unwatched, dropped, skipped, behind, publication>>
             /\ observations \subseteq observations'
  BY <1>5, ContinuesFrame DEF ObserveCommit
<1>6. QED
  BY <1>1, <1>2, <1>3, <1>4, <1>5, NextCases

-----------------------------------------------------------------------------
(* Types.                                                                  *)

JobStatus == {"QUEUED", "RUNNING", "SUCCEEDED", "FAILED"}

\* A job that is queued has an attempt left.
JobsTyped ==
  \A k \in DOMAIN jobs :
    /\ k \in JobKeys
    /\ jobs[k].status \in JobStatus
    /\ jobs[k].left \in 0..Attempts[k.kind]
    /\ jobs[k].status = "QUEUED" => jobs[k].left # 0

\* What each kind of transaction handles.
TxTyped ==
  \A w \in Workers :
    /\ tx[w] \in TxStates
    /\ tx[w].step = "polled" => tx[w].job.kind = "observe"
    /\ tx[w].step \in {"covered", "calculated"} => tx[w].job.kind = "metric"
    /\ tx[w].step = "interpreted" => tx[w].job.kind = "interpret"
    /\ tx[w].step = "reviewed" => tx[w].job.kind = "learn"

RowsTyped ==
  \A a \in Accounts :
    /\ row[a].status \in {"NONE", "UNKNOWN", "FRESH"}
    /\ row[a].ingested \in 0..now /\ row[a].started \in 0..now

ObservationsTyped == observations \subseteq ObservationRows

LEMMA JobsTypedStep ==
  ASSUME JobInv, JobsTyped, LogInv, ResultInv, LearnNext
  PROVE  JobsTyped'
<1>1. SUFFICES ASSUME NEW k \in DOMAIN jobs'
               PROVE  /\ k \in JobKeys
                      /\ jobs'[k].status \in JobStatus
                      /\ jobs'[k].left \in 0..Attempts[k.kind]
                      /\ jobs'[k].status = "QUEUED" => jobs'[k].left # 0
  BY DEF JobsTyped
<1>2. JobChange(k)
  BY JobCases DEF LogInv
<1>3. \A i \in JobKeys : Attempts[i.kind] \in Nat \ {0}
  <2>1. \A x \in DOMAIN Attempts : Attempts[x] \in Nat \ {0}
    BY DEF Attempts
  <2>2. QED
    BY <2>1 DEF JobKeys
<1>4. CASE k \in DOMAIN jobs /\ jobs'[k] = jobs[k]
  BY <1>4 DEF JobsTyped
<1>5. CASE Created(k) /\ jobs'[k] = [status |-> "QUEUED", left |-> Attempts[k.kind]]
  <2>1. {"observe", "metric", "interpret", "learn"} \subseteq DOMAIN Attempts /\ Own \in Accounts
    BY LearningAssumption DEF Attempts
  <2>2. ASSUME NEW kind \in DOMAIN Attempts, NEW a \in Accounts, NEW n \in Nat \ {0}
        PROVE  Key(kind, a, n) \in JobKeys
    BY DEF Key, JobKeys
  <2>3. ASSUME NEW w \in Workers, tx[w] # Idle PROVE tx[w].job.n \in Nat \ {0}
    BY <2>3 DEF JobInv, JobsTyped, JobKeys
  <2>4. ASSUME NEW w \in Workers, NEW recorded, ObserveCommit(w, recorded) PROVE tx[w] # Idle
    BY <2>4 DEF ObserveCommit, Idle
  <2>5. DOMAIN metrics \subseteq Nat \ {0} /\ Len(results) + 1 \in Nat \ {0}
    <3>1. IsSeq(metrics) /\ IsSeq(results)
      BY DEF LogInv, ResultInv, IsSeq
    <3>2. QED
      BY <3>1, SeqParts
  <2>6. k \in JobKeys
    BY <1>5, <2>1, <2>2, <2>3, <2>4, <2>5 DEF Created, LearnKey
  <2>7. QED
    BY <1>3, <1>5, <2>6 DEF JobStatus
<1>6. CASE /\ k \in DOMAIN jobs /\ jobs[k].status = "QUEUED"
           /\ jobs'[k] = [status |-> jobs'[k].status, left |-> jobs[k].left - 1]
           /\ Attempted(k, jobs'[k].status)
  <2>1. /\ k \in JobKeys /\ jobs[k].left \in 0..Attempts[k.kind] /\ jobs[k].left # 0
    BY <1>6 DEF JobsTyped
  <2>2. jobs'[k].left = jobs[k].left - 1
    BY <1>6
  <2>3. /\ jobs'[k].status \in JobStatus /\ (jobs'[k].status = "QUEUED" => jobs'[k].left # 0)
    BY <1>6 DEF Attempted, JobStatus
  <2>4. QED
    BY <1>3, <2>1, <2>2, <2>3
<1>7. CASE /\ k \in DOMAIN jobs /\ jobs[k].status = "RUNNING"
           /\ jobs'[k] = [status |-> jobs'[k].status, left |-> jobs[k].left]
           /\ Finished(k, jobs'[k].status)
  <2>1. k \in JobKeys /\ jobs[k].left \in 0..Attempts[k.kind]
    BY <1>7 DEF JobsTyped
  <2>2. jobs'[k].left = jobs[k].left
    BY <1>7
  <2>3. /\ jobs'[k].status \in JobStatus /\ (jobs'[k].status = "QUEUED" => jobs'[k].left # 0)
    BY <1>7 DEF Finished, JobStatus
  <2>4. QED
    BY <2>1, <2>2, <2>3
<1>8. QED
  BY <1>2, <1>4, <1>5, <1>6, <1>7 DEF JobChange

\* The rows are written by their owner and by cycles that commit.
LEMMA RowsTypedStep ==
  ASSUME CursorInv, ResultInv, JobInv, RowsTyped, LearnNext
  PROVE  RowsTyped'
<1>1. now \in Nat /\ now' \in Nat /\ now <= now' /\ DOMAIN row = Accounts
  BY Growth DEF CursorInv
<1>2. ASSUME NEW a, NEW r, row' = [row EXCEPT ![a] = r], a \in Accounts =>
               r.status \in {"NONE", "UNKNOWN", "FRESH"} /\ r.ingested \in 0..now /\ r.started \in 0..now
      PROVE  RowsTyped'
  BY <1>1, <1>2 DEF RowsTyped
<1>3. CASE UNCHANGED row
  BY <1>1, <1>3 DEF RowsTyped
<1>4. ASSUME NEW a \in Accounts, NEW types, configure_telegram_observation(a, types) PROVE RowsTyped'
  <2>1. PICK r : r = [status |-> "UNKNOWN", started |-> now, last |-> 0, ingested |-> 0,
                      gap |-> FALSE, types |-> types]
    OBVIOUS
  <2>2. PICK q : q = [row[a] EXCEPT !.types = types]
    OBVIOUS
  <2>3. row' = [row EXCEPT ![a] = r] \/ row' = [row EXCEPT ![a] = q]
    BY <1>4, <2>1, <2>2 DEF configure_telegram_observation
  <2>4. r.status = "UNKNOWN" /\ r.ingested = 0 /\ r.started = now
    BY <2>1
  <2>5. q.status = row[a].status /\ q.ingested = row[a].ingested /\ q.started = row[a].started
    BY <2>2
  <2>6. QED
    BY <1>1, <1>2, <2>3, <2>4, <2>5 DEF RowsTyped
<1>5. ASSUME NEW w \in Workers, NEW recorded, ObserveCommit(w, recorded) PROVE RowsTyped'
  <2>1. PICK a, r : row' = [row EXCEPT ![a] = r] /\ r = Written(row[a], tx[w])
    BY <1>5, Zenon DEF ObserveCommit
  <2>2. r.status = "FRESH" /\ r.ingested = now /\ r.started = row[a].started
    BY <2>1 DEF Written
  <2>3. QED
    BY <1>1, <1>2, <2>1, <2>2 DEF RowsTyped
<1>6. QED
  BY <1>3, <1>4, <1>5, NextCases, BeginsFrame, ContinuesFrame, OutsideFrame

\* What a cycle stores: an observation of its account for each update of its
\* batch that has none, linked only to a publication that is recorded.
LEMMA Stores ==
  ASSUME NEW w \in Workers, NEW recorded \in BOOLEAN, ObserveCommit(w, recorded)
  PROVE  LET a == tx[w].job.account IN
         /\ tx[w].step = "polled" /\ tx[w] # Idle
         /\ observations' = observations \cup Normalized(tx[w], recorded)
         /\ \A u \in tx[w].batch : \E o \in observations' : o.update = u
         /\ \E l \in BOOLEAN :
              /\ l => recorded /\ a = Own
              /\ \A o \in Normalized(tx[w], recorded) :
                   /\ o.update \in tx[w].batch \ Stored(a)
                   /\ o = [account |-> a, update |-> o.update, linked |-> l, by |-> tx[w].job.n]
<1>1. tx[w].step = "polled" /\ tx[w] # Idle /\ observations' = observations \cup Normalized(tx[w], recorded)
  BY DEF ObserveCommit, Idle
<1>2. PICK l \in BOOLEAN : l = (recorded /\ tx[w].job.account = Own)
  OBVIOUS
<1>3. /\ \A u \in tx[w].batch \ Stored(tx[w].job.account) :
           \E o \in Normalized(tx[w], recorded) : o.update = u
      /\ \A o \in Normalized(tx[w], recorded) :
           /\ o.update \in tx[w].batch \ Stored(tx[w].job.account)
           /\ o = [account |-> tx[w].job.account, update |-> o.update, linked |-> l, by |-> tx[w].job.n]
  BY <1>2, NormalizedParts
<1>4. \A u \in Stored(tx[w].job.account) : \E o \in observations : o.update = u
  BY DEF Stored
<1>5. \A u \in tx[w].batch : \E o \in observations' : o.update = u
  BY <1>1, <1>3, <1>4
<1>6. QED
  BY <1>1, <1>2, <1>3, <1>5

LEMMA ObservationsTypedStep ==
  ASSUME JobInv, JobsTyped, CursorInv, ObservationsTyped, LearnNext
  PROVE  ObservationsTyped'
<1>1. CASE UNCHANGED observations
  BY <1>1 DEF ObservationsTyped
<1>2. ASSUME NEW w \in Workers, NEW recorded \in BOOLEAN, ObserveCommit(w, recorded)
      PROVE  ObservationsTyped'
  <2>1. PICK l \in BOOLEAN : \A o \in Normalized(tx[w], recorded) :
               /\ o.update \in tx[w].batch
               /\ o = [account |-> tx[w].job.account, update |-> o.update, linked |-> l, by |-> tx[w].job.n]
    BY <1>2, Stores
  <2>2. tx[w].job \in JobKeys /\ tx[w].batch \subseteq 1..Len(updates) /\ Len(updates) \in Nat
    BY <1>2, Stores DEF JobInv, JobsTyped, CursorInv, GoodBatch
  <2>3. tx[w].job.account \in Accounts /\ tx[w].job.n \in Nat /\ tx[w].batch \subseteq Nat \ {0}
    BY <2>2 DEF JobKeys
  <2>4. ASSUME NEW a \in Accounts, NEW u \in Nat \ {0}, NEW b \in Nat
        PROVE  [account |-> a, update |-> u, linked |-> l, by |-> b] \in ObservationRows
    BY DEF ObservationRows
  <2>5. \A o \in Normalized(tx[w], recorded) : o \in ObservationRows
    BY <2>1, <2>3, <2>4
  <2>6. observations' = observations \cup Normalized(tx[w], recorded)
    BY <1>2, Stores
  <2>7. QED
    BY <2>5, <2>6 DEF ObservationsTyped
<1>3. QED
  BY <1>1, <1>2, NextCases, BeginsFrame, ContinuesFrame, OutsideFrame

\* The transaction that a poll opens, with its flags.
LEMMA PollTx ==
  ASSUME NEW w, NEW k, NEW n, ObserveBegin(w, k, n)
  PROVE  \E gap, recorded \in BOOLEAN :
           /\ gap = (row[k.account].status = "FRESH" /\ now > row[k.account].ingested + RetentionGap)
           /\ recorded = (publication.stage = "recorded")
           /\ tx' = [tx EXCEPT ![w] =
                [step |-> "polled", job |-> k, since |-> now, batch |-> Answer(row[k.account], n),
                 last |-> row[k.account].last, gap |-> gap,
                 fresh |-> Answer(row[k.account], n) \ Stored(k.account), recorded |-> recorded]]
BY Zenon DEF ObserveBegin

LEMMA TxTypedStep ==
  ASSUME JobInv, JobsTyped, CursorInv, LogInv, ResultInv, RowsTyped, ObservationsTyped, TxTyped,
         behind \subseteq 1..Len(updates), LearnNext
  PROVE  TxTyped'
<1>1. SUFFICES ASSUME NEW w \in Workers
               PROVE  /\ tx'[w] \in TxStates
                      /\ tx'[w].step = "polled" => tx'[w].job.kind = "observe"
                      /\ tx'[w].step \in {"covered", "calculated"} => tx'[w].job.kind = "metric"
                      /\ tx'[w].step = "interpreted" => tx'[w].job.kind = "interpret"
                      /\ tx'[w].step = "reviewed" => tx'[w].job.kind = "learn"
  BY DEF TxTyped
<1>2. DOMAIN tx = Workers /\ now \in Nat /\ Len(updates) \in Nat /\ Own \in Accounts
  BY LearningAssumption DEF CursorInv
<1>3. CASE tx'[w] = tx[w]
  BY <1>3 DEF TxTyped
<1>4. CASE tx'[w] = Idle
  BY <1>4 DEF TxStates, Idle
<1>5. ASSUME NEW k \in DOMAIN jobs, NEW n \in 1..BatchLimit, ObserveBegin(w, k, n)
      PROVE  tx'[w] \in TxStates /\ tx'[w].step = "polled" /\ tx'[w].job.kind = "observe"
  <2>1. PICK gap \in BOOLEAN, recorded \in BOOLEAN :
          tx' = [tx EXCEPT ![w] =
            [step |-> "polled", job |-> k, since |-> now, batch |-> Answer(row[k.account], n),
             last |-> row[k.account].last, gap |-> gap,
             fresh |-> Answer(row[k.account], n) \ Stored(k.account), recorded |-> recorded]]
    BY <1>5, PollTx
  <2>2. PICK t : t = [step |-> "polled", job |-> k, since |-> now, batch |-> Answer(row[k.account], n),
                      last |-> row[k.account].last, gap |-> gap,
                      fresh |-> Answer(row[k.account], n) \ Stored(k.account), recorded |-> recorded]
    OBVIOUS
  <2>3. tx'[w] = t
    BY <1>2, <2>1, <2>2
  <2>4. k \in JobKeys /\ k.kind = "observe" /\ k.account \in Accounts
    BY <1>5 DEF JobsTyped, ObserveBegin, Queued, JobKeys
  <2>5. row[k.account].last \in Nat /\ Answer(row[k.account], n) \in SUBSET (Nat \ {0})
    <3>1. row[k.account].last \in 0..Len(updates) /\ queue \subseteq 1..Len(updates)
      BY <2>4 DEF CursorInv, GoodCursor
    <3>2. Answer(row[k.account], n) \subseteq queue
      BY DEF Answer, Wanted, Unconfirmed
    <3>3. row[k.account].last \in Nat
      BY <1>2, <3>1
    <3>4. \A u \in queue : u \in Nat \ {0}
      BY <1>2, <3>1
    <3>5. QED
      BY <3>2, <3>3, <3>4, Zenon
  <2>6. t \in [step : {"polled"}, job : JobKeys, since : Nat, batch : SUBSET (Nat \ {0}), last : Nat,
               gap : BOOLEAN, fresh : SUBSET (Nat \ {0}), recorded : BOOLEAN]
    BY <1>2, <2>2, <2>4, <2>5
  <2>7. QED
    BY <2>2, <2>3, <2>4, <2>6 DEF TxStates
<1>6. ASSUME NEW k \in DOMAIN jobs, MetricBegin(w, k)
      PROVE  tx'[w] \in TxStates /\ tx'[w].step = "covered" /\ tx'[w].job.kind = "metric"
  <2>1. PICK t : /\ t = [step |-> "covered", job |-> k,
                         availability |-> metric_coverage(row[Own]), ingested |-> row[Own].ingested]
                 /\ tx' = [tx EXCEPT ![w] = t]
    BY <1>6 DEF MetricBegin
  <2>2. k \in JobKeys /\ k.kind = "metric"
    BY <1>6 DEF JobsTyped, MetricBegin, Queued
  <2>3. metric_coverage(row[Own]) \in Availability /\ row[Own].ingested \in Nat
    BY <1>2 DEF metric_coverage, Availability, RowsTyped
  <2>4. QED
    BY <1>2, <2>1, <2>2, <2>3 DEF TxStates
<1>7. ASSUME NEW k \in DOMAIN jobs, InterpretBegin(w, k) \/ LearnBegin(w, k)
      PROVE  /\ tx'[w] \in TxStates
             /\ \/ tx'[w].step = "interpreted" /\ tx'[w].job.kind = "interpret"
                \/ tx'[w].step = "reviewed" /\ tx'[w].job.kind = "learn"
  <2>1. k \in JobKeys
    BY DEF JobsTyped
  <2>2. CASE InterpretBegin(w, k)
    <3>1. PICK t : t = [step |-> "interpreted", job |-> k, seen |-> Len(results)]
                   /\ tx' = [tx EXCEPT ![w] = t] /\ k.kind = "interpret"
      BY <2>2 DEF InterpretBegin, Queued
    <3>2. Len(results) \in Nat
      BY SeqParts DEF ResultInv, IsSeq
    <3>3. QED
      BY <1>2, <2>1, <3>1, <3>2 DEF TxStates
  <2>3. CASE LearnBegin(w, k)
    <3>1. PICK t : t = [step |-> "reviewed", job |-> k] /\ tx' = [tx EXCEPT ![w] = t] /\ k.kind = "learn"
      BY <2>3 DEF LearnBegin, Queued
    <3>2. QED
      BY <1>2, <2>1, <3>1 DEF TxStates
  <2>4. QED
    BY <1>7, <2>2, <2>3
<1>8. ASSUME MetricCalculate(w)
      PROVE  tx'[w] \in TxStates /\ tx'[w].step = "calculated" /\ tx'[w].job.kind = "metric"
  <2>1. PICK e, l, v, t :
          /\ e \in SUBSET observations /\ l \in SUBSET behind
          /\ v = [availability |-> tx[w].availability, ingested |-> tx[w].ingested, events |-> e,
                 left |-> l]
          /\ t = [step |-> "calculated", job |-> tx[w].job, latest |-> Len(metrics), version |-> v]
          /\ tx' = [tx EXCEPT ![w] = t]
    <3>1. PICK e, l : e = {o \in observations : o.linked /\ InWindow(o.update)} /\ l = behind \ Stored(Own)
      OBVIOUS
    <3>2. e \in SUBSET observations /\ l \in SUBSET behind
      BY <3>1
    <3>3. tx' = [tx EXCEPT ![w] =
            [step |-> "calculated", job |-> tx[w].job, latest |-> Len(metrics),
             version |-> [availability |-> tx[w].availability, ingested |-> tx[w].ingested,
                          events |-> e, left |-> l]]]
      BY <1>8, <3>1, Zenon DEF MetricCalculate
    <3>4. QED
      BY <3>2, <3>3
  <2>2. tx[w].step = "covered" /\ tx[w] \in TxStates /\ tx[w].job.kind = "metric"
    BY <1>8 DEF MetricCalculate, TxTyped
  <2>3. tx[w].job \in JobKeys /\ tx[w].availability \in Availability /\ tx[w].ingested \in Nat
    BY <2>2 DEF TxStates, Idle
  <2>4. Len(metrics) \in Nat
    BY SeqParts DEF LogInv
  <2>5. v \in Versions
    <3>1. l \in SUBSET (Nat \ {0})
      BY <1>2, <2>1
    <3>2. QED
      BY <2>1, <2>3, <3>1 DEF Versions, ObservationsTyped
  <2>6. QED
    BY <1>2, <2>1, <2>2, <2>3, <2>4, <2>5 DEF TxStates
<1>9. QED
  BY <1>3, <1>4, <1>5, <1>6, <1>7, <1>8, TxCases

PublicationTyped ==
  /\ publication.stage \in {"unsent", "sent", "recorded"} /\ publication.at \in 0..now
  /\ experiment \in {"DRAFT", "RUNNING", "COMPLETE"}
  /\ publication.stage = "recorded" => experiment # "DRAFT"

LEMMA PublicationTypedStep ==
  ASSUME CursorInv, ResultInv, PublicationTyped, LearnNext
  PROVE  PublicationTyped'
<1>1. now \in Nat /\ now' \in Nat /\ now <= now'
  BY Growth
<1>2. CASE UNCHANGED <<publication, experiment>>
  BY <1>1, <1>2 DEF PublicationTyped
<1>3. CASE Send
  <2>1. publication'.stage = "sent" /\ publication'.at = now /\ experiment' = experiment
    BY <1>3 DEF Send
  <2>2. QED
    BY <1>1, <2>1 DEF PublicationTyped
<1>4. CASE Record
  <2>1. publication'.stage = "recorded" /\ publication'.at = publication.at /\ experiment' = "RUNNING"
    BY <1>4 DEF Record, ResultInv
  <2>2. QED
    BY <1>1, <2>1 DEF PublicationTyped
<1>5. ASSUME NEW w, InterpretCommit(w), UNCHANGED publication PROVE PublicationTyped'
  BY <1>1, <1>5 DEF InterpretCommit, PublicationTyped
<1>6. QED
  BY <1>2, <1>3, <1>4, <1>5, NextCases, BeginsFrame, ContinuesFrame, OutsideFrame

UpdatesTyped ==
  /\ \A u \in 1..Len(updates) : updates[u].time <= updates[u].arrived /\ updates[u].arrived <= now
  /\ dropped \cup unwatched \cup skipped \cup behind \subseteq 1..Len(updates)

LEMMA TimesTyped ==
  ASSUME CursorInv, NEW u \in 1..Len(updates)
  PROVE  updates[u].kind \in Kinds /\ updates[u].time \in Nat /\ updates[u].arrived \in Nat
<1>1. updates[u] \in Updates
  BY DEF CursorInv
<1>2. QED
  BY <1>1 DEF Updates

LEMMA UpdatesTypedStep ==
  ASSUME CursorInv, ResultInv, UpdatesTyped, LearnNext
  PROVE  UpdatesTyped'
<1>1. /\ now \in Nat /\ now' \in Nat /\ now <= now' /\ Len(updates) \in Nat /\ Len(updates') \in Nat
      /\ Extends(updates, updates') /\ updates \in Seq(Updates) /\ queue \subseteq 1..Len(updates)
  BY Growth DEF CursorInv
<1>2. \A u \in 1..Len(updates) : updates[u].time \in Nat /\ updates[u].arrived \in Nat
  BY TimesTyped
<1>3. \A u \in 1..Len(updates) :
        /\ u \in 1..Len(updates') /\ updates'[u] = updates[u]
        /\ updates'[u].time <= updates'[u].arrived /\ updates'[u].arrived <= now'
  BY <1>1, <1>2 DEF UpdatesTyped, Extends
<1>4. \A u \in 1..Len(updates') : updates'[u].time <= updates'[u].arrived /\ updates'[u].arrived <= now'
  <2>1. CASE UNCHANGED updates
    BY <1>3, <2>1
  <2>2. ASSUME NEW kind \in Kinds, NEW t \in 0..now, Arrive(kind, t)
        PROVE  \A u \in 1..Len(updates') : updates'[u].time <= updates'[u].arrived /\ updates'[u].arrived <= now'
    <3>1. PICK e : e = [kind |-> kind, time |-> t, arrived |-> now]
      OBVIOUS
    <3>2. updates' = Append(updates, e) /\ e.time <= e.arrived /\ e.arrived <= now'
      BY <1>1, <2>2, <3>1 DEF Arrive
    <3>3. IsSeq(updates)
      BY <1>1 DEF IsSeq
    <3>4. updates'[Len(updates) + 1] = e /\ \A i \in 1..Len(updates') : i \in 1..Len(updates) \/ i = Len(updates) + 1
      BY <3>2, <3>3, AppendParts
    <3>5. QED
      BY <1>3, <3>2, <3>4
  <2>3. QED
    BY <2>1, <2>2, NextCases, BeginsFrame, ContinuesFrame, OutsideFrame
<1>5. dropped' \cup unwatched' \cup skipped' \cup behind' \subseteq 1..Len(updates)
  <2>1. CASE UNCHANGED <<dropped, unwatched, skipped, behind>>
    BY <2>1 DEF UpdatesTyped
  <2>2. CASE Tick
    BY <1>1, <2>2 DEF Tick, UpdatesTyped
  <2>3. ASSUME NEW w, NEW k, Begins(w, k) PROVE dropped' \cup unwatched' \cup skipped' \cup behind' \subseteq 1..Len(updates)
    <3>1. (\E r, n : Poll(r, n)) \/ UNCHANGED telegramVars
      BY <2>3, Zenon DEF Begins, ObserveBegin, ObserveUnavailable, ObserveRaises, MetricBegin,
         InterpretBegin, InterpretRaises, LearnBegin, telegramVars
    <3>2. QED
      BY <1>1, <2>1, <3>1 DEF Poll, Wanted, Unconfirmed, UpdatesTyped, telegramVars
  <2>4. QED
    BY <2>1, <2>2, <2>3, NextCases, ContinuesFrame, OutsideFrame
<1>6. QED
  BY <1>1, <1>3, <1>4, <1>5 DEF UpdatesTyped

-----------------------------------------------------------------------------
(* What is stored, and what the jobs are about.                            *)

Recorded == publication.stage = "recorded"

\* An account stores an update once, and only what can be ingested; what it
\* links is the recorded publication's.
ObservedInv ==
  /\ \A o \in observations : /\ o.update \in 1..Len(updates) /\ updates[o.update].kind # "malformed"
                             /\ o.linked => o.account = Own /\ Recorded
  /\ \A o, p \in observations : o.account = p.account /\ o.update = p.update => o = p
  /\ \A w \in Workers : tx[w].step = "polled" =>
       /\ tx[w].recorded => Recorded
       /\ \A u \in tx[w].batch : updates[u].kind # "malformed"

\* What is stored stays as good as it is while the rest of the system grows.
LEMMA ObservedStays ==
  ASSUME CursorInv, ResultInv, ObservedInv, LearnNext
  PROVE  /\ Recorded => Recorded'
         /\ \A u \in 1..Len(updates) : u \in 1..Len(updates') /\ updates'[u] = updates[u]
         /\ \A o \in observations : /\ o.update \in 1..Len(updates') /\ updates'[o.update].kind # "malformed"
                                    /\ o.linked => o.account = Own /\ Recorded'
<1>1. Recorded => Recorded'
  BY Growth DEF Recorded
<1>2. \A u \in 1..Len(updates) : u \in 1..Len(updates') /\ updates'[u] = updates[u]
  BY Growth DEF Extends
<1>3. QED
  BY <1>1, <1>2 DEF ObservedInv

\* What an open cycle knew stays true.
LEMMA PolledStays ==
  ASSUME JobInv, JobsTyped, CursorInv, ResultInv, ObservedInv, LearnNext, NEW w \in Workers,
         tx'[w].step = "polled"
  PROVE  /\ tx'[w].recorded => Recorded'
         /\ \A u \in tx'[w].batch : updates'[u].kind # "malformed"
<1>1. /\ Recorded => Recorded'
      /\ \A u \in 1..Len(updates) : updates'[u] = updates[u]
  BY ObservedStays
<1>2. CASE tx'[w] = tx[w]
  <2>1. tx[w].batch \subseteq 1..Len(updates)
    BY <1>2 DEF CursorInv, GoodBatch
  <2>2. (tx[w].recorded => Recorded) /\ \A u \in tx[w].batch : updates[u].kind # "malformed"
    BY <1>2 DEF ObservedInv
  <2>3. QED
    BY <1>1, <1>2, <2>1, <2>2
<1>3. ASSUME NEW k \in DOMAIN jobs, NEW n \in 1..BatchLimit, ObserveBegin(w, k, n)
      PROVE  (tx'[w].recorded => Recorded') /\ \A u \in tx'[w].batch : updates'[u].kind # "malformed"
  <2>1. PICK t : /\ tx' = [tx EXCEPT ![w] = t] /\ t.batch = Answer(row[k.account], n)
                 /\ t.recorded = (publication.stage = "recorded")
    BY <1>3, PollOpens
  <2>2. tx'[w] = t
    BY <2>1 DEF JobInv
  <2>3. Answer(row[k.account], n) \subseteq 1..Len(updates)
    BY DEF Answer, Wanted, Unconfirmed, CursorInv
  <2>4. \A u \in Answer(row[k.account], n) : updates[u].kind # "malformed"
    BY <1>3 DEF ObserveBegin
  <2>5. \A u \in t.batch : updates'[u].kind # "malformed"
    BY <1>1, <2>1, <2>3, <2>4
  <2>6. t.recorded => Recorded
    BY <2>1, Zenon DEF Recorded
  <2>7. QED
    BY <1>1, <2>2, <2>5, <2>6
<1>4. CASE tx'[w] = Idle \/ MetricCalculate(w) \/ \E k \in DOMAIN jobs : MetricBegin(w, k) \/ InterpretBegin(w, k) \/ LearnBegin(w, k)
  <2>1. DOMAIN tx = Workers
    BY DEF JobInv
  <2>2. tx'[w].step # "polled"
    BY <1>4, <2>1 DEF Idle, MetricCalculate, MetricBegin, InterpretBegin, LearnBegin
  <2>3. QED
    BY <2>2
<1>5. QED
  BY <1>2, <1>3, <1>4, TxCases

LEMMA ObservedInvStep ==
  ASSUME JobInv, JobsTyped, CursorInv, ResultInv, ObservedInv, LearnNext
  PROVE  ObservedInv'
<1>1. \A w \in Workers : tx'[w].step = "polled" =>
        /\ tx'[w].recorded => Recorded'
        /\ \A u \in tx'[w].batch : updates'[u].kind # "malformed"
  BY PolledStays
<1>2. CASE UNCHANGED observations
  BY <1>1, <1>2, ObservedStays DEF ObservedInv
<1>3. ASSUME NEW w \in Workers, NEW recorded \in BOOLEAN, ObserveCommit(w, recorded) PROVE ObservedInv'
  <2>1. PICK a, N : a = tx[w].job.account /\ N = Normalized(tx[w], recorded)
    OBVIOUS
  <2>2. PICK l \in BOOLEAN :
          /\ l => recorded /\ a = Own
          /\ \A o \in N : /\ o.update \in tx[w].batch \ Stored(a)
                          /\ o = [account |-> a, update |-> o.update, linked |-> l, by |-> tx[w].job.n]
    BY <1>3, <2>1, Stores
  <2>3. tx[w].step = "polled" /\ observations' = observations \cup N
    BY <1>3, <2>1, Stores
  <2>4. recorded => Recorded
    <3>1. recorded \in {tx[w].recorded, publication.stage = "recorded"}
      BY <1>3, Zenon DEF ObserveCommit
    <3>2. tx[w].recorded => Recorded
      BY <2>3 DEF ObservedInv
    <3>3. QED
      BY <3>1, <3>2, Zenon DEF Recorded
  <2>5. \A o \in N : o.account = a /\ o.linked = l
    BY <2>2
  <2>6. \A o \in N : o.linked => o.account = Own /\ Recorded'
    BY <2>2, <2>4, <2>5, ObservedStays
  <2>7. \A o \in N : o.update \in 1..Len(updates') /\ updates'[o.update].kind # "malformed"
    <3>1. tx[w].batch \subseteq 1..Len(updates)
      BY <2>3 DEF CursorInv, GoodBatch
    <3>2. \A u \in tx[w].batch : updates[u].kind # "malformed"
      BY <2>3 DEF ObservedInv
    <3>3. QED
      BY <2>2, <3>1, <3>2, ObservedStays
  <2>8. \A p \in observations, o \in N : ~(o.account = p.account /\ o.update = p.update)
    BY <2>2, <2>5 DEF Stored
  <2>9. \A o, p \in N : o.update = p.update => o = p
    BY <2>2
  <2>10. \A o, p \in observations' : o.account = p.account /\ o.update = p.update => o = p
    BY <2>3, <2>8, <2>9 DEF ObservedInv
  <2>11. QED
    BY <1>1, <2>3, <2>6, <2>7, <2>10, ObservedStays DEF ObservedInv
<1>4. QED
  BY <1>2, <1>3, NextCases, BeginsFrame, ContinuesFrame, OutsideFrame

\* What a job's key names exists: a metric job comes from a successful cycle of
\* the recorded publication's account, an interpretation has its version and a
\* learning job its result.
KeyRefers(k) ==
  /\ k.kind = "metric" => /\ k = Key("metric", Own, k.n) /\ Recorded
                          /\ Key("observe", Own, k.n) \in DOMAIN jobs
                          /\ jobs[Key("observe", Own, k.n)].status = "SUCCEEDED"
  /\ k.kind = "interpret" => k.n \in 1..Len(metrics)
  /\ k.kind = "learn" => k = LearnKey(k.n) /\ k.n \in 1..Len(results)

KeysRefer == \A k \in DOMAIN jobs : KeyRefers(k)

LEMMA KeyParts ==
  ASSUME NEW kind, NEW a, NEW n
  PROVE  Key(kind, a, n).kind = kind /\ Key(kind, a, n).account = a /\ Key(kind, a, n).n = n
BY DEF Key

\* A cycle that commits ends its own job with success.
LEMMA CycleSucceeds ==
  ASSUME JobInv, TxTyped, JobsTyped, NEW w \in Workers, NEW recorded \in BOOLEAN,
         ObserveCommit(w, recorded)
  PROVE  /\ tx[w] # Idle /\ tx[w].job \in DOMAIN jobs /\ jobs[tx[w].job].status = "RUNNING"
         /\ tx[w].job = Key("observe", tx[w].job.account, tx[w].job.n)
         /\ tx[w].job \in DOMAIN jobs' /\ jobs'[tx[w].job].status = "SUCCEEDED"
<1>1. tx[w].step = "polled" /\ tx[w] # Idle /\ tx' = [tx EXCEPT ![w] = Idle]
  BY Stores, Zenon DEF ObserveCommit
<1>2. PICK key \in DOMAIN jobs : key = tx[w].job /\ jobs[key].status = "RUNNING"
  BY <1>1 DEF JobInv
<1>3. key \in JobKeys /\ key.kind = "observe"
  BY <1>1, <1>2 DEF TxTyped, JobsTyped
<1>4. key = Key("observe", key.account, key.n) /\ key.account \in Accounts
  BY <1>3 DEF JobKeys, Key
<1>5. GoodKey(Key("metric", key.account, key.n))
  BY <1>4 DEF GoodKey, Key
<1>6. \/ jobs' = Ended(jobs, key, "SUCCEEDED")
      \/ jobs' = create_job(Ended(jobs, key, "SUCCEEDED"), Key("metric", key.account, key.n))
  BY <1>2, Zenon DEF ObserveCommit
<1>7. key \in DOMAIN jobs' /\ jobs'[key].status = "SUCCEEDED"
  BY <1>1, <1>2, <1>5, <1>6, EndKeeps
<1>8. QED
  BY <1>1, <1>2, <1>4, <1>7

LEMMA KeysReferStep ==
  ASSUME JobInv, JobsTyped, TxTyped, CursorInv, LogInv, ResultInv, ObservedInv, KeysRefer, LearnNext
  PROVE  KeysRefer'
<1>1. SUFFICES ASSUME NEW k \in DOMAIN jobs' PROVE KeyRefers(k)'
  BY DEF KeysRefer
<1>2. /\ SuccessStays /\ (Recorded => Recorded') /\ IsSeq(metrics) /\ IsSeq(results)
      /\ Extends(metrics, metrics') /\ Len(metrics) \in Nat /\ Len(metrics') \in Nat
      /\ Extends(results, results') /\ Len(results) \in Nat /\ Len(results') \in Nat
  BY JobInvStep, ObservedStays, LogInvStep, SeqParts DEF LogInv
<1>3. CASE k \in DOMAIN jobs
  BY <1>2, <1>3 DEF KeysRefer, KeyRefers, SuccessStays, Extends
<1>4. ASSUME NEW a, NEW n, k = Key("observe", a, n) PROVE KeyRefers(k)'
  BY <1>4, KeyParts DEF KeyRefers
<1>5. ASSUME NEW w \in Workers, NEW recorded \in BOOLEAN, ObserveCommit(w, recorded),
             k = Key("metric", Own, tx[w].job.n), tx[w].job.account = Own,
             recorded \/ \E o \in observations : o.linked
      PROVE  KeyRefers(k)'
  <2>1. k.kind = "metric" /\ k = Key("metric", Own, k.n) /\ k.n = tx[w].job.n
    BY <1>5, KeyParts
  <2>2. /\ Key("observe", Own, k.n) \in DOMAIN jobs'
        /\ jobs'[Key("observe", Own, k.n)].status = "SUCCEEDED"
    BY <1>5, <2>1, CycleSucceeds
  <2>3. recorded => Recorded
    <3>1. recorded \in {tx[w].recorded, publication.stage = "recorded"}
      BY <1>5, Zenon DEF ObserveCommit
    <3>2. tx[w].recorded => Recorded
      BY <1>5, Stores DEF ObservedInv
    <3>3. QED
      BY <3>1, <3>2, Zenon DEF Recorded
  <2>4. (\E o \in observations : o.linked) => Recorded
    BY DEF ObservedInv
  <2>5. QED
    BY <1>2, <1>5, <2>1, <2>2, <2>3, <2>4 DEF KeyRefers
<1>6. ASSUME NEW n \in DOMAIN metrics, k = Key("interpret", Own, n) PROVE KeyRefers(k)'
  <2>1. n \in 1..Len(metrics)
    BY <1>2, SeqParts
  <2>2. QED
    BY <1>2, <1>6, <2>1, KeyParts DEF KeyRefers, Extends
<1>7. ASSUME NEW w \in Workers, InterpretCommit(w), k = LearnKey(Len(results) + 1) PROVE KeyRefers(k)'
  <2>1. PICK e : results' = Append(results, e)
    BY <1>7 DEF InterpretCommit
  <2>2. Len(results') = Len(results) + 1
    BY <1>2, <2>1, AppendParts
  <2>3. k.kind = "learn" /\ k.n = Len(results) + 1 /\ k = LearnKey(k.n)
    BY <1>7, KeyParts DEF LearnKey
  <2>4. QED
    BY <1>2, <2>2, <2>3 DEF KeyRefers
<1>8. k \in DOMAIN jobs \/ Created(k)
  BY JobCases DEF JobChange, LogInv
<1>9. QED
  BY <1>3, <1>4, <1>5, <1>6, <1>7, <1>8 DEF Created

-----------------------------------------------------------------------------
(* Metric versions.                                                        *)

\* What a calculation counts.
Measured == {o \in observations : o.linked /\ InWindow(o.update)}

\* The window of a recorded publication is fixed.
LEMMA WindowFixed ==
  ASSUME CursorInv, ResultInv, LearnNext, Recorded
  PROVE  /\ Recorded' /\ WindowEnd' = WindowEnd
         /\ \A u \in 1..Len(updates) : (InWindow(u)' <=> InWindow(u)) /\ (InTime(u)' <=> InTime(u))
<1>1. publication' = publication /\ \A u \in 1..Len(updates) : updates'[u] = updates[u]
  BY Growth DEF Recorded, Extends
<1>2. QED
  BY <1>1 DEF Recorded, WindowEnd, InWindow, InTime

LEMMA MeasuredGrows ==
  ASSUME CursorInv, ResultInv, ObservedInv, LearnNext
  PROVE  Measured \subseteq Measured'
<1>1. SUFFICES ASSUME NEW o \in Measured PROVE o \in Measured'
  OBVIOUS
<1>2. o \in observations /\ o.linked /\ InWindow(o.update)
  BY DEF Measured
<1>3. Recorded /\ o.update \in 1..Len(updates)
  BY <1>2 DEF ObservedInv
<1>4. o \in observations' /\ InWindow(o.update)'
  BY <1>2, <1>3, WindowFixed, Growth
<1>5. QED
  BY <1>2, <1>4 DEF Measured

\* What the open calculation has read, and what a version counts.
VersionsInv ==
  /\ metrics # <<>> => Recorded
  /\ \A i \in 1..Len(metrics) : metrics[i] \in Versions /\ metrics[i].events \subseteq Measured
  /\ \A i, j \in 1..Len(metrics) : i <= j => metrics[i].events \subseteq metrics[j].events
  /\ \A w \in Workers : tx[w].step = "calculated" =>
       /\ tx[w].latest \in 0..Len(metrics) /\ tx[w].version.events \subseteq Measured
       /\ \A i \in 1..tx[w].latest : metrics[i].events \subseteq tx[w].version.events

LEMMA CalculatedTx ==
  ASSUME JobInv, TxTyped, NEW w \in Workers, MetricCalculate(w)
  PROVE  /\ tx[w].step = "covered" /\ tx[w] # Idle /\ UNCHANGED metrics
         /\ \E v : /\ tx'[w] = [step |-> "calculated", job |-> tx[w].job, latest |-> Len(metrics), version |-> v]
                   /\ v = [availability |-> tx[w].availability, ingested |-> tx[w].ingested,
                          events |-> Measured, left |-> behind \ Stored(Own)]
<1>1. /\ tx' = [tx EXCEPT ![w] =
            [step |-> "calculated", job |-> tx[w].job, latest |-> Len(metrics),
             version |-> [availability |-> tx[w].availability, ingested |-> tx[w].ingested,
                          events |-> Measured, left |-> behind \ Stored(Own)]]]
      /\ tx[w].step = "covered" /\ UNCHANGED metrics
  BY Zenon DEF MetricCalculate, Measured
<1>2. tx'[w] = [step |-> "calculated", job |-> tx[w].job, latest |-> Len(metrics),
                version |-> [availability |-> tx[w].availability, ingested |-> tx[w].ingested,
                             events |-> Measured, left |-> behind \ Stored(Own)]]
  BY <1>1 DEF JobInv
<1>3. tx[w] # Idle
  BY <1>1 DEF Idle
<1>4. QED
  BY <1>1, <1>2, <1>3

\* A calculated transaction was so before, or has just been calculated.
LEMMA CalculatedCases ==
  ASSUME JobInv, LearnNext, NEW w \in Workers, tx'[w].step = "calculated"
  PROVE  tx'[w] = tx[w] \/ MetricCalculate(w)
<1>1. DOMAIN tx = Workers
  BY DEF JobInv
<1>2. ASSUME NEW k \in DOMAIN jobs, NEW n \in 1..BatchLimit, ObserveBegin(w, k, n) PROVE tx'[w].step # "calculated"
  <2>1. PICK t : tx' = [tx EXCEPT ![w] = t] /\ t.step = "polled"
    BY <1>2, PollOpens
  <2>2. QED
    BY <1>1, <2>1
<1>3. ASSUME NEW k \in DOMAIN jobs, MetricBegin(w, k) \/ InterpretBegin(w, k) \/ LearnBegin(w, k)
      PROVE  tx'[w].step # "calculated"
  BY <1>1, <1>3 DEF MetricBegin, InterpretBegin, LearnBegin
<1>4. tx'[w] # Idle
  BY DEF Idle
<1>5. QED
  BY <1>2, <1>3, <1>4, TxCases

LEMMA VersionsInvStep ==
  ASSUME JobInv, JobsTyped, TxTyped, CursorInv, LogInv, ResultInv, ObservedInv, KeysRefer,
         VersionsInv, LearnNext
  PROVE  VersionsInv'
<1>1. /\ (Recorded => Recorded') /\ Measured \subseteq Measured' /\ IsSeq(metrics)
      /\ Len(metrics) \in Nat /\ Len(metrics') \in Nat /\ Extends(metrics, metrics')
  BY ObservedStays, MeasuredGrows, LogInvStep, SeqParts DEF LogInv
<1>2. ASSUME NEW w \in Workers, tx'[w].step = "calculated"
      PROVE  /\ tx'[w].latest \in 0..Len(metrics') /\ tx'[w].version.events \subseteq Measured'
             /\ \A i \in 1..tx'[w].latest : metrics'[i].events \subseteq tx'[w].version.events
  <2>1. CASE tx'[w] = tx[w]
    <3>1. /\ tx[w].latest \in 0..Len(metrics) /\ tx[w].version.events \subseteq Measured
          /\ \A i \in 1..tx[w].latest : metrics[i].events \subseteq tx[w].version.events
      BY <1>2, <2>1 DEF VersionsInv
    <3>2. \A i \in 1..tx[w].latest : metrics'[i] = metrics[i]
      BY <1>1, <3>1 DEF Extends
    <3>3. QED
      BY <1>1, <2>1, <3>1, <3>2 DEF Extends
  <2>2. CASE MetricCalculate(w)
    <3>1. PICK v : /\ tx'[w] = [step |-> "calculated", job |-> tx[w].job, latest |-> Len(metrics), version |-> v]
                   /\ v = [availability |-> tx[w].availability, ingested |-> tx[w].ingested,
                          events |-> Measured, left |-> behind \ Stored(Own)]
      BY <2>2, CalculatedTx
    <3>2. tx'[w].latest = Len(metrics) /\ tx'[w].version = v /\ v.events = Measured /\ metrics' = metrics
      BY <2>2, <3>1, CalculatedTx
    <3>3. QED
      BY <1>1, <3>2 DEF VersionsInv
  <2>3. QED
    BY <1>2, <2>1, <2>2, CalculatedCases
<1>3. CASE metrics' = metrics
  BY <1>1, <1>2, <1>3 DEF VersionsInv
<1>4. ASSUME NEW w \in Workers, MetricCommit(w), metrics' # metrics PROVE VersionsInv'
  <2>1. /\ tx[w].step = "calculated" /\ Len(metrics) = tx[w].latest
        /\ metrics' = Append(metrics, tx[w].version)
    BY <1>4 DEF MetricCommit
  <2>2. PICK v : v = tx[w].version
    OBVIOUS
  <2>3. /\ v.events \subseteq Measured /\ \A i \in 1..Len(metrics) : metrics[i].events \subseteq v.events
    BY <2>1, <2>2 DEF VersionsInv
  <2>4. v \in Versions /\ tx[w] # Idle /\ tx[w].job.kind = "metric"
    BY <2>1, <2>2 DEF TxTyped, TxStates, Idle
  <2>5. Recorded
    BY <2>4 DEF JobInv, KeysRefer, KeyRefers
  <2>6. /\ Len(metrics') = Len(metrics) + 1 /\ metrics'[Len(metrics) + 1] = v
        /\ \A i \in 1..Len(metrics') : i \in 1..Len(metrics) \/ i = Len(metrics) + 1
    BY <1>1, <2>1, <2>2, AppendParts
  <2>7. \A i \in 1..Len(metrics) : /\ metrics'[i] = metrics[i] /\ metrics[i] \in Versions
                                   /\ metrics[i].events \subseteq Measured
    BY <1>1 DEF VersionsInv, Extends
  <2>8. \A i \in 1..Len(metrics') : metrics'[i] \in Versions /\ metrics'[i].events \subseteq Measured'
    BY <1>1, <2>3, <2>4, <2>6, <2>7
  <2>9. ASSUME NEW i \in 1..Len(metrics'), NEW j \in 1..Len(metrics'), i <= j
        PROVE  metrics'[i].events \subseteq metrics'[j].events
    <3>1. CASE j \in 1..Len(metrics)
      <4>1. i \in 1..Len(metrics)
        BY <1>1, <2>9, <3>1
      <4>2. QED
        BY <2>7, <2>9, <3>1, <4>1 DEF VersionsInv
    <3>2. CASE j = Len(metrics) + 1
      BY <2>3, <2>6, <2>7, <3>2
    <3>3. QED
      BY <2>6, <3>1, <3>2
  <2>10. QED
    BY <1>1, <1>2, <2>5, <2>8, <2>9 DEF VersionsInv
<1>5. QED
  BY <1>3, <1>4, NextCases, BeginsFrame, ContinuesFrame, OutsideFrame

-----------------------------------------------------------------------------
(* Results and learnings.                                                  *)

\* A result has the class of the version that it interprets, and so will the
\* one of an open interpretation.
ClassInv ==
  /\ \A i \in 1..Len(results) : /\ results[i].metric \in 1..Len(metrics) /\ results[i].class # "NONE"
                                /\ results[i].class = Interpretation(metrics[results[i].metric])
  /\ \A w \in Workers : tx[w].step = "interpreted" =>
       tx[w].job.n \in 1..Len(metrics) /\ Interpretation(metrics[tx[w].job.n]) # "NONE"

\* A version is interpreted the same way for ever.
LEMMA InterpretationFixed ==
  ASSUME LogInv, ResultInv, LearnNext, NEW n \in 1..Len(metrics)
  PROVE  n \in 1..Len(metrics') /\ Interpretation(metrics[n])' = Interpretation(metrics[n])
<1>1. /\ Extends(metrics, metrics') /\ Len(metrics') \in Nat /\ checkpoint' = checkpoint
      /\ Len(metrics) \in Nat
  BY LogInvStep, SeqParts DEF LogInv, LearnNext
<1>2. n \in 1..Len(metrics') /\ metrics'[n] = metrics[n]
  BY <1>1 DEF Extends
<1>3. QED
  BY <1>1, <1>2 DEF Interpretation, Count

LEMMA ClassInvStep ==
  ASSUME JobInv, JobsTyped, TxTyped, CursorInv, LogInv, ResultInv, KeysRefer, ClassInv, LearnNext
  PROVE  ClassInv'
<1>1. DOMAIN tx = Workers /\ IsSeq(results) /\ Len(results) \in Nat /\ Extends(results, results')
  BY LogInvStep, SeqParts DEF JobInv
<1>2. ASSUME NEW w \in Workers, tx'[w].step = "interpreted"
      PROVE  tx'[w].job.n \in 1..Len(metrics') /\ Interpretation(metrics[tx[w].job.n])' # "NONE"
  <2>1. CASE tx'[w] = tx[w]
    <3>1. PICK n \in 1..Len(metrics) : n = tx[w].job.n /\ Interpretation(metrics[n]) # "NONE"
      BY <1>2, <2>1 DEF ClassInv
    <3>2. n \in 1..Len(metrics') /\ Interpretation(metrics[n])' # "NONE"
      BY <3>1, InterpretationFixed
    <3>3. tx'[w].job.n = n
      BY <2>1, <3>1
    <3>4. QED
      BY <3>2, <3>3 DEF Interpretation, Count
  <2>2. ASSUME NEW k \in DOMAIN jobs, InterpretBegin(w, k)
        PROVE  tx'[w].job.n \in 1..Len(metrics') /\ Interpretation(metrics[tx[w].job.n])' # "NONE"
    <3>1. k.kind = "interpret" /\ Interpretation(metrics[k.n]) # "NONE"
      BY <2>2 DEF InterpretBegin, Queued, Interpretable
    <3>2. tx'[w].job.n = k.n
      BY <1>1, <2>2 DEF InterpretBegin
    <3>3. PICK n \in 1..Len(metrics) : n = k.n
      BY <3>1 DEF KeysRefer, KeyRefers
    <3>4. n \in 1..Len(metrics') /\ Interpretation(metrics[n])' # "NONE"
      BY <3>1, <3>3, InterpretationFixed
    <3>5. QED
      BY <3>2, <3>3, <3>4 DEF Interpretation, Count
  <2>3. ASSUME NEW k \in DOMAIN jobs, NEW n \in 1..BatchLimit, ObserveBegin(w, k, n) PROVE FALSE
    <3>1. PICK t : tx' = [tx EXCEPT ![w] = t] /\ t.step = "polled"
      BY <2>3, PollOpens
    <3>2. QED
      BY <1>1, <1>2, <3>1
  <2>4. CASE tx'[w] = Idle \/ MetricCalculate(w) \/ \E k \in DOMAIN jobs : MetricBegin(w, k) \/ LearnBegin(w, k)
    BY <1>1, <1>2, <2>4 DEF Idle, MetricCalculate, MetricBegin, LearnBegin
  <2>5. QED
    BY <2>1, <2>2, <2>3, <2>4, TxCases
<1>3. ASSUME NEW i \in 1..Len(results)
      PROVE  /\ results'[i].metric \in 1..Len(metrics') /\ results'[i].class # "NONE"
             /\ results'[i].class = Interpretation(metrics[results[i].metric])'
  <2>1. results'[i] = results[i]
    BY <1>1 DEF Extends
  <2>2. PICK n \in 1..Len(metrics) : n = results[i].metric /\ results[i].class = Interpretation(metrics[n])
                                    /\ results[i].class # "NONE"
    BY DEF ClassInv
  <2>3. n \in 1..Len(metrics') /\ results[i].class = Interpretation(metrics[n])'
    BY <2>2, InterpretationFixed
  <2>4. QED
    BY <2>1, <2>2, <2>3 DEF Interpretation, Count
<1>4. CASE results' = results
  BY <1>2, <1>3, <1>4 DEF ClassInv
<1>5. ASSUME NEW w \in Workers, InterpretCommit(w) PROVE ClassInv'
  <2>1. PICK n \in 1..Len(metrics) : n = tx[w].job.n /\ Interpretation(metrics[n]) # "NONE"
    BY <1>5 DEF InterpretCommit, ClassInv
  <2>2. PICK r : /\ r = [metric |-> n, seen |-> tx[w].seen, class |-> Interpretation(metrics[n])]
                 /\ results' = Append(results, r)
    BY <1>5, <2>1 DEF InterpretCommit
  <2>3. r.metric = n /\ r.class = Interpretation(metrics[n])
    BY <2>2
  <2>4. n \in 1..Len(metrics') /\ Interpretation(metrics[n])' = Interpretation(metrics[n])
    BY InterpretationFixed
  <2>5. /\ Len(results') = Len(results) + 1 /\ results'[Len(results) + 1] = r
        /\ \A i \in 1..Len(results') : i \in 1..Len(results) \/ i = Len(results) + 1
    BY <1>1, <2>2, AppendParts
  <2>6. ASSUME NEW i \in 1..Len(results')
        PROVE  /\ results'[i].metric \in 1..Len(metrics') /\ results'[i].class # "NONE"
               /\ results'[i].class = Interpretation(metrics[results[i].metric])'
    <3>1. CASE i = Len(results) + 1
      <4>1. results'[i].metric = n /\ results'[i].class = Interpretation(metrics[n])'
        BY <2>3, <2>4, <2>5, <3>1
      <4>2. QED
        BY <2>1, <2>4, <4>1 DEF Interpretation, Count
    <3>2. QED
      BY <1>3, <2>5, <3>1
  <2>7. QED
    BY <1>2, <2>6 DEF ClassInv
<1>6. QED
  BY <1>4, <1>5, NextCases, BeginsFrame, ContinuesFrame, OutsideFrame

\* Every result has its learning job, which has succeeded when, and only when,
\* the result has a learning; it never has two.
LearnedInv ==
  /\ \A i \in 1..Len(results) :
       /\ LearnKey(i) \in DOMAIN jobs
       /\ jobs[LearnKey(i)].status = "SUCCEEDED" => \E l \in 1..Len(learnings) : learnings[l].result = i
  /\ \A l \in 1..Len(learnings) :
       /\ learnings[l].result \in 1..Len(results)
       /\ jobs[LearnKey(learnings[l].result)].status = "SUCCEEDED"
       /\ learnings[l].causality # "UNKNOWN" => results[learnings[l].result].class # "INSUFFICIENT_DATA"
  /\ \A l, m \in 1..Len(learnings) : learnings[l].result = learnings[m].result => l = m

\* What a learning transaction commits.
LEMMA LearnCommits ==
  ASSUME JobInv, JobsTyped, TxTyped, LogInv, ResultInv, KeysRefer, NEW w \in Workers, LearnCommit(w)
  PROVE  \E n, e :
           /\ n \in 1..Len(results)
           /\ tx[w].job = LearnKey(n) /\ jobs[LearnKey(n)].status = "RUNNING"
           /\ LearnKey(n) \in DOMAIN jobs' /\ jobs'[LearnKey(n)].status = "SUCCEEDED"
           /\ learnings' = Append(learnings, e) /\ e.result = n
           /\ e.causality # "UNKNOWN" => results[n].class # "INSUFFICIENT_DATA"
<1>1. tx[w].step = "reviewed" /\ tx' = [tx EXCEPT ![w] = Idle] /\ jobs' = Ended(jobs, tx[w].job, "SUCCEEDED")
  BY Zenon DEF LearnCommit
<1>2. tx[w] # Idle /\ tx[w].job.kind = "learn"
  BY <1>1 DEF TxTyped, Idle
<1>3. PICK n \in 1..Len(results) : tx[w].job = LearnKey(n) /\ n = tx[w].job.n
  BY <1>2 DEF JobInv, KeysRefer, KeyRefers
<1>4. jobs[LearnKey(n)].status = "RUNNING"
  BY <1>2, <1>3 DEF JobInv
<1>5. LearnKey(n) \in DOMAIN jobs' /\ jobs'[LearnKey(n)].status = "SUCCEEDED"
  BY <1>1, <1>2, <1>3, EndKeeps
<1>6. PICK causality : /\ causality = IF results[n].class = "INSUFFICIENT_DATA" THEN "UNKNOWN"
                                      ELSE "DIRECT_DETERMINISTIC_ATTRIBUTION"
                       /\ learnings' = Append(learnings, [result |-> n, causality |-> causality])
  BY <1>3, Zenon DEF LearnCommit
<1>7. PICK e : e = [result |-> n, causality |-> causality]
  OBVIOUS
<1>8. e.result = n /\ (e.causality # "UNKNOWN" => results[n].class # "INSUFFICIENT_DATA")
  BY <1>6, <1>7
<1>9. QED
  BY <1>3, <1>4, <1>5, <1>6, <1>7, <1>8

\* A learning job succeeds with the learning of its result.
LEMMA LearnJobSucceeds ==
  ASSUME JobInv, JobsTyped, TxTyped, LogInv, ResultInv, KeysRefer, LearnedInv, LearnNext,
         NEW i \in 1..Len(results), jobs'[LearnKey(i)].status = "SUCCEEDED"
  PROVE  \E l \in 1..Len(learnings') : learnings'[l].result = i
<1>1. /\ IsSeq(learnings) /\ Len(learnings) \in Nat /\ Len(learnings') \in Nat
      /\ Extends(learnings, learnings')
  BY LogInvStep, SeqParts DEF LogInv
<1>2. PICK k \in DOMAIN jobs : k = LearnKey(i) /\ k.kind = "learn" /\ k.n = i
  BY KeyParts DEF LearnedInv, LearnKey
<1>3. k \in DOMAIN jobs' /\ JobChange(k)
  BY JobCases DEF LogInv
<1>4. CASE jobs'[k] = jobs[k]
  <2>1. jobs[LearnKey(i)].status = "SUCCEEDED"
    BY <1>2, <1>4
  <2>2. PICK l \in 1..Len(learnings) : learnings[l].result = i
    BY <2>1 DEF LearnedInv
  <2>3. l \in 1..Len(learnings') /\ learnings'[l].result = i
    BY <1>1, <2>2 DEF Extends
  <2>4. QED
    BY <2>3
<1>5. CASE Finished(k, "SUCCEEDED")
  <2>1. PICK w \in Workers :
          /\ tx[w] # Idle /\ tx[w].job = k
          /\ \/ \E recorded \in BOOLEAN : ObserveCommit(w, recorded)
             \/ MetricCommit(w) \/ InterpretCommit(w) \/ LearnCommit(w)
    BY <1>5 DEF Finished
  <2>2. tx[w].step \notin {"polled", "calculated", "interpreted"}
    BY <1>2, <2>1 DEF TxTyped
  <2>3. LearnCommit(w)
    BY <2>1, <2>2, Stores DEF MetricCommit, InterpretCommit
  <2>4. PICK n, e : tx[w].job = LearnKey(n) /\ learnings' = Append(learnings, e) /\ e.result = n
    BY <2>3, LearnCommits
  <2>5. n = i
    BY <1>2, <2>1, <2>4, KeyParts DEF LearnKey
  <2>6. learnings'[Len(learnings) + 1] = e /\ Len(learnings') = Len(learnings) + 1
    BY <1>1, <2>4, AppendParts
  <2>7. QED
    BY <1>1, <2>4, <2>5, <2>6
<1>6. jobs'[k].status = "SUCCEEDED" /\ ~Attempted(k, "SUCCEEDED")
  BY <1>2 DEF Attempted
<1>7. QED
  BY <1>3, <1>4, <1>5, <1>6 DEF JobChange

LEMMA LearnedInvStep ==
  ASSUME JobInv, JobsTyped, TxTyped, CursorInv, LogInv, ResultInv, KeysRefer, LearnedInv, LearnNext
  PROVE  LearnedInv'
<1>1. /\ SuccessStays /\ DOMAIN jobs \subseteq DOMAIN jobs' /\ IsSeq(results) /\ IsSeq(learnings)
      /\ Len(results) \in Nat /\ Len(results') \in Nat /\ Extends(results, results')
      /\ Len(learnings) \in Nat /\ Len(learnings') \in Nat /\ Extends(learnings, learnings')
  BY JobInvStep, JobCases, LogInvStep, SeqParts DEF LogInv
<1>2. ASSUME NEW i \in 1..Len(results')
      PROVE  /\ LearnKey(i) \in DOMAIN jobs'
             /\ jobs'[LearnKey(i)].status = "SUCCEEDED" =>
                  \E l \in 1..Len(learnings') : learnings'[l].result = i
  <2>1. CASE i \in 1..Len(results)
    BY <1>1, <2>1, LearnJobSucceeds DEF LearnedInv
  <2>2. CASE i \notin 1..Len(results)
    <3>1. results' # results
      BY <2>2
    <3>2. PICK w \in Workers : InterpretCommit(w)
      BY <3>1, NextCases, BeginsFrame, ContinuesFrame, OutsideFrame
    <3>3. /\ \E e : results' = Append(results, e)
          /\ jobs' = create_job(Ended(jobs, tx[w].job, "SUCCEEDED"), LearnKey(Len(results) + 1))
      BY <3>2, Zenon DEF InterpretCommit
    <3>4. i = Len(results) + 1
      BY <1>1, <2>2, <3>3, AppendParts
    <3>5. PICK k : k = LearnKey(i) /\ k.kind = "learn" /\ k.n = i
      BY KeyParts DEF LearnKey
    <3>6. k \in DOMAIN jobs'
      <4>1. k \in DOMAIN create_job(Ended(jobs, tx[w].job, "SUCCEEDED"), k)
        BY CreateJobParts
      <4>2. QED
        BY <3>3, <3>4, <3>5, <4>1
    <3>7. k \notin DOMAIN jobs
      BY <2>2, <3>5 DEF KeysRefer, KeyRefers
    <3>8. jobs'[k].status = "QUEUED"
      BY <3>6, <3>7, JobCases DEF JobChange, LogInv
    <3>9. QED
      BY <3>5, <3>6, <3>8
  <2>3. QED
    BY <2>1, <2>2
<1>3. ASSUME NEW l \in 1..Len(learnings)
      PROVE  /\ learnings'[l] = learnings[l] /\ learnings[l].result \in 1..Len(results')
             /\ jobs'[LearnKey(learnings[l].result)].status = "SUCCEEDED"
             /\ learnings[l].causality # "UNKNOWN" =>
                  results'[learnings[l].result].class # "INSUFFICIENT_DATA"
  <2>1. PICK i \in 1..Len(results) :
          /\ i = learnings[l].result /\ jobs[LearnKey(i)].status = "SUCCEEDED"
          /\ learnings[l].causality # "UNKNOWN" => results[i].class # "INSUFFICIENT_DATA"
    BY DEF LearnedInv
  <2>2. LearnKey(i) \in DOMAIN jobs /\ results'[i] = results[i] /\ i \in 1..Len(results')
    BY <1>1, <2>1 DEF LearnedInv, Extends
  <2>3. jobs'[LearnKey(i)].status = "SUCCEEDED"
    BY <1>1, <2>1, <2>2 DEF SuccessStays
  <2>4. learnings'[l] = learnings[l]
    BY <1>1 DEF Extends
  <2>5. QED
    BY <2>1, <2>2, <2>3, <2>4
<1>4. CASE learnings' = learnings
  <2>1. \A l, m \in 1..Len(learnings') : learnings'[l].result = learnings'[m].result => l = m
    BY <1>4 DEF LearnedInv
  <2>2. QED
    BY <1>2, <1>3, <1>4, <2>1 DEF LearnedInv
<1>5. ASSUME NEW w \in Workers, LearnCommit(w) PROVE LearnedInv'
  <2>1. PICK n, e :
           /\ n \in 1..Len(results) /\ jobs[LearnKey(n)].status = "RUNNING"
           /\ jobs'[LearnKey(n)].status = "SUCCEEDED"
           /\ learnings' = Append(learnings, e) /\ e.result = n
           /\ e.causality # "UNKNOWN" => results[n].class # "INSUFFICIENT_DATA"
    BY <1>5, LearnCommits
  <2>2. n \in 1..Len(results') /\ results'[n] = results[n]
    BY <1>1, <2>1 DEF Extends
  <2>3. /\ Len(learnings') = Len(learnings) + 1 /\ learnings'[Len(learnings) + 1] = e
        /\ \A l \in 1..Len(learnings') : l \in 1..Len(learnings) \/ l = Len(learnings) + 1
    BY <1>1, <2>1, AppendParts
  <2>4. \A l \in 1..Len(learnings) : learnings[l].result # n
    BY <2>1 DEF LearnedInv
  <2>5. \A l \in 1..Len(learnings') :
          /\ learnings'[l].result \in 1..Len(results')
          /\ jobs'[LearnKey(learnings'[l].result)].status = "SUCCEEDED"
          /\ learnings'[l].causality # "UNKNOWN" => results'[learnings'[l].result].class # "INSUFFICIENT_DATA"
    BY <1>3, <2>1, <2>2, <2>3
  <2>6. \A l, m \in 1..Len(learnings') : learnings'[l].result = learnings'[m].result => l = m
    BY <1>3, <2>1, <2>3, <2>4 DEF LearnedInv
  <2>7. QED
    BY <1>2, <2>5, <2>6 DEF LearnedInv
<1>6. QED
  BY <1>4, <1>5, NextCases, BeginsFrame, ContinuesFrame, OutsideFrame

-----------------------------------------------------------------------------
(* The inductive invariant, and what follows from it.                      *)

LearnInv ==
  /\ JobInv /\ CursorInv /\ ResultInv /\ LogInv
  /\ JobsTyped /\ TxTyped /\ RowsTyped /\ ObservationsTyped /\ PublicationTyped /\ UpdatesTyped
  /\ ObservedInv /\ KeysRefer /\ VersionsInv /\ ClassInv /\ LearnedInv

LEMMA LearnInvInit == LearnInit => LearnInv
<1> SUFFICES ASSUME LearnInit PROVE LearnInv
  OBVIOUS
<1>1. JobInv /\ CursorInv /\ ResultInv
  BY JobInvInit, CursorInvInit, ResultInvInit
<1>2. /\ metrics = <<>> /\ results = <<>> /\ learnings = <<>> /\ updates = <<>> /\ DOMAIN jobs = {}
      /\ observations = {} /\ dropped = {} /\ unwatched = {} /\ skipped = {} /\ behind = {} /\ now = 0
      /\ publication = [stage |-> "unsent", at |-> 0] /\ experiment = "DRAFT"
  BY DEF LearnInit
<1>3. Len(metrics) = 0 /\ Len(results) = 0 /\ Len(learnings) = 0 /\ Len(updates) = 0
  BY <1>2
<1>4. \A w \in Workers : tx[w] = Idle /\ tx[w].step = "idle"
  BY DEF LearnInit, Idle
<1>5. LogInv
  <2>1. <<>> \in Seq({})
    OBVIOUS
  <2>2. QED
    BY <1>2, <2>1 DEF LogInv, IsSeq
<1>6. JobsTyped /\ KeysRefer
  BY <1>2 DEF JobsTyped, KeysRefer
<1>7. TxTyped
  BY <1>4 DEF TxTyped, TxStates
<1>8. RowsTyped
  <2>1. \A a \in Accounts : row[a] = NoRow
    BY DEF LearnInit
  <2>2. NoRow.status = "NONE" /\ NoRow.ingested = 0 /\ NoRow.started = 0
    BY DEF NoRow
  <2>3. QED
    BY <1>2, <2>1, <2>2 DEF RowsTyped
<1>9. ObservationsTyped /\ PublicationTyped /\ UpdatesTyped
  BY <1>2, <1>3 DEF ObservationsTyped, PublicationTyped, UpdatesTyped
<1>10. ObservedInv
  BY <1>2, <1>4 DEF ObservedInv
<1>11. VersionsInv
  BY <1>2, <1>3, <1>4 DEF VersionsInv
<1>12. ClassInv
  BY <1>3, <1>4 DEF ClassInv
<1>13. LearnedInv
  BY <1>3 DEF LearnedInv
<1>14. QED
  BY <1>1, <1>5, <1>6, <1>7, <1>8, <1>9, <1>10, <1>11, <1>12, <1>13 DEF LearnInv

LEMMA LearnInvStep == LearnInv /\ [LearnNext]_learnVars => LearnInv'
<1> SUFFICES ASSUME LearnInv, [LearnNext]_learnVars PROVE LearnInv'
  OBVIOUS
<1>1. CASE LearnNext
  <2>1. JobInv' /\ CursorInv' /\ ResultInv' /\ LogInv'
    BY <1>1, JobInvStep, CursorInvStep, ResultInvStep, LogInvStep DEF LearnInv
  <2>2. JobsTyped' /\ TxTyped' /\ RowsTyped' /\ ObservationsTyped' /\ PublicationTyped' /\ UpdatesTyped'
    <3>1. behind \subseteq 1..Len(updates)
      BY DEF LearnInv, UpdatesTyped
    <3>2. QED
      BY <1>1, <3>1, JobsTypedStep, TxTypedStep, RowsTypedStep, ObservationsTypedStep,
         PublicationTypedStep, UpdatesTypedStep DEF LearnInv
  <2>3. ObservedInv' /\ KeysRefer' /\ VersionsInv' /\ ClassInv' /\ LearnedInv'
    BY <1>1, ObservedInvStep, KeysReferStep, VersionsInvStep, ClassInvStep, LearnedInvStep DEF LearnInv
  <2>4. QED
    BY <2>1, <2>2, <2>3 DEF LearnInv
<1>2. CASE UNCHANGED learnVars
  <2>1. /\ UNCHANGED <<now, updates, queue, dropped, unwatched, skipped, behind, publication,
                       checkpoint, experiment>>
        /\ UNCHANGED <<row, observations, metrics, results, learnings, jobs, tx>>
    BY <1>2 DEF learnVars, telegramVars
  <2>2. JobInv' /\ SuccessStays
    BY <2>1 DEF LearnInv, JobInv, GoodKey, IsJob, SuccessStays
  <2>3. CursorInv'
    BY <2>1, CursorsUntouched DEF LearnInv, CursorInv
  <2>4. ResultInv' /\ LogInv'
    BY <2>1, <2>2, ResultsUntouched DEF LearnInv, LogInv, IsSeq
  <2>5. JobsTyped' /\ TxTyped' /\ RowsTyped' /\ ObservationsTyped'
    BY <2>1 DEF LearnInv, JobsTyped, TxTyped, RowsTyped, ObservationsTyped
  <2>6. PublicationTyped' /\ UpdatesTyped'
    BY <2>1 DEF LearnInv, PublicationTyped, UpdatesTyped
  <2>7. ObservedInv' /\ KeysRefer'
    BY <2>1 DEF LearnInv, ObservedInv, Recorded, KeysRefer, KeyRefers
  <2>8. Measured' = Measured /\ (Recorded' <=> Recorded)
    BY <2>1 DEF Measured, InWindow, WindowEnd, Recorded
  <2>9. VersionsInv'
    BY <2>1, <2>8 DEF LearnInv, VersionsInv
  <2>10. ClassInv'
    BY <2>1 DEF LearnInv, ClassInv, Interpretation, Count
  <2>11. LearnedInv'
    BY <2>1 DEF LearnInv, LearnedInv
  <2>12. QED
    BY <2>2, <2>3, <2>4, <2>5, <2>6, <2>7, <2>9, <2>10, <2>11 DEF LearnInv
<1>3. QED
  BY <1>1, <1>2

LEMMA LearnInvHolds == LearnSpec => []LearnInv
BY LearnInvInit, LearnInvStep, PTL DEF LearnSpec

\* Updates that are queued, stored, cursors, versions, results and jobs refer
\* to what exists, for any number of workers, accounts and disturbances.
THEOREM LearningTypes == LearnSpec => []LearningTypeOK
<1>1. LearnInv => LearningTypeOK
  <2> SUFFICES ASSUME LearnInv PROVE LearningTypeOK
    OBVIOUS
  <2>1. /\ JobInv /\ CursorInv /\ JobsTyped /\ TxTyped /\ RowsTyped /\ ObservationsTyped
        /\ PublicationTyped /\ UpdatesTyped /\ ObservedInv /\ VersionsInv /\ ClassInv /\ LearnedInv
    BY DEF LearnInv
  <2>2. /\ DOMAIN updates = 1..Len(updates) /\ Len(updates) \in Nat /\ DOMAIN metrics = 1..Len(metrics)
        /\ DOMAIN results = 1..Len(results) /\ DOMAIN learnings = 1..Len(learnings)
    <3>1. IsSeq(updates) /\ IsSeq(metrics) /\ IsSeq(results) /\ IsSeq(learnings)
      BY DEF LearnInv, CursorInv, ResultInv, LogInv, IsSeq
    <3>2. QED
      BY <3>1, SeqParts
  <2>3. \A u \in DOMAIN updates : /\ updates[u].kind \in Kinds
                                  /\ updates[u].time <= updates[u].arrived
                                  /\ updates[u].arrived <= now
    BY <2>1, <2>2, TimesTyped DEF UpdatesTyped
  <2>4. /\ now \in Nat /\ queue \cup dropped \cup unwatched \cup skipped \cup behind \subseteq DOMAIN updates
    BY <2>1, <2>2 DEF CursorInv, UpdatesTyped
  <2>5. /\ publication.stage \in {"unsent", "sent", "recorded"} /\ publication.at <= now
        /\ experiment \in {"DRAFT", "RUNNING", "COMPLETE"}
    BY <2>1, <2>4 DEF PublicationTyped
  <2>6. \A a \in Accounts : /\ row[a].status \in {"NONE", "UNKNOWN", "FRESH"}
                            /\ row[a].last \in {0} \cup DOMAIN updates
                            /\ row[a].ingested <= now /\ row[a].started <= now
    BY <2>1, <2>2, <2>4 DEF RowsTyped, CursorInv, GoodCursor
  <2>7. observations \subseteq ObservationRows /\ \A o \in observations : o.update \in DOMAIN updates
    BY <2>1, <2>2 DEF ObservationsTyped, ObservedInv
  <2>8. \A v \in DOMAIN metrics : /\ metrics[v].availability \in Availability
                                  /\ metrics[v].events \subseteq observations
    BY <2>1, <2>2 DEF VersionsInv, Versions, Measured
  <2>9. \A i \in DOMAIN results : results[i].class \in ResultClass /\ results[i].metric \in DOMAIN metrics
    BY <2>1, <2>2 DEF ClassInv, Interpretation, ResultClass
  <2>10. \A i \in DOMAIN learnings : learnings[i].result \in DOMAIN results
    BY <2>1, <2>2 DEF LearnedInv
  <2>11. \A k \in DOMAIN jobs :
           /\ k \in JobKeys
           /\ jobs[k].status \in {"QUEUED", "RUNNING", "SUCCEEDED", "FAILED"}
           /\ jobs[k].left \in 0..Attempts[k.kind]
    BY <2>1 DEF JobsTyped, JobStatus
  <2>12. \A w \in Workers : tx[w] \in TxStates
    BY <2>1 DEF TxTyped
  <2>13. QED
    BY <2>3, <2>4, <2>5, <2>6, <2>7, <2>8, <2>9, <2>10, <2>11, <2>12, Zenon DEF LearningTypeOK
<1>2. QED
  BY <1>1, LearnInvHolds, PTL

\* When interpretations and learning jobs are over, a result has exactly one
\* learning unless its job failed, and one that claims a causality rests on a
\* complete count (InterpretCheckpointHandler's create_job,
\* GovernedLearningHandler).
THEOREM ResultsAreLearned == LearnSpec => []LearnedInTheEnd
<1>1. LearnInv => LearnedInTheEnd
  <2> SUFFICES ASSUME LearnInv, \A k \in DOMAIN jobs : k.kind \in {"interpret", "learn"} => Over(k),
                      NEW i \in DOMAIN results, jobs[LearnKey(i)].status # "FAILED"
               PROVE  \E l \in DOMAIN learnings :
                        /\ learnings[l].result = i
                        /\ \A m \in DOMAIN learnings : learnings[m].result = i => m = l
                        /\ learnings[l].causality # "UNKNOWN" =>
                             metrics[results[i].metric].availability = "AVAILABLE"
    <3>1. LearnInv => \A i \in DOMAIN results : LearnKey(i) \in DOMAIN jobs
      <4>1. ASSUME LearnInv PROVE IsSeq(results)
        BY <4>1 DEF LearnInv, ResultInv, IsSeq
      <4>2. QED
        BY <4>1, SeqParts DEF LearnInv, LearnedInv
    <3>2. QED
      BY <3>1 DEF LearnedInTheEnd
  <2>1. ClassInv /\ LearnedInv /\ IsSeq(results) /\ IsSeq(learnings)
    BY DEF LearnInv, LogInv, ResultInv, IsSeq
  <2>2. i \in 1..Len(results) /\ DOMAIN learnings = 1..Len(learnings)
    BY <2>1, SeqParts
  <2>3. LearnKey(i) \in DOMAIN jobs
    BY <2>1, <2>2 DEF LearnedInv
  <2>4. jobs[LearnKey(i)].status = "SUCCEEDED"
    BY <2>3, KeyParts DEF Over, LearnKey
  <2>5. PICK l \in 1..Len(learnings) : learnings[l].result = i
    BY <2>1, <2>2, <2>4 DEF LearnedInv
  <2>6. \A m \in 1..Len(learnings) : learnings[m].result = i => m = l
    BY <2>1, <2>5 DEF LearnedInv
  <2>7. learnings[l].causality # "UNKNOWN" => results[i].class # "INSUFFICIENT_DATA"
    BY <2>1, <2>5 DEF LearnedInv
  <2>8. results[i].class # "INSUFFICIENT_DATA" => metrics[results[i].metric].availability = "AVAILABLE"
    BY <2>1, <2>2 DEF ClassInv, Interpretation
  <2>9. QED
    BY <2>2, <2>5, <2>6, <2>7, <2>8
<1>2. QED
  BY <1>1, LearnInvHolds, PTL
=============================================================================
