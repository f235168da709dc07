------------------------- MODULE LearningLoopProofs -------------------------
(***************************************************************************)
(* Proofs about LearningLoop, for any accounts, workers, update types,     *)
(* times and bounds, and any number of disturbances.                       *)
(***************************************************************************)
EXTENDS LearningLoop, WellFoundedInduction, SequenceTheorems, FiniteSetTheorems, TLAPS

-----------------------------------------------------------------------------
(* Jobs and the transactions that handle them.                             *)

\* A job's key names an account; that of an interpretation is its version's.
GoodKey(k) ==
  /\ k.account \in Accounts
  /\ k.kind = "interpret" => k = Key("interpret", Own, k.n)

IsJob(j) == j = [status |-> j.status, left |-> j.left]

\* An open transaction handles a RUNNING job, and no two handle the same one.
JobInv ==
  /\ DOMAIN tx = Workers
  /\ \A k \in DOMAIN jobs : GoodKey(k) /\ IsJob(jobs[k])
  /\ \A w \in Workers : tx[w] # Idle =>
       tx[w].job \in DOMAIN jobs /\ jobs[tx[w].job].status = "RUNNING"
  /\ \A v, w \in Workers : tx[v] # Idle /\ tx[w] # Idle /\ tx[v].job = tx[w].job => v = w

\* What is over with success stays so.
SuccessStays ==
  \A k \in DOMAIN jobs : jobs[k].status = "SUCCEEDED" => k \in DOMAIN jobs' /\ jobs'[k] = jobs[k]

LEMMA JobInvInit == LearnInit => JobInv
BY DEF LearnInit, JobInv, Idle

\* create_job adds at most the one job.
LEMMA CreateJobParts ==
  ASSUME NEW js, NEW k
  PROVE  /\ DOMAIN create_job(js, k) = DOMAIN js \cup {k}
         /\ \A i \in DOMAIN js : create_job(js, k)[i] = js[i]
         /\ k \notin DOMAIN js => create_job(js, k)[k] = [status |-> "QUEUED", left |-> Attempts[k.kind]]
BY DEF create_job

LEMMA EndedParts ==
  ASSUME NEW js, NEW k \in DOMAIN js, IsJob(js[k]), NEW status
  PROVE  /\ DOMAIN Ended(js, k, status) = DOMAIN js
         /\ \A i \in DOMAIN js : i # k => Ended(js, k, status)[i] = js[i]
         /\ IsJob(Ended(js, k, status)[k]) /\ Ended(js, k, status)[k].status = status
<1>1. Ended(js, k, status)[k] = [status |-> status, left |-> js[k].left]
  BY DEF Ended, IsJob
<1>2. QED
  BY <1>1 DEF Ended, IsJob

LEMMA ClaimedParts ==
  ASSUME NEW js, NEW k \in DOMAIN js
  PROVE  /\ DOMAIN Claimed(js, k) = DOMAIN js
         /\ \A i \in DOMAIN js : i # k => Claimed(js, k)[i] = js[i]
         /\ IsJob(Claimed(js, k)[k]) /\ Claimed(js, k)[k].status = "RUNNING"
BY DEF Claimed, IsJob

\* A lost attempt ends the job or queues it again.
LEMMA RetriedParts ==
  ASSUME NEW js, NEW k
  PROVE  \E status : Retried(js, k) = Ended(js, k, status)
BY DEF Retried

\* A step of worker w that may change one job, which no other worker handles,
\* and add others.
LEMMA JobsStayGood ==
  ASSUME JobInv, NEW w \in Workers, NEW key \in DOMAIN jobs,
         jobs[key].status # "SUCCEEDED",
         \A v \in Workers : v # w => tx'[v] = tx[v] /\ (tx[v] # Idle => tx[v].job # key),
         DOMAIN tx' = Workers,
         tx'[w] = Idle \/ (tx'[w].job = key /\ jobs'[key].status = "RUNNING"),
         DOMAIN jobs \subseteq DOMAIN jobs', IsJob(jobs'[key]),
         \A k \in DOMAIN jobs : k # key => jobs'[k] = jobs[k],
         \A k \in DOMAIN jobs' \ DOMAIN jobs : GoodKey(k) /\ IsJob(jobs'[k])
  PROVE  JobInv' /\ SuccessStays
<1>1. \A k \in DOMAIN jobs' : GoodKey(k) /\ IsJob(jobs'[k])
  BY DEF JobInv
<1>2. \A v \in Workers : tx'[v] # Idle =>
        tx'[v].job \in DOMAIN jobs' /\ jobs'[tx'[v].job].status = "RUNNING"
  <2>1. TAKE v \in Workers
  <2>2. CASE v = w
    BY <2>2
  <2>3. CASE v # w
    BY <2>3 DEF JobInv
  <2>4. QED
    BY <2>2, <2>3
<1>3. \A u, v \in Workers : tx'[u] # Idle /\ tx'[v] # Idle /\ tx'[u].job = tx'[v].job => u = v
  BY DEF JobInv
<1>4. SuccessStays
  BY DEF SuccessStays
<1>5. QED
  BY <1>1, <1>2, <1>3, <1>4 DEF JobInv, GoodKey, IsJob

\* The owner creates a job.
LEMMA EnqueueKeeps ==
  ASSUME JobInv, NEW k, GoodKey(k), jobs' = create_job(jobs, k), tx' = tx
  PROVE  JobInv' /\ SuccessStays
<1>1. /\ DOMAIN jobs' = DOMAIN jobs \cup {k} /\ \A i \in DOMAIN jobs : jobs'[i] = jobs[i]
      /\ k \notin DOMAIN jobs => jobs'[k] = [status |-> "QUEUED", left |-> Attempts[k.kind]]
  BY CreateJobParts
<1>2. \A i \in DOMAIN jobs' : GoodKey(i) /\ IsJob(jobs'[i])
  BY <1>1 DEF JobInv, IsJob
<1>3. QED
  BY <1>1, <1>2 DEF JobInv, SuccessStays, GoodKey, IsJob

\* A worker begins a job and opens a transaction.
LEMMA ClaimKeeps ==
  ASSUME JobInv, NEW w \in Workers, NEW k \in DOMAIN jobs, NEW kind, Queued(w, k, kind),
         jobs' = Claimed(jobs, k), NEW t, t.job = k, tx' = [tx EXCEPT ![w] = t]
  PROVE  JobInv' /\ SuccessStays
<1>1. /\ DOMAIN jobs' = DOMAIN jobs /\ \A i \in DOMAIN jobs : i # k => jobs'[i] = jobs[i]
      /\ IsJob(jobs'[k]) /\ jobs'[k].status = "RUNNING"
  BY ClaimedParts
<1>2. jobs[k].status = "QUEUED" /\ DOMAIN tx = Workers
  BY DEF Queued, JobInv
<1>3. \A v \in Workers : v # w => tx'[v] = tx[v] /\ (tx[v] # Idle => tx[v].job # k)
  BY <1>2 DEF JobInv
<1>4. DOMAIN tx' = Workers /\ tx'[w] = t
  BY <1>2
<1>5. QED
  BY <1>1, <1>2, <1>3, <1>4, JobsStayGood

\* An attempt that fails before it opens one.
LEMMA SpendKeeps ==
  ASSUME JobInv, NEW w \in Workers, NEW k \in DOMAIN jobs, NEW kind, Queued(w, k, kind),
         NEW status, jobs' = Ended(Claimed(jobs, k), k, status), tx' = tx
  PROVE  JobInv' /\ SuccessStays
<1>1. /\ DOMAIN Claimed(jobs, k) = DOMAIN jobs /\ IsJob(Claimed(jobs, k)[k])
      /\ \A i \in DOMAIN jobs : i # k => Claimed(jobs, k)[i] = jobs[i]
  BY ClaimedParts
<1>2. /\ DOMAIN jobs' = DOMAIN jobs /\ \A i \in DOMAIN jobs : i # k => jobs'[i] = jobs[i]
      /\ IsJob(jobs'[k])
  BY <1>1, EndedParts
<1>3. jobs[k].status = "QUEUED" /\ tx[w] = Idle /\ DOMAIN tx = Workers
  BY DEF Queued, JobInv
<1>4. \A v \in Workers : v # w => tx'[v] = tx[v] /\ (tx[v] # Idle => tx[v].job # k)
  BY <1>3 DEF JobInv
<1>5. QED
  BY <1>2, <1>3, <1>4, JobsStayGood

\* A transaction ends, and its job with it; a successful one may create a job.
LEMMA EndKeeps ==
  ASSUME JobInv, NEW w \in Workers, tx[w] # Idle, tx' = [tx EXCEPT ![w] = Idle], NEW status,
         \/ jobs' = Ended(jobs, tx[w].job, status)
         \/ \E k : GoodKey(k) /\ jobs' = create_job(Ended(jobs, tx[w].job, status), k)
  PROVE  /\ JobInv' /\ SuccessStays
         /\ tx[w].job \in DOMAIN jobs' /\ jobs'[tx[w].job].status = status
<1>1. PICK key \in DOMAIN jobs : key = tx[w].job
  BY DEF JobInv
<1>2. /\ jobs[key].status = "RUNNING" /\ IsJob(jobs[key]) /\ DOMAIN tx = Workers
      /\ \A v \in Workers : v # w /\ tx[v] # Idle => tx[v].job # key
  BY <1>1 DEF JobInv
<1>3. PICK ended : ended = Ended(jobs, key, status)
  OBVIOUS
<1>4. /\ DOMAIN ended = DOMAIN jobs /\ \A i \in DOMAIN jobs : i # key => ended[i] = jobs[i]
      /\ IsJob(ended[key]) /\ ended[key].status = status
  BY <1>2, <1>3, EndedParts
<1>5. /\ DOMAIN jobs \subseteq DOMAIN jobs' /\ \A i \in DOMAIN jobs : jobs'[i] = ended[i]
      /\ \A k \in DOMAIN jobs' \ DOMAIN jobs : GoodKey(k) /\ IsJob(jobs'[k])
  <2>1. CASE jobs' = ended
    BY <1>4, <2>1
  <2>2. CASE \E k : GoodKey(k) /\ jobs' = create_job(ended, k)
    <3>1. PICK k : GoodKey(k) /\ jobs' = create_job(ended, k)
      BY <2>2
    <3>2. /\ DOMAIN jobs' = DOMAIN jobs \cup {k} /\ \A i \in DOMAIN jobs : jobs'[i] = ended[i]
          /\ k \notin DOMAIN jobs => jobs'[k] = [status |-> "QUEUED", left |-> Attempts[k.kind]]
      <4>1. /\ DOMAIN create_job(ended, k) = DOMAIN ended \cup {k}
            /\ \A i \in DOMAIN ended : create_job(ended, k)[i] = ended[i]
            /\ k \notin DOMAIN ended =>
                 create_job(ended, k)[k] = [status |-> "QUEUED", left |-> Attempts[k.kind]]
        BY CreateJobParts
      <4>2. QED
        BY <1>4, <3>1, <4>1
    <3>3. k \notin DOMAIN jobs => IsJob(jobs'[k])
      BY <3>2 DEF IsJob
    <3>4. QED
      BY <3>1, <3>2, <3>3
  <2>3. QED
    BY <1>1, <1>3, <2>1, <2>2
<1>6. \A v \in Workers : v # w => tx'[v] = tx[v]
  BY <1>2
<1>7. DOMAIN tx' = Workers /\ tx'[w] = Idle
  BY <1>2
<1>8. IsJob(jobs'[key]) /\ jobs'[key].status = status /\ \A i \in DOMAIN jobs : i # key => jobs'[i] = jobs[i]
  BY <1>4, <1>5
<1>9. jobs[key].status # "SUCCEEDED"
  BY <1>2
<1>10. JobInv' /\ SuccessStays
  BY <1>2, <1>5, <1>6, <1>7, <1>8, <1>9, JobsStayGood
<1>11. QED
  BY <1>1, <1>5, <1>8, <1>10

\* The owner's and Telegram's steps, which no job handler takes.
Outside ==
  \/ Tick \/ (\E kind \in Kinds, t \in 0..now : Arrive(kind, t)) \/ Send \/ Record
  \/ \E a \in Accounts : \E types : configure_telegram_observation(a, types)
  \/ \E a \in Accounts : \E n : enqueue_telegram_observation_job(a, n)
  \/ \E n : enqueue_checkpoint_interpretation_job(n)

\* The steps of one worker.
Begins(w, k) ==
  \/ \E n \in 1..BatchLimit :
       ObserveBegin(w, k, n) \/ ObserveUnavailable(w, k, n) \/ ObserveRaises(w, k, n)
  \/ MetricBegin(w, k) \/ InterpretBegin(w, k) \/ InterpretRaises(w, k) \/ LearnBegin(w, k)

Continues(w) ==
  \/ \E recorded \in BOOLEAN : ObserveCommit(w, recorded)
  \/ ObserveConflicts(w) \/ MetricCalculate(w) \/ MetricCommit(w) \/ InterpretCommit(w)
  \/ LearnCommit(w) \/ Crash(w)

LEMMA NextCases ==
  ASSUME LearnNext
  PROVE  \/ Outside
         \/ \E w \in Workers, k \in DOMAIN jobs : Begins(w, k)
         \/ \E w \in Workers : Continues(w)
<1>1. CASE Owner
  BY <1>1 DEF Owner, Outside
<1>2. ASSUME NEW w \in Workers, Step(w) PROVE (\E k \in DOMAIN jobs : Begins(w, k)) \/ Continues(w)
  BY <1>2 DEF Step, Begins, Continues
<1>3. ASSUME NEW w \in Workers, Crash(w) PROVE Continues(w)
  BY <1>3 DEF Continues
<1>4. QED
  BY <1>1, <1>2, <1>3 DEF LearnNext, Outside

\* The transaction that a poll opens.
LEMMA PollOpens ==
  ASSUME NEW w, NEW k, NEW n, ObserveBegin(w, k, n)
  PROVE  \E t : /\ tx' = [tx EXCEPT ![w] = t] /\ t.job = k /\ t.step = "polled"
               /\ t.batch = Answer(row[k.account], n) /\ t.last = row[k.account].last
               /\ t.recorded = (publication.stage = "recorded")
<1>1. PICK gap, recorded :
        /\ recorded = (publication.stage = "recorded")
        /\ tx' = [tx EXCEPT ![w] =
             [step |-> "polled", job |-> k, since |-> now, batch |-> Answer(row[k.account], n),
              last |-> row[k.account].last, gap |-> gap,
              fresh |-> Answer(row[k.account], n) \ Stored(k.account), recorded |-> recorded]]
  BY Zenon DEF ObserveBegin
<1> DEFINE t == [step |-> "polled", job |-> k, since |-> now, batch |-> Answer(row[k.account], n),
                 last |-> row[k.account].last, gap |-> gap,
                 fresh |-> Answer(row[k.account], n) \ Stored(k.account), recorded |-> recorded]
<1>2. /\ t.job = k /\ t.step = "polled" /\ t.batch = Answer(row[k.account], n)
      /\ t.last = row[k.account].last /\ t.recorded = recorded
  OBVIOUS
<1>3. tx' = [tx EXCEPT ![w] = t]
  BY <1>1, Zenon
<1> HIDE DEF t
<1>4. QED
  BY <1>1, <1>2, <1>3, Zenon

\* JobInv is inductive.
LEMMA JobInvStep ==
  ASSUME JobInv, LearnNext
  PROVE  JobInv' /\ SuccessStays
<1>1. CASE UNCHANGED <<jobs, tx>>
  BY <1>1 DEF JobInv, SuccessStays, GoodKey, IsJob
<1>2. CASE Outside
  <2>1. CASE Tick \/ (\E kind \in Kinds, t \in 0..now : Arrive(kind, t)) \/ Send \/ Record
               \/ \E a \in Accounts : \E types : configure_telegram_observation(a, types)
    BY <1>1, <2>1 DEF Tick, Arrive, Send, Record, configure_telegram_observation
  <2>2. ASSUME NEW a \in Accounts, NEW n, enqueue_telegram_observation_job(a, n)
        PROVE  JobInv' /\ SuccessStays
    <3>1. GoodKey(Key("observe", a, n))
      BY DEF GoodKey, Key
    <3>2. QED
      BY <2>2, <3>1, EnqueueKeeps DEF enqueue_telegram_observation_job
  <2>3. ASSUME NEW n, enqueue_checkpoint_interpretation_job(n) PROVE JobInv' /\ SuccessStays
    <3>1. GoodKey(Key("interpret", Own, n))
      BY LearningAssumption DEF GoodKey, Key
    <3>2. QED
      BY <2>3, <3>1, EnqueueKeeps DEF enqueue_checkpoint_interpretation_job
  <2>4. QED
    BY <1>2, <2>1, <2>2, <2>3 DEF Outside
<1>3. ASSUME NEW w \in Workers, NEW k \in DOMAIN jobs, Begins(w, k) PROVE JobInv' /\ SuccessStays
  <2>1. ASSUME NEW n \in 1..BatchLimit, ObserveBegin(w, k, n)
        PROVE  JobInv' /\ SuccessStays
    <3>1. PICK t : t.job = k /\ tx' = [tx EXCEPT ![w] = t]
      BY <2>1, PollOpens
    <3>2. Queued(w, k, "observe") /\ jobs' = Claimed(jobs, k)
      BY <2>1, Zenon DEF ObserveBegin
    <3>3. QED
      BY <3>1, <3>2, ClaimKeeps
  <2>2. ASSUME NEW n \in 1..BatchLimit, ObserveUnavailable(w, k, n)
        PROVE  JobInv' /\ SuccessStays
    BY <2>2, SpendKeeps, RetriedParts DEF ObserveUnavailable
  <2>3. ASSUME NEW n \in 1..BatchLimit, ObserveRaises(w, k, n)
        PROVE  JobInv' /\ SuccessStays
    BY <2>3, SpendKeeps DEF ObserveRaises
  <2>4. CASE MetricBegin(w, k)
    <3>1. PICK t : t.job = k /\ tx' = [tx EXCEPT ![w] = t]
      BY <2>4 DEF MetricBegin
    <3>2. QED
      BY <2>4, <3>1, ClaimKeeps DEF MetricBegin
  <2>5. CASE InterpretBegin(w, k)
    <3>1. PICK t : t.job = k /\ tx' = [tx EXCEPT ![w] = t]
      BY <2>5 DEF InterpretBegin
    <3>2. QED
      BY <2>5, <3>1, ClaimKeeps DEF InterpretBegin
  <2>6. CASE InterpretRaises(w, k)
    BY <2>6, SpendKeeps DEF InterpretRaises
  <2>7. CASE LearnBegin(w, k)
    <3>1. PICK t : t.job = k /\ tx' = [tx EXCEPT ![w] = t]
      BY <2>7 DEF LearnBegin
    <3>2. QED
      BY <2>7, <3>1, ClaimKeeps DEF LearnBegin
  <2>8. QED
    BY <1>3, <2>1, <2>2, <2>3, <2>4, <2>5, <2>6, <2>7 DEF Begins
<1>4. ASSUME NEW w \in Workers, Continues(w) PROVE JobInv' /\ SuccessStays
  <2>1. ASSUME tx[w] # Idle PROVE GoodKey(tx[w].job)
    BY <2>1 DEF JobInv
  <2>2. ASSUME NEW recorded, ObserveCommit(w, recorded) PROVE JobInv' /\ SuccessStays
    <3>1. tx[w] # Idle
      BY <2>2 DEF ObserveCommit, Idle
    <3>2. GoodKey(Key("metric", tx[w].job.account, tx[w].job.n))
      BY <2>1, <3>1 DEF GoodKey, Key
    <3>3. \/ jobs' = Ended(jobs, tx[w].job, "SUCCEEDED")
          \/ jobs' = create_job(Ended(jobs, tx[w].job, "SUCCEEDED"),
                               Key("metric", tx[w].job.account, tx[w].job.n))
      BY <2>2 DEF ObserveCommit
    <3>4. QED
      BY <2>2, <3>1, <3>2, <3>3, EndKeeps DEF ObserveCommit
  <2>3. CASE ObserveConflicts(w)
    <3>1. tx[w] # Idle /\ tx' = [tx EXCEPT ![w] = Idle] /\ jobs' = Ended(jobs, tx[w].job, "FAILED")
      BY <2>3 DEF ObserveConflicts, Idle
    <3>2. QED
      BY <3>1, EndKeeps
  <2>4. CASE MetricCalculate(w)
    <3>1. tx[w] # Idle /\ jobs' = jobs
      BY <2>4 DEF MetricCalculate, Idle
    <3>2. PICK t : t.job = tx[w].job /\ t.step = "calculated" /\ tx' = [tx EXCEPT ![w] = t]
      BY <2>4 DEF MetricCalculate
    <3>3. /\ DOMAIN tx' = Workers /\ \A v \in Workers \ {w} : tx'[v] = tx[v]
          /\ tx'[w] # Idle /\ tx'[w].job = tx[w].job
      BY <3>2 DEF JobInv, Idle
    <3>4. QED
      BY <3>1, <3>3 DEF JobInv, SuccessStays, GoodKey, IsJob
  <2>5. CASE MetricCommit(w)
    <3>1. tx[w] # Idle /\ tx' = [tx EXCEPT ![w] = Idle]
            /\ \E status : jobs' = Ended(jobs, tx[w].job, status)
      BY <2>5 DEF MetricCommit, Idle
    <3>2. QED
      BY <3>1, EndKeeps
  <2>6. CASE InterpretCommit(w)
    <3>1. GoodKey(LearnKey(Len(results) + 1))
      BY LearningAssumption DEF GoodKey, LearnKey, Key
    <3>2. /\ tx[w] # Idle /\ tx' = [tx EXCEPT ![w] = Idle]
          /\ jobs' = create_job(Ended(jobs, tx[w].job, "SUCCEEDED"), LearnKey(Len(results) + 1))
      BY <2>6 DEF InterpretCommit, Idle
    <3>3. QED
      BY <3>1, <3>2, EndKeeps
  <2>7. CASE LearnCommit(w)
    <3>1. tx[w] # Idle /\ tx' = [tx EXCEPT ![w] = Idle] /\ jobs' = Ended(jobs, tx[w].job, "SUCCEEDED")
      BY <2>7 DEF LearnCommit, Idle
    <3>2. QED
      BY <3>1, EndKeeps
  <2>8. CASE Crash(w)
    <3>1. tx[w] # Idle /\ tx' = [tx EXCEPT ![w] = Idle] /\ jobs' = Retried(jobs, tx[w].job)
      BY <2>8 DEF Crash, Idle
    <3>2. QED
      BY <3>1, EndKeeps, RetriedParts
  <2>9. QED
    BY <1>4, <2>2, <2>3, <2>4, <2>5, <2>6, <2>7, <2>8 DEF Continues
<1>5. QED
  BY <1>2, <1>3, <1>4, NextCases

-----------------------------------------------------------------------------
(* What the offset of a poll confirms.                                     *)

\* The updates that nobody needs from Telegram any more.
Accounted == dropped \cup skipped \cup {o.update : o \in observations}

\* Every update up to n will be accounted for once the batch is stored.
Through(n, batch) == \A u \in 1..n : u \in batch \cup Accounted

Updates == [kind : Kinds, time : Nat, arrived : Nat]

\* A cursor is behind updates that are accounted for.
GoodCursor(a) ==
  "last" \in DOMAIN row[a] /\ row[a].last \in 0..Len(updates) /\ Through(row[a].last, {})

\* So is every cursor that an open cycle may write, once its batch is stored.
GoodBatch(w) ==
  /\ tx[w].batch \subseteq 1..Len(updates)
  /\ tx[w].last \in 0..Len(updates)
  /\ \A n \in tx[w].batch \cup {tx[w].last} : Through(n, tx[w].batch)

\* The inductive invariant behind NothingConfirmedUnseen.
CursorInv ==
  /\ now \in Nat /\ updates \in Seq(Updates)
  /\ DOMAIN row = Accounts /\ DOMAIN tx = Workers
  /\ queue \subseteq 1..Len(updates)
  /\ \A u \in 1..Len(updates) : u \in queue \cup Accounted
  /\ \A a \in Accounts : GoodCursor(a)
  /\ \A w \in Workers : tx[w].step = "polled" => GoodBatch(w)

\* MaxOf is a member: a set of numbers up to n has a largest one.
LEMMA MaxOfIsMember ==
  ASSUME NEW n \in Nat, NEW S \in SUBSET (1..n), NEW default
  PROVE  MaxOf(S, default) \in S \cup {default}
<1>1. CASE S = {}
  BY <1>1 DEF MaxOf
<1>2. CASE S # {}
  <2> DEFINE T == {k \in Nat : \E s \in S : k = n - s}
  <2>1. PICK s \in S : TRUE
    BY <1>2
  <2>2. n - s \in T
    BY <2>1
  <2>3. \E x \in T : \A y \in T : ~(<<y, x>> \in OpToRel(<, Nat))
    BY <2>2, NatLessThanWellFounded, WFMin
  <2>4. PICK x \in T : \A y \in T : ~(<<y, x>> \in {p \in Nat \X Nat : p[1] < p[2]})
    BY <2>3, Zenon DEF OpToRel
  <2>5. \A y \in T : x <= y
    <3>1. TAKE y \in T
    <3>2. x \in Nat /\ y \in Nat
      OBVIOUS
    <3>3. ~(<<y, x>>[1] < <<y, x>>[2])
      BY <2>4, <3>2, Zenon
    <3>4. QED
      BY <3>2, <3>3
  <2>6. PICK m \in S : x = n - m
    BY <2>4
  <2>7. \A v \in S : v <= m
    <3>1. TAKE v \in S
    <3>2. n - v \in T
      OBVIOUS
    <3>3. QED
      BY <2>5, <2>6, <3>2
  <2>8. QED
    BY <1>2, <2>7 DEF MaxOf
<1>3. QED
  BY <1>1, <1>2

LEMMA CursorInvInit == LearnInit => CursorInv
<1> SUFFICES ASSUME LearnInit PROVE CursorInv
  OBVIOUS
<1>1. updates = <<>> /\ Len(updates) = 0
  BY DEF LearnInit
<1>2. \A a \in Accounts : "last" \in DOMAIN row[a] /\ row[a].last = 0
  BY DEF LearnInit, NoRow
<1>3. \A w \in Workers : tx[w].step = "idle"
  BY DEF LearnInit, Idle
<1>4. QED
  BY <1>1, <1>2, <1>3 DEF LearnInit, CursorInv, GoodCursor, Through

\* A step that adds updates and accounts for more of them keeps the cursors and
\* batches it does not change as good as they are.
LEMMA CursorsStayGood ==
  ASSUME CursorInv, now' \in Nat, updates' \in Seq(Updates), Len(updates) <= Len(updates'),
         Accounted \subseteq Accounted', queue' \subseteq 1..Len(updates'),
         \A u \in 1..Len(updates') : u \in queue' \cup Accounted',
         DOMAIN row' = Accounts, DOMAIN tx' = Workers,
         \A a \in Accounts : row'[a] = row[a] \/ GoodCursor(a)',
         \A w \in Workers : tx'[w].step = "polled" => tx'[w] = tx[w] \/ GoodBatch(w)'
  PROVE  CursorInv'
<1>1. Len(updates) \in Nat /\ Len(updates') \in Nat
  BY DEF CursorInv
<1>2. \A a \in Accounts : GoodCursor(a)'
  <2>1. TAKE a \in Accounts
  <2>2. CASE row'[a] = row[a]
    <3>1. /\ "last" \in DOMAIN row[a] /\ row[a].last \in 0..Len(updates)
          /\ Through(row[a].last, {})
      BY DEF CursorInv, GoodCursor
    <3>2. row[a].last \in 0..Len(updates') /\ \A u \in 1..row[a].last : u \in Accounted'
      BY <1>1, <3>1 DEF Through
    <3>3. QED
      BY <2>2, <3>1, <3>2 DEF GoodCursor, Through
  <2>3. QED
    BY <2>2
<1>3. \A w \in Workers : tx'[w].step = "polled" => GoodBatch(w)'
  <2>1. TAKE w \in Workers
  <2>2. CASE tx'[w] = tx[w] /\ tx'[w].step = "polled"
    <3>1. GoodBatch(w)
      BY <2>2 DEF CursorInv
    <3>2. /\ tx[w].batch \subseteq 1..Len(updates') /\ tx[w].last \in 0..Len(updates')
          /\ \A n \in tx[w].batch \cup {tx[w].last} : \A u \in 1..n : u \in tx[w].batch \cup Accounted'
      BY <1>1, <3>1 DEF GoodBatch, Through
    <3>3. QED
      BY <2>2, <3>2 DEF GoodBatch, Through
  <2>3. QED
    BY <2>2
<1>4. QED
  BY <1>2, <1>3 DEF CursorInv

\* The steps that leave Telegram, the rows and the observations alone.
LEMMA CursorsUntouched ==
  ASSUME CursorInv, now' \in Nat, UNCHANGED <<updates, queue, dropped, skipped, observations, row>>,
         DOMAIN tx' = Workers,
         \A w \in Workers : tx'[w].step = "polled" => tx'[w] = tx[w]
  PROVE  CursorInv'
<1>1. Accounted' = Accounted
  BY DEF Accounted
<1>2. Len(updates) \in Nat /\ updates' = updates /\ queue' = queue /\ row' = row
  BY DEF CursorInv
<1>3. QED
  BY <1>1, <1>2, CursorsStayGood DEF CursorInv

\* An answer holds the earliest of the updates that are wanted.
LEMMA AnswerIsPrefix ==
  ASSUME NEW r, NEW n \in Nat, NEW N \in Nat, queue \subseteq 1..N,
         NEW u \in Answer(r, n), NEW v \in Wanted(r), v <= u
  PROVE  v \in Answer(r, n)
<1> DEFINE UpTo(x) == {y \in Wanted(r) : y <= x}
<1>1. Wanted(r) \subseteq 1..N /\ u \in Wanted(r) /\ Cardinality(UpTo(u)) <= n
  BY DEF Wanted, Unconfirmed, Answer
<1>2. IsFiniteSet(1..N)
  BY FS_Interval
<1>3. IsFiniteSet(UpTo(u))
  BY <1>1, <1>2, FS_Subset
<1>4. UpTo(v) \subseteq UpTo(u)
  BY <1>1
<1>5. /\ Cardinality(UpTo(v)) <= Cardinality(UpTo(u))
      /\ Cardinality(UpTo(v)) \in Nat /\ Cardinality(UpTo(u)) \in Nat
  <2>1. IsFiniteSet(UpTo(v)) /\ Cardinality(UpTo(v)) <= Cardinality(UpTo(u))
    BY <1>3, <1>4, FS_Subset
  <2>2. QED
    BY <1>3, <2>1, FS_CardinalityType
<1>6. Cardinality(UpTo(v)) <= n
  BY <1>1, <1>5
<1>7. QED
  BY <1>6 DEF Answer

\* A poll makes Telegram forget only what is accounted for, and its answer fits
\* the cursor that it was made with: what it leaves behind is later.
LEMMA PollIsGood ==
  ASSUME CursorInv, NEW a \in Accounts, NEW n \in 1..BatchLimit, Poll(row[a], n),
         UNCHANGED observations
  PROVE  /\ updates' = updates /\ Accounted \subseteq Accounted'
         /\ queue' \subseteq 1..Len(updates')
         /\ \A u \in 1..Len(updates') : u \in queue' \cup Accounted'
         /\ Answer(row[a], n) \subseteq 1..Len(updates')
         /\ row[a].last \in 0..Len(updates')
         /\ \A m \in Answer(row[a], n) \cup {row[a].last} :
              \A u \in 1..m : u \in Answer(row[a], n) \cup Accounted'
<1> DEFINE last == row[a].last
           U == {u \in queue : u > last}
           W == Wanted(row[a])
           A == Answer(row[a], n)
<1>1. /\ updates' = updates /\ queue' = U /\ dropped' = dropped
      /\ skipped' = skipped \cup (U \ W) /\ observations' = observations
  BY DEF Poll, Unconfirmed
<1>2. (W = U \/ W = {}) /\ A \subseteq W
  BY DEF Wanted, Answer, Unconfirmed
<1>3. /\ Len(updates) \in Nat /\ queue \subseteq 1..Len(updates) /\ last \in 0..Len(updates)
      /\ \A u \in 1..Len(updates) : u \in queue \cup Accounted
      /\ \A u \in 1..last : u \in Accounted
  BY DEF CursorInv, GoodCursor, Through
<1>4. Accounted' = Accounted \cup (U \ W)
  BY <1>1 DEF Accounted
<1>5. \A u \in A, v \in W : v <= u => v \in A
  <2>1. n \in Nat
    BY LearningAssumption DEF LearningAssumption
  <2>2. QED
    BY <1>3, <2>1, AnswerIsPrefix
<1> HIDE DEF A, W, last
<1>6. \A u \in 1..Len(updates) : u \in U \cup Accounted
  BY <1>3
<1>7. \A m \in A \cup {last} : m \in 0..Len(updates) /\ \A u \in 1..m : u \in A \cup Accounted'
  <2>1. TAKE m \in A \cup {last}
  <2>2. CASE m = last
    BY <2>2, <1>3, <1>4
  <2>3. CASE m \in A
    <3>1. W = U /\ m \in queue /\ m \in 1..Len(updates)
      BY <1>2, <1>3, <2>3
    <3>2. \A u \in 1..m : u \in 1..Len(updates) /\ u <= m
      BY <1>3, <3>1
    <3>3. \A u \in 1..m : u \in U => u \in A
      BY <1>5, <2>3, <3>1, <3>2
    <3>4. QED
      BY <1>3, <1>4, <1>6, <3>1, <3>2, <3>3
  <2>4. QED
    BY <2>2, <2>3
<1>8. A \subseteq 1..Len(updates)
  BY <1>2, <1>3
<1>9. \A u \in 1..Len(updates) : u \in U \cup Accounted'
  BY <1>4, <1>6
<1>10. QED
  BY <1>1, <1>3, <1>4, <1>7, <1>8, <1>9 DEF A, last

\* The observations of a batch: one for each update that is not stored yet.
LEMMA NormalizedParts ==
  ASSUME NEW t, NEW recorded, NEW l, l = (recorded /\ t.job.account = Own)
  PROVE  /\ \A u \in t.batch \ Stored(t.job.account) : \E o \in Normalized(t, recorded) : o.update = u
         /\ \A o \in Normalized(t, recorded) :
              /\ o.update \in t.batch \ Stored(t.job.account)
              /\ o = [account |-> t.job.account, update |-> o.update, linked |-> l, by |-> t.job.n]
<1> DEFINE B == t.batch \ Stored(t.job.account)
           Of(u) == [account |-> t.job.account, update |-> u, linked |-> l, by |-> t.job.n]
<1>1. Normalized(t, recorded) = {Of(u) : u \in B}
  BY DEF Normalized
<1>2. \A u : Of(u).update = u
  OBVIOUS
<1> HIDE DEF B
<1>3. \A u \in B : Of(u) \in Normalized(t, recorded)
  BY <1>1
<1>4. QED
  BY <1>1, <1>2, <1>3 DEF B

\* What a cycle commits makes good every cursor that it may write.
LEMMA CommitIsGood ==
  ASSUME CursorInv, NEW w \in Workers, NEW recorded, ObserveCommit(w, recorded),
         NEW a \in Accounts, a = tx[w].job.account
  PROVE  CursorInv'
<1> DEFINE t == tx[w]
<1>1. /\ GoodBatch(w) /\ DOMAIN tx = Workers /\ DOMAIN row = Accounts
      /\ t.step = "polled" /\ Len(updates) \in Nat
  BY DEF CursorInv, ObserveCommit
<1>2. /\ tx' = [tx EXCEPT ![w] = Idle] /\ row' = [row EXCEPT ![a] = Written(row[a], t)]
      /\ observations' = observations \cup Normalized(t, recorded)
      /\ UNCHANGED <<now, updates, queue, dropped, skipped>>
  BY DEF ObserveCommit, telegramVars
<1>3. \A v \in Workers : tx'[v].step = "polled" => tx'[v] = tx[v]
  BY <1>1, <1>2 DEF Idle
<1>4. {o.update : o \in observations'} = {o.update : o \in observations} \cup t.batch
  <2>1. /\ \A u \in t.batch \ Stored(a) : \E o \in Normalized(t, recorded) : o.update = u
        /\ \A o \in Normalized(t, recorded) : o.update \in t.batch
    BY NormalizedParts
  <2>2. \A u \in Stored(a) : \E o \in observations : o.update = u
    BY DEF Stored
  <2>3. QED
    BY <1>2, <2>1, <2>2
<1>5. Accounted' = Accounted \cup t.batch
  BY <1>2, <1>4 DEF Accounted
<1>6. row'[a].last = row[a].last \/ row'[a].last = MaxOf(t.batch, t.last)
  BY <1>1, <1>2 DEF Written
<1>7. MaxOf(t.batch, t.last) \in t.batch \cup {t.last}
  BY <1>1, MaxOfIsMember DEF GoodBatch
<1>8. GoodCursor(a)'
  <2>1. PICK n \in t.batch \cup {t.last, row[a].last} : row'[a].last = n
    BY <1>6, <1>7
  <2>2. n \in 0..Len(updates) /\ Through(n, t.batch)
    <3>1. row[a].last \in 0..Len(updates) /\ Through(row[a].last, {})
      BY DEF CursorInv, GoodCursor
    <3>2. QED
      BY <1>1, <2>1, <3>1 DEF GoodBatch, Through
  <2>3. \A u \in 1..n : u \in Accounted'
    BY <1>5, <2>2 DEF Through
  <2>4. "last" \in DOMAIN row'[a]
    BY <1>1, <1>2 DEF Written
  <2>5. QED
    BY <1>2, <2>1, <2>2, <2>3, <2>4 DEF GoodCursor, Through
<1>9. \A b \in Accounts : row'[b] = row[b] \/ GoodCursor(b)'
  <2>1. TAKE b \in Accounts
  <2>2. CASE b = a
    BY <1>8, <2>2
  <2>3. CASE b # a
    BY <1>1, <1>2, <2>3
  <2>4. QED
    BY <2>2, <2>3
<1>10. QED
  <2>1. DOMAIN row' = Accounts /\ DOMAIN tx' = Workers
    BY <1>1, <1>2
  <2>2. /\ now' \in Nat /\ updates' \in Seq(Updates) /\ Len(updates) <= Len(updates')
        /\ queue' \subseteq 1..Len(updates') /\ Accounted \subseteq Accounted'
        /\ \A u \in 1..Len(updates') : u \in queue' \cup Accounted'
    BY <1>1, <1>2, <1>5 DEF CursorInv
  <2>3. QED
    BY <1>3, <1>9, <2>1, <2>2, CursorsStayGood

LEMMA CursorInvStep ==
  ASSUME JobInv, CursorInv, LearnNext
  PROVE  CursorInv'
<1>1. /\ Len(updates) \in Nat /\ now \in Nat /\ updates \in Seq(Updates)
      /\ DOMAIN row = Accounts /\ DOMAIN tx = Workers
  BY DEF CursorInv
<1>2. CASE Tick
  <2>1. PICK aged \in SUBSET queue : queue' = queue \ aged /\ dropped' = dropped \cup aged
    BY <1>2 DEF Tick
  <2>2. UNCHANGED <<updates, skipped, observations, row, tx>> /\ now' = now + 1
    BY <1>2 DEF Tick
  <2>3. Accounted' = Accounted \cup aged
    BY <2>1, <2>2 DEF Accounted
  <2>4. /\ now' \in Nat /\ updates' \in Seq(Updates) /\ Len(updates) <= Len(updates')
        /\ queue' \subseteq 1..Len(updates') /\ Accounted \subseteq Accounted'
        /\ \A u \in 1..Len(updates') : u \in queue' \cup Accounted'
    BY <1>1, <2>1, <2>2, <2>3 DEF CursorInv
  <2>5. QED
    BY <1>1, <2>2, <2>4, CursorsStayGood
<1>3. ASSUME NEW kind \in Kinds, NEW t \in 0..now, Arrive(kind, t) PROVE CursorInv'
  <2> DEFINE u == [kind |-> kind, time |-> t, arrived |-> now]
  <2>1. /\ updates' = Append(updates, u) /\ queue' = queue \cup {Len(updates) + 1}
        /\ UNCHANGED <<now, dropped, skipped, row, observations, tx>>
    BY <1>3 DEF Arrive
  <2>2. u \in Updates
    BY <1>1 DEF Updates
  <2> HIDE DEF u
  <2>3. updates' \in Seq(Updates) /\ Len(updates') = Len(updates) + 1
    BY <1>1, <2>1, <2>2
  <2>4. Accounted' = Accounted
    BY <2>1 DEF Accounted
  <2>5. /\ Len(updates) <= Len(updates') /\ queue' \subseteq 1..Len(updates')
        /\ \A n \in 1..Len(updates') : n \in queue' \cup Accounted'
    <3>1. queue \subseteq 1..Len(updates) /\ \A n \in 1..Len(updates) : n \in queue \cup Accounted
      BY DEF CursorInv
    <3>2. \A n \in 1..Len(updates') : n \in 1..Len(updates) \/ n = Len(updates) + 1
      BY <1>1, <2>3
    <3>3. \A n \in 1..Len(updates') : n \in queue' \cup Accounted'
      BY <2>1, <2>4, <3>1, <3>2
    <3>4. Len(updates) <= Len(updates') /\ Len(updates) + 1 \in 1..Len(updates')
            /\ \A n \in 1..Len(updates) : n \in 1..Len(updates')
      BY <1>1, <2>3
    <3>5. queue' \subseteq 1..Len(updates')
      BY <2>1, <3>1, <3>4
    <3>6. QED
      BY <3>3, <3>4, <3>5
  <2>6. QED
    BY <1>1, <2>1, <2>3, <2>4, <2>5, CursorsStayGood
<1>4. CASE Send \/ Record \/ (\E a \in Accounts : \E n : enqueue_telegram_observation_job(a, n))
             \/ (\E n : enqueue_checkpoint_interpretation_job(n))
  BY <1>1, <1>4, CursorsUntouched DEF Send, Record, enqueue_telegram_observation_job,
       enqueue_checkpoint_interpretation_job, telegramVars
<1>5. ASSUME NEW a \in Accounts, NEW types, configure_telegram_observation(a, types)
      PROVE  CursorInv'
  <2>1. /\ "last" \in DOMAIN row[a] /\ row[a].last \in 0..Len(updates)
        /\ \A u \in 1..row[a].last : u \in Accounted
    BY DEF CursorInv, GoodCursor, Through
  <2>2. PICK r : "last" \in DOMAIN r /\ r.last \in {0, row[a].last} /\ row' = [row EXCEPT ![a] = r]
    BY <1>5, <2>1 DEF configure_telegram_observation
  <2>3. UNCHANGED <<now, updates, queue, dropped, skipped, observations, tx>>
    BY <1>5 DEF configure_telegram_observation, telegramVars
  <2>4. Accounted' = Accounted
    BY <2>3 DEF Accounted
  <2>5. row'[a] = r /\ \A b \in Accounts : b # a => row'[b] = row[b]
    BY <1>1, <2>2
  <2>6. GoodCursor(a)'
    BY <1>1, <2>1, <2>2, <2>3, <2>4, <2>5 DEF GoodCursor, Through
  <2>7. \A b \in Accounts : row'[b] = row[b] \/ GoodCursor(b)'
    BY <2>5, <2>6
  <2>8. /\ now' \in Nat /\ updates' \in Seq(Updates) /\ Len(updates) <= Len(updates')
        /\ queue' \subseteq 1..Len(updates') /\ DOMAIN row' = Accounts
        /\ \A u \in 1..Len(updates') : u \in queue' \cup Accounted'
    BY <1>1, <2>2, <2>3, <2>4 DEF CursorInv
  <2>9. QED
    BY <1>1, <2>3, <2>4, <2>7, <2>8, CursorsStayGood
<1>6. ASSUME NEW w \in Workers, NEW k \in DOMAIN jobs, Begins(w, k) PROVE CursorInv'
  <2>1. k.account \in Accounts
    BY DEF JobInv, GoodKey
  <2>2. ASSUME NEW n \in 1..BatchLimit, Poll(row[k.account], n),
               UNCHANGED <<now, observations, row, tx>>
        PROVE  CursorInv'
    <3>1. /\ updates' = updates /\ Accounted \subseteq Accounted' /\ queue' \subseteq 1..Len(updates')
          /\ \A u \in 1..Len(updates') : u \in queue' \cup Accounted'
      BY <2>1, <2>2, PollIsGood
    <3>2. QED
      BY <1>1, <2>2, <3>1, CursorsStayGood
  <2>3. ASSUME NEW n \in 1..BatchLimit, ObserveBegin(w, k, n)
        PROVE  CursorInv'
    <3>1. /\ Poll(row[k.account], n) /\ UNCHANGED <<now, observations, row>>
      BY <2>3, Zenon DEF ObserveBegin
    <3>2. PICK t : /\ tx' = [tx EXCEPT ![w] = t]
                   /\ t.batch = Answer(row[k.account], n) /\ t.last = row[k.account].last
      BY <2>3, PollOpens
    <3>3. /\ updates' = updates /\ Accounted \subseteq Accounted' /\ queue' \subseteq 1..Len(updates')
          /\ \A u \in 1..Len(updates') : u \in queue' \cup Accounted'
          /\ t.batch \subseteq 1..Len(updates') /\ t.last \in 0..Len(updates')
          /\ \A m \in t.batch \cup {t.last} : \A u \in 1..m : u \in t.batch \cup Accounted'
      BY <2>1, <3>1, <3>2, PollIsGood
    <3>4. tx'[w] = t /\ DOMAIN tx' = Workers /\ \A v \in Workers : v # w => tx'[v] = tx[v]
      BY <1>1, <3>2
    <3>5. GoodBatch(w)'
      BY <3>3, <3>4 DEF GoodBatch, Through
    <3>6. \A v \in Workers : tx'[v].step = "polled" => tx'[v] = tx[v] \/ GoodBatch(v)'
      BY <3>4, <3>5
    <3>7. QED
      BY <1>1, <3>1, <3>3, <3>4, <3>6, CursorsStayGood
  <2>4. ASSUME NEW n \in 1..BatchLimit, ObserveUnavailable(w, k, n)
        PROVE  CursorInv'
    <3>1. Poll(row[k.account], n) \/ UNCHANGED telegramVars
      BY <2>4 DEF ObserveUnavailable
    <3>2. UNCHANGED <<now, observations, row, tx>>
      BY <2>4 DEF ObserveUnavailable
    <3>3. QED
      BY <1>1, <2>2, <3>1, <3>2, CursorsUntouched DEF telegramVars
  <2>5. ASSUME NEW n \in 1..BatchLimit, ObserveRaises(w, k, n)
        PROVE  CursorInv'
    <3>1. Poll(row[k.account], n) \/ UNCHANGED telegramVars
      BY <2>5 DEF ObserveRaises
    <3>2. UNCHANGED <<now, observations, row, tx>>
      BY <2>5 DEF ObserveRaises
    <3>3. QED
      BY <1>1, <2>2, <3>1, <3>2, CursorsUntouched DEF telegramVars
  <2>6. CASE MetricBegin(w, k) \/ InterpretBegin(w, k) \/ LearnBegin(w, k)
    <3>1. PICK t : t.step # "polled" /\ tx' = [tx EXCEPT ![w] = t]
      BY <2>6 DEF MetricBegin, InterpretBegin, LearnBegin
    <3>2. UNCHANGED <<now, updates, queue, dropped, skipped, observations, row>>
      BY <2>6 DEF MetricBegin, InterpretBegin, LearnBegin, telegramVars
    <3>3. QED
      BY <1>1, <3>1, <3>2, CursorsUntouched
  <2>7. CASE InterpretRaises(w, k)
    BY <1>1, <2>7, CursorsUntouched DEF InterpretRaises, telegramVars
  <2>8. QED
    BY <1>6, <2>3, <2>4, <2>5, <2>6, <2>7 DEF Begins
<1>7. ASSUME NEW w \in Workers, Continues(w) PROVE CursorInv'
  <2>1. ASSUME NEW recorded, ObserveCommit(w, recorded) PROVE CursorInv'
    <3>1. tx[w] # Idle
      BY <2>1 DEF ObserveCommit, Idle
    <3>2. tx[w].job.account \in Accounts
      BY <3>1 DEF JobInv, GoodKey
    <3>3. QED
      BY <2>1, <3>2, CommitIsGood
  <2>2. CASE ObserveConflicts(w) \/ MetricCalculate(w) \/ MetricCommit(w) \/ InterpretCommit(w)
               \/ LearnCommit(w) \/ Crash(w)
    <3>1. PICK t : t.step # "polled" /\ tx' = [tx EXCEPT ![w] = t]
      BY <2>2 DEF ObserveConflicts, MetricCalculate, MetricCommit, InterpretCommit, LearnCommit,
           Crash, Idle
    <3>2. UNCHANGED <<now, updates, queue, dropped, skipped, observations, row>>
      BY <2>2 DEF ObserveConflicts, MetricCalculate, MetricCommit, InterpretCommit, LearnCommit,
           Crash, telegramVars
    <3>3. QED
      BY <1>1, <3>1, <3>2, CursorsUntouched
  <2>3. QED
    BY <1>7, <2>1, <2>2 DEF Continues
<1>8. QED
  BY <1>2, <1>3, <1>4, <1>5, <1>6, <1>7, NextCases DEF Outside

\* Whatever crashes, overlaps, is lost or is polled by several accounts: an
\* update that Telegram no longer offers is stored, unless Telegram dropped it
\* or its type was not asked for (TelegramObservationHandler's offset).
THEOREM ConfirmedIsStored == LearnSpec => []NothingConfirmedUnseen
<1>1. LearnInit => JobInv /\ CursorInv
  BY JobInvInit, CursorInvInit
<1>2. JobInv /\ CursorInv /\ [LearnNext]_learnVars => (JobInv /\ CursorInv)'
  <2> SUFFICES ASSUME JobInv, CursorInv, [LearnNext]_learnVars PROVE JobInv' /\ CursorInv'
    OBVIOUS
  <2>1. CASE LearnNext
    BY <2>1, JobInvStep, CursorInvStep
  <2>2. CASE UNCHANGED learnVars
    <3>1. UNCHANGED <<now, updates, queue, dropped, skipped, observations, row, jobs, tx>>
      BY <2>2 DEF learnVars, telegramVars
    <3>2. JobInv'
      BY <3>1 DEF JobInv, GoodKey, IsJob
    <3>3. CursorInv'
      BY <3>1, CursorsUntouched DEF CursorInv
    <3>4. QED
      BY <3>2, <3>3
  <2>3. QED
    BY <2>1, <2>2
<1>3. CursorInv => NothingConfirmedUnseen
  BY DEF CursorInv, NothingConfirmedUnseen, Accounted
<1>4. QED
  BY <1>1, <1>2, <1>3, PTL DEF LearnSpec

-----------------------------------------------------------------------------
(* Results.                                                                *)

\* The inductive invariant behind NoLateResult: open interpretations began
\* before the first result, and the job of each result's version is over.
ResultInv ==
  /\ \E S : results \in Seq(S)
  /\ publication = [stage |-> publication.stage, at |-> publication.at]
  /\ publication.stage # "recorded" => experiment = "DRAFT"
  /\ experiment = "COMPLETE" <=> results # <<>>
  /\ \A w \in Workers : tx[w].step = "interpreted" =>
       tx[w].seen = 0 /\ tx[w].job.kind = "interpret" /\ publication.stage = "recorded"
  /\ \A i \in 1..Len(results) :
       /\ results[i].seen = 0
       /\ Key("interpret", Own, results[i].metric) \in DOMAIN jobs
       /\ jobs[Key("interpret", Own, results[i].metric)].status = "SUCCEEDED"
  /\ \A i, j \in 1..Len(results) : results[i].metric = results[j].metric => i = j

LEMMA ResultInvInit == LearnInit => ResultInv
<1> SUFFICES ASSUME LearnInit PROVE ResultInv
  OBVIOUS
<1>1. results = <<>> /\ Len(results) = 0 /\ results \in Seq({})
  BY DEF LearnInit
<1>2. \A w \in Workers : tx[w].step = "idle"
  BY DEF LearnInit, Idle
<1>3. publication = [stage |-> "unsent", at |-> 0] /\ experiment = "DRAFT"
  BY DEF LearnInit
<1>4. QED
  BY <1>1, <1>2, <1>3 DEF ResultInv

\* The steps that leave results, experiment and publication alone.
LEMMA ResultsUntouched ==
  ASSUME ResultInv, SuccessStays, UNCHANGED <<results, experiment, publication>>,
         \A w \in Workers : tx'[w].step = "interpreted" => tx'[w] = tx[w]
  PROVE  ResultInv'
<1>1. \A i \in 1..Len(results) :
        /\ results[i].seen = 0
        /\ Key("interpret", Own, results[i].metric) \in DOMAIN jobs'
        /\ jobs'[Key("interpret", Own, results[i].metric)].status = "SUCCEEDED"
  BY DEF ResultInv, SuccessStays
<1>2. results' = results /\ experiment' = experiment /\ publication' = publication
  OBVIOUS
<1>3. \A w \in Workers : tx'[w].step = "interpreted" =>
        tx'[w].seen = 0 /\ tx'[w].job.kind = "interpret" /\ publication'.stage = "recorded"
  BY <1>2 DEF ResultInv
<1>4. QED
  BY <1>1, <1>2, <1>3 DEF ResultInv, Key

\* A result is committed: the job of its version was still running.
LEMMA InterpretCommitKeeps ==
  ASSUME JobInv, ResultInv, NEW w \in Workers, InterpretCommit(w)
  PROVE  ResultInv'
<1>1. /\ tx[w].step = "interpreted" /\ tx[w] # Idle /\ tx' = [tx EXCEPT ![w] = Idle]
      /\ experiment' = "COMPLETE" /\ publication' = publication
      /\ jobs' = create_job(Ended(jobs, tx[w].job, "SUCCEEDED"), LearnKey(Len(results) + 1))
  BY DEF InterpretCommit, Idle
<1>2. PICK key : key = tx[w].job
  OBVIOUS
<1>3. tx[w].seen = 0 /\ key.kind = "interpret" /\ publication.stage = "recorded"
  BY <1>1, <1>2 DEF ResultInv
<1>4. key \in DOMAIN jobs /\ jobs[key].status = "RUNNING" /\ key = Key("interpret", Own, key.n)
  BY <1>1, <1>2, <1>3 DEF JobInv, GoodKey
<1>5. GoodKey(LearnKey(Len(results) + 1))
  BY LearningAssumption DEF GoodKey, LearnKey, Key
<1>6. JobInv' /\ SuccessStays /\ key \in DOMAIN jobs' /\ jobs'[key].status = "SUCCEEDED"
  BY <1>1, <1>2, <1>5, EndKeeps
<1>7. PICK r : r.metric = key.n /\ r.seen = 0 /\ results' = Append(results, r)
  <2> DEFINE r == [metric |-> key.n, seen |-> tx[w].seen, class |-> Interpretation(metrics[key.n])]
  <2>1. results' = Append(results, r)
    BY <1>2 DEF InterpretCommit
  <2>2. r.metric = key.n /\ r.seen = 0
    BY <1>3
  <2> HIDE DEF r
  <2>3. QED
    BY <2>1, <2>2
<1>8. PICK S : results \in Seq(S)
  BY DEF ResultInv
<1>9. /\ results' \in Seq(S \cup {r}) /\ Len(results) \in Nat /\ Len(results') = Len(results) + 1
      /\ results' # <<>> /\ results'[Len(results) + 1] = r
      /\ \A i \in 1..Len(results) : results'[i] = results[i]
  <2>1. results \in Seq(S \cup {r}) /\ r \in S \cup {r} /\ Len(results) \in Nat
    BY <1>8
  <2>2. QED
    BY <1>7, <2>1
<1>10. \A i \in 1..Len(results') : i \in 1..Len(results) \/ i = Len(results) + 1
  BY <1>9
<1>11. \A i \in 1..Len(results) :
         /\ results[i].seen = 0 /\ results[i].metric # key.n
         /\ Key("interpret", Own, results[i].metric) \in DOMAIN jobs'
         /\ jobs'[Key("interpret", Own, results[i].metric)].status = "SUCCEEDED"
  BY <1>4, <1>6 DEF ResultInv, SuccessStays
<1>12. \A i \in 1..Len(results') :
         /\ results'[i].seen = 0
         /\ Key("interpret", Own, results'[i].metric) \in DOMAIN jobs'
         /\ jobs'[Key("interpret", Own, results'[i].metric)].status = "SUCCEEDED"
  BY <1>4, <1>6, <1>7, <1>9, <1>10, <1>11
<1>13. \A i, j \in 1..Len(results') : results'[i].metric = results'[j].metric => i = j
  <2>1. \A i, j \in 1..Len(results) : results[i].metric = results[j].metric => i = j
    BY DEF ResultInv
  <2>2. QED
    BY <1>7, <1>9, <1>10, <1>11, <2>1
<1>14. \A v \in Workers : tx'[v].step = "interpreted" => tx'[v] = tx[v]
  BY <1>1 DEF JobInv, Idle
<1>15. \A v \in Workers : tx'[v].step = "interpreted" =>
         tx'[v].seen = 0 /\ tx'[v].job.kind = "interpret" /\ publication'.stage = "recorded"
  BY <1>1, <1>14 DEF ResultInv
<1>16. publication' = [stage |-> publication'.stage, at |-> publication'.at]
  BY <1>1 DEF ResultInv
<1>17. \E T : results' \in Seq(T)
  BY <1>9
<1>18. QED
  BY <1>1, <1>3, <1>9, <1>12, <1>13, <1>15, <1>16, <1>17 DEF ResultInv, Key

LEMMA ResultInvStep ==
  ASSUME JobInv, ResultInv, LearnNext
  PROVE  ResultInv'
<1>1. SuccessStays /\ DOMAIN tx = Workers
  BY JobInvStep DEF JobInv
<1>2. CASE Send \/ Record
  <2>1. /\ publication.stage # "recorded" /\ experiment = "DRAFT" /\ results = <<>>
        /\ UNCHANGED <<results, jobs, tx>>
    BY <1>2 DEF Send, Record, ResultInv
  <2>2. /\ publication' = [stage |-> publication'.stage, at |-> publication'.at]
        /\ publication'.stage # "recorded" => experiment' = "DRAFT"
        /\ experiment' # "COMPLETE"
    BY <1>2, <2>1 DEF Send, Record, ResultInv
  <2>3. \A w \in Workers : tx[w].step # "interpreted"
    BY <2>1 DEF ResultInv
  <2>4. Len(results) = 0 /\ results' = <<>> /\ results' \in Seq({})
    BY <2>1
  <2>5. QED
    BY <2>1, <2>2, <2>3, <2>4 DEF ResultInv
<1>3. CASE Outside
  <2>1. Send \/ Record \/ UNCHANGED <<results, experiment, publication, tx>>
    BY <1>3 DEF Outside, Tick, Arrive, configure_telegram_observation,
         enqueue_telegram_observation_job, enqueue_checkpoint_interpretation_job
  <2>2. QED
    BY <1>1, <1>2, <2>1, ResultsUntouched
<1>4. ASSUME NEW w \in Workers, NEW k \in DOMAIN jobs, Begins(w, k) PROVE ResultInv'
  <2>1. CASE InterpretBegin(w, k)
    <3>1. PICK t : /\ t.job = k /\ t.seen = Len(results) /\ t.step = "interpreted"
                   /\ tx' = [tx EXCEPT ![w] = t]
      BY <2>1 DEF InterpretBegin
    <3>2. k.kind = "interpret" /\ experiment = "RUNNING" /\ UNCHANGED <<results, experiment, publication>>
      BY <2>1 DEF InterpretBegin, Queued, Interpretable
    <3>3. results = <<>> /\ publication.stage = "recorded"
      BY <3>2 DEF ResultInv
    <3>4. Len(results) = 0
      BY <3>3
    <3>5. \A v \in Workers : tx'[v].step = "interpreted" =>
            tx'[v].seen = 0 /\ tx'[v].job.kind = "interpret"
      BY <1>1, <3>1, <3>2, <3>4 DEF ResultInv
    <3>6. results' = <<>> /\ Len(results') = 0 /\ publication' = publication /\ experiment' = experiment
      BY <3>2, <3>3
    <3>7. QED
      BY <3>2, <3>3, <3>5, <3>6 DEF ResultInv
  <2>2. ASSUME NEW n \in 1..BatchLimit, ObserveBegin(w, k, n)
        PROVE  ResultInv'
    <3>1. PICK t : t.step = "polled" /\ tx' = [tx EXCEPT ![w] = t]
      BY <2>2, PollOpens
    <3>2. UNCHANGED <<results, experiment, publication>>
      BY <2>2, Zenon DEF ObserveBegin
    <3>3. QED
      BY <1>1, <3>1, <3>2, ResultsUntouched
  <2>3. CASE MetricBegin(w, k) \/ LearnBegin(w, k)
    <3>1. PICK t : t.step # "interpreted" /\ tx' = [tx EXCEPT ![w] = t]
      BY <2>3 DEF MetricBegin, LearnBegin
    <3>2. UNCHANGED <<results, experiment, publication>>
      BY <2>3 DEF MetricBegin, LearnBegin
    <3>3. QED
      BY <1>1, <3>1, <3>2, ResultsUntouched
  <2>4. CASE (\E n : ObserveUnavailable(w, k, n) \/ ObserveRaises(w, k, n)) \/ InterpretRaises(w, k)
    <3>1. UNCHANGED <<results, experiment, publication, tx>>
      BY <2>4 DEF ObserveUnavailable, ObserveRaises, InterpretRaises
    <3>2. QED
      BY <1>1, <3>1, ResultsUntouched
  <2>5. QED
    BY <1>4, <2>1, <2>2, <2>3, <2>4 DEF Begins
<1>5. ASSUME NEW w \in Workers, Continues(w) PROVE ResultInv'
  <2>1. CASE InterpretCommit(w)
    BY <2>1, InterpretCommitKeeps
  <2>2. ASSUME NEW recorded, ObserveCommit(w, recorded) PROVE ResultInv'
    <3>1. tx' = [tx EXCEPT ![w] = Idle] /\ UNCHANGED <<results, experiment, publication>>
      BY <2>2, Zenon DEF ObserveCommit
    <3>2. \A v \in Workers : tx'[v].step = "interpreted" => tx'[v] = tx[v]
      BY <1>1, <3>1 DEF Idle
    <3>3. QED
      BY <1>1, <3>1, <3>2, ResultsUntouched
  <2>3. CASE ObserveConflicts(w) \/ MetricCalculate(w) \/ MetricCommit(w) \/ LearnCommit(w) \/ Crash(w)
    <3>1. PICK t : t.step # "interpreted" /\ tx' = [tx EXCEPT ![w] = t]
      BY <2>3 DEF ObserveConflicts, MetricCalculate, MetricCommit, LearnCommit, Crash, Idle
    <3>2. UNCHANGED <<results, experiment, publication>>
      BY <2>3 DEF ObserveConflicts, MetricCalculate, MetricCommit, LearnCommit, Crash
    <3>3. QED
      BY <1>1, <3>1, <3>2, ResultsUntouched
  <2>4. QED
    BY <1>5, <2>1, <2>2, <2>3 DEF Continues
<1>6. QED
  BY <1>3, <1>4, <1>5, NextCases

\* An experiment is interpreted once, or by transactions that all read it
\* before the first result was committed, and each version at most once
\* (interpret_checkpoint, InterpretCheckpointHandler).
THEOREM ResultsComeFirst == LearnSpec => []NoLateResult
<1>1. LearnInit => JobInv /\ ResultInv
  BY JobInvInit, ResultInvInit
<1>2. JobInv /\ ResultInv /\ [LearnNext]_learnVars => (JobInv /\ ResultInv)'
  <2> SUFFICES ASSUME JobInv, ResultInv, [LearnNext]_learnVars PROVE JobInv' /\ ResultInv'
    OBVIOUS
  <2>1. CASE LearnNext
    BY <2>1, JobInvStep, ResultInvStep
  <2>2. CASE UNCHANGED learnVars
    <3>1. UNCHANGED <<results, experiment, publication, jobs, tx>>
      BY <2>2 DEF learnVars
    <3>2. JobInv' /\ SuccessStays
      BY <3>1 DEF JobInv, GoodKey, IsJob, SuccessStays
    <3>3. QED
      BY <3>1, <3>2, ResultsUntouched
  <2>3. QED
    BY <2>1, <2>2
<1>3. ResultInv => NoLateResult
  <2> SUFFICES ASSUME ResultInv PROVE NoLateResult
    OBVIOUS
  <2>1. DOMAIN results = 1..Len(results)
    BY DEF ResultInv
  <2>2. QED
    BY <2>1 DEF ResultInv, NoLateResult
<1>4. QED
  BY <1>1, <1>2, <1>3, PTL DEF LearnSpec
=============================================================================
