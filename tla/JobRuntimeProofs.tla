-------------------------- MODULE JobRuntimeProofs --------------------------
(***************************************************************************)
(* Proofs about JobRuntime, for any set of workers, jobs and events, any   *)
(* max_attempts and any number of faults.                                  *)
(***************************************************************************)
EXTENDS JobRuntime, TLAPS

LEMMA IdOfWorker ==
  ASSUME NEW w \in Workers
  PROVE  WorkerId[w] \in Owners /\ WorkerId[w] # NoOwner
BY WorkersAssumption DEF Owners

\* What the sessions assign to a row.
Updates == [status : {"SUCCEEDED", "FAILED", "RETRY_WAIT"}, avail : {"keep", "due", "later"}]

LEMMA RowTypes ==
  /\ NoRow \in Row
  /\ Queued \in Row /\ Queued.status = "QUEUED"
  /\ Idle \in WorkerState /\ Idle.pc = "idle"
  /\ Waiting \in SchedState
BY DEF NoRow, Row, Queued, At, Idle, WorkerState, Waiting, SchedState, Statuses, Owners

\* A commit of a session keeps the row's type and its attempt_count, and never
\* makes a row RUNNING or owned.
LEMMA FlushRow ==
  ASSUME NEW row \in Row, NEW loaded \in Row, NEW upd \in Updates
  PROVE  /\ Flush(row, loaded, upd) \in Row
         /\ Flush(row, loaded, upd).status \in {row.status, upd.status}
         /\ Flush(row, loaded, upd).attempt = row.attempt
         /\ Flush(row, loaded, upd).owner \in {row.owner, NoOwner}
BY DEF Flush, Column, Row, Statuses, Owners, Updates

LEMMA UpdTypes ==
  ASSUME NEW j \in Jobs, NEW loaded \in Row, NEW retry \in BOOLEAN
  PROVE  /\ mark_job_succeeded \in Updates
         /\ mark_job_failed_or_retrying(j, loaded, retry) \in Updates
         /\ recover_expired_lease(j, loaded) \in Updates
BY DEF Updates, mark_job_succeeded, mark_job_failed_or_retrying, recover_expired_lease

LEMMA ClaimedRowType ==
  ASSUME NEW w \in Workers, NEW row \in Row
  PROVE  ClaimedRow(w, row) \in Row
BY IdOfWorker DEF ClaimedRow, Row, Statuses

LEMMA AtType ==
  ASSUME NEW pc \in {"popped", "claimed", "handling", "failed", "recording"},
         NEW j \in Jobs, NEW loaded \in Row, NEW retry \in BOOLEAN
  PROVE  At(pc, j, loaded, retry) \in WorkerState /\ At(pc, j, loaded, retry).job = j
BY DEF At, WorkerState

LEMMA PushType ==
  ASSUME NEW S, TypeOK
  PROVE  Push(S) \in [Jobs -> 0 .. QueueCap]
BY BoundsAssumption DEF TypeOK, Push

LEMMA TypeStep == TypeOK /\ [Next]_vars => TypeOK'
<1> SUFFICES ASSUME TypeOK, [Next]_vars PROVE TypeOK'
  OBVIOUS
<1> USE DEF TypeOK
<1>1. ASSUME NEW j \in Direct, SubmitNew(j) PROVE TypeOK'
  BY <1>1, PushType DEF SubmitNew, Jobs, Row, Statuses
<1>2. ASSUME NEW j \in Direct, SubmitCommit(j) PROVE TypeOK'
  BY <1>2, RowTypes DEF SubmitCommit, Jobs
<1>3. ASSUME NEW j \in Direct, SubmitRollback(j) PROVE TypeOK'
  BY <1>3, RowTypes DEF SubmitRollback, Jobs
<1>4. ASSUME NEW j \in Direct, SubmitExisting(j) PROVE TypeOK'
  BY <1>4, PushType DEF SubmitExisting, Jobs
<1>5. ASSUME NEW e \in Events, EmitEvent(e) PROVE TypeOK'
  BY <1>5 DEF EmitEvent
<1>6. ASSUME NEW w \in Workers, NEW j \in Jobs, Dequeue(w, j) PROVE TypeOK'
  BY <1>6, RowTypes, BoundsAssumption DEF Dequeue, WorkerState, At
<1>7. ASSUME NEW w \in Workers, Claim(w) PROVE TypeOK'
  <2> DEFINE j == worker[w].job
  <2>1. j \in Jobs /\ ClaimedRow(w, jobs[j]) \in Row
    BY <1>7, ClaimedRowType DEF Claim
  <2>2. At("claimed", j, NoRow, FALSE) \in WorkerState
        /\ At("claimed", j, NoRow, FALSE).job = j
    BY <2>1, RowTypes, AtType, ZenonT(40)
  <2>3. CASE Claimable(jobs[j])
    <3>1. /\ jobs' = [jobs EXCEPT ![j] = ClaimedRow(w, jobs[j])]
          /\ worker' = [worker EXCEPT ![w] = At("claimed", j, NoRow, FALSE)]
          /\ UNCHANGED <<outbox, queue, sched, faults, lapsed>>
      BY <1>7, <2>3 DEF Claim
    <3>2. QED
      BY <2>1, <2>2, <3>1
  <2>4. CASE ~Claimable(jobs[j])
    <3>1. /\ worker' = [worker EXCEPT ![w] = Idle]
          /\ UNCHANGED <<jobs, outbox, queue, sched, faults, lapsed>>
      BY <1>7, <2>4 DEF Claim
    <3>2. QED
      BY <3>1, RowTypes
  <2>5. QED
    BY <2>3, <2>4
<1>8. ASSUME NEW w \in Workers, BeginHandling(w) PROVE TypeOK'
  BY <1>8, RowTypes DEF BeginHandling, At, WorkerState
<1>9. ASSUME NEW w \in Workers, HandlerSucceeds(w) PROVE TypeOK'
  BY <1>9, RowTypes, UpdTypes, FlushRow DEF HandlerSucceeds, Dispatched, WorkerState
<1>10. ASSUME NEW w \in Workers, NEW retry \in BOOLEAN, HandlerRaises(w, retry)
       PROVE TypeOK'
  BY <1>10, RowTypes DEF HandlerRaises, At, WorkerState
<1>11. ASSUME NEW w \in Workers, LoadForFailure(w) PROVE TypeOK'
  BY <1>11 DEF LoadForFailure, At, WorkerState
<1>12. ASSUME NEW w \in Workers, RecordFailure(w) PROVE TypeOK'
  <2>1. /\ worker[w].job \in Jobs /\ worker[w].loaded \in Row
        /\ worker[w].retry \in BOOLEAN
    BY <1>12 DEF RecordFailure, WorkerState
  <2>2. QED
    BY <1>12, <2>1, RowTypes, UpdTypes, FlushRow DEF RecordFailure
<1>13. CASE SchedRecover
  BY <1>13, RowTypes DEF SchedRecover, SchedState
<1>14. CASE SchedOutbox
  BY <1>14, PushType DEF SchedOutbox, SchedState, OldestPending
<1>15. CASE SchedDue
  BY <1>15, PushType DEF SchedDue, SchedState
<1>16. CASE SchedCommit
  BY <1>16, RowTypes, UpdTypes, FlushRow DEF SchedCommit, SchedState
<1>17. ASSUME NEW j \in Jobs, ExpireLease(j),
              UNCHANGED <<outbox, queue, worker, sched>>,
              faults' \in [crash : Nat, stall : Nat, loss : Nat]
       PROVE TypeOK'
  BY <1>17 DEF ExpireLease, Row
<1>18. ASSUME NEW j \in Jobs, Clock(j) PROVE TypeOK'
  <2>1. CASE OrphanLeaseExpires(j)
    <3>1. /\ ExpireLease(j) /\ UNCHANGED <<outbox, queue, worker, sched>>
          /\ faults' \in [crash : Nat, stall : Nat, loss : Nat]
      BY <2>1 DEF OrphanLeaseExpires
    <3>2. QED
      BY <1>17, <3>1
  <2>2. CASE LeaseExpiresUnderWorker(j)
    <3>1. /\ ExpireLease(j) /\ UNCHANGED <<outbox, queue, worker, sched>>
          /\ faults' \in [crash : Nat, stall : Nat, loss : Nat]
      BY <2>2 DEF LeaseExpiresUnderWorker
    <3>2. QED
      BY <1>17, <3>1
  <2>3. CASE BackoffElapses(j)
    BY <2>3 DEF BackoffElapses, Row
  <2>4. QED
    BY <1>18, <2>1, <2>2, <2>3 DEF Clock
<1>19. CASE Fault
  <2>1. ASSUME NEW j \in Jobs, LoseMessage(j) PROVE TypeOK'
    BY <2>1, BoundsAssumption DEF LoseMessage
  <2>2. ASSUME NEW w \in Workers, CrashWorker(w) PROVE TypeOK'
    BY <2>2, RowTypes DEF CrashWorker
  <2>3. CASE CrashScheduler
    BY <2>3, RowTypes DEF CrashScheduler
  <2>4. QED
    BY <1>19, <2>1, <2>2, <2>3 DEF Fault
<1>20. CASE UNCHANGED vars
  BY <1>20 DEF vars
<1>21. QED
  BY <1>1, <1>2, <1>3, <1>4, <1>5, <1>6, <1>7, <1>8, <1>9, <1>10, <1>11, <1>12,
     <1>13, <1>14, <1>15, <1>16, <1>18, <1>19, <1>20
     DEF Next, Client, WorkerStep, Scheduler

LEMMA InitType == Init => TypeOK
BY RowTypes, BoundsAssumption DEF Init, TypeOK

\* The type invariant of JobRuntime is inductive.
THEOREM TypeCorrect == Spec => []TypeOK
BY InitType, TypeStep, PTL DEF Spec

-----------------------------------------------------------------------------
\* The conjuncts of LeaseInv only depend on these variables.
LEMMA LeaseInvUnchanged ==
  ASSUME LeaseInv, UNCHANGED <<jobs, worker, sched, lapsed>>
  PROVE  LeaseInv'
BY DEF LeaseInv, RowInOrder, HolderInOrder, Engaged, Committed

\* A worker that leaves a job, or takes up an id from Redis, disturbs nothing.
LEMMA LeaseInvReleased ==
  ASSUME LeaseInv, NEW w \in Workers,
         worker'[w].pc \in {"idle", "popped"},
         \A v \in Workers : v # w => worker'[v] = worker[v],
         UNCHANGED <<jobs, sched, lapsed>>
  PROVE  LeaseInv'
BY DEF TypeOK, LeaseInv, RowInOrder, HolderInOrder, Engaged, Committed

\* While its lease has not expired, the one worker that has loaded a job's row
\* commits its outcome to the row it loaded.
LEMMA LeaseInvOutcome ==
  ASSUME TypeOK, LeaseInv, NEW w \in Workers, NEW upd \in Updates,
         worker[w].pc \in {"handling", "recording"},
         upd.status = "RETRY_WAIT" =>
           worker[w].loaded.attempt < MaxAttempts[worker[w].job],
         jobs' = [jobs EXCEPT ![worker[w].job] = Flush(@, worker[w].loaded, upd)],
         worker' = [worker EXCEPT ![w] = Idle],
         UNCHANGED <<sched, lapsed>>
  PROVE  LeaseInv'
<1>0. PICK k \in Jobs : k = worker[w].job
  BY DEF TypeOK
<1> DEFINE row == Flush(jobs[k], worker[w].loaded, upd)
<1>1. Engaged(w, k) /\ jobs[k] \in Row /\ worker[w].loaded \in Row
  BY <1>0 DEF TypeOK, Engaged, WorkerState
<1>2. jobs' = [jobs EXCEPT ![k] = row]
  BY <1>0
<1>3. row.status \in {jobs[k].status, "SUCCEEDED", "FAILED", "RETRY_WAIT"}
  <2>1. row.status \in {jobs[k].status, upd.status}
    BY <1>1, FlushRow
  <2>2. QED
    BY <2>1 DEF Updates
<1>4. Committed(k)
  BY <1>1 DEF LeaseInv, HolderInOrder, Committed
<1>5. Committed(k)'
  BY <1>1, <1>2, <1>3, <1>4 DEF Committed, TypeOK
<1>6. ASSUME NEW j \in Jobs \ lapsed PROVE RowInOrder(j)'
  <2>1. CASE j # k
    BY <1>2, <1>6, <2>1 DEF LeaseInv, RowInOrder, Committed, TypeOK
  <2>2. CASE j = k
    <3>1. /\ worker[w].loaded = jobs[k] /\ jobs[k].status = "RUNNING"
          /\ jobs[k].lease = "live" /\ jobs[k].attempt <= MaxAttempts[k]
      BY <1>1, <1>6, <2>2 DEF LeaseInv, RowInOrder, HolderInOrder
    <3>2. /\ row.status = upd.status /\ row.attempt = jobs[k].attempt
          /\ row.lease = "none"
      BY <3>1 DEF Flush, Column
    <3>3. jobs'[j] = row
      BY <1>1, <1>2, <2>2 DEF TypeOK
    <3>4. upd.status \in {"SUCCEEDED", "FAILED", "RETRY_WAIT"}
      BY DEF Updates
    <3>5. QED
      BY <1>0, <1>5, <2>2, <3>1, <3>2, <3>3, <3>4 DEF RowInOrder
  <2>3. QED
    BY <2>1, <2>2
<1>7. ASSUME NEW j \in Jobs \ lapsed PROVE HolderInOrder(j)'
  <2>1. \A v \in Workers : Engaged(v, j)' => v # w /\ Engaged(v, j) /\ worker'[v] = worker[v]
    BY RowTypes DEF Engaged, TypeOK
  <2>2. CASE j # k
    BY <1>2, <1>7, <2>1, <2>2 DEF LeaseInv, HolderInOrder, TypeOK
  <2>3. CASE j = k
    BY <1>1, <1>7, <2>1, <2>3 DEF LeaseInv, HolderInOrder
  <2>4. QED
    BY <2>2, <2>3
<1>8. \A j \in lapsed' : Committed(j)'
  BY <1>2, <1>5 DEF LeaseInv, Committed, TypeOK
<1>9. \A e \in sched'.created : jobs'[e].status = "ABSENT"
  BY <1>2, <1>4 DEF LeaseInv, Committed, TypeOK
<1>10. QED
  BY <1>6, <1>7, <1>8, <1>9 DEF LeaseInv

\* A step that changes one row and neither worker, scheduler nor history keeps
\* LeaseInv if the row stays in order and keeps what the others rely on.
LEMMA LeaseInvRow ==
  ASSUME TypeOK, LeaseInv, NEW k \in Jobs, NEW row \in Row,
         jobs' = [jobs EXCEPT ![k] = row],
         UNCHANGED <<worker, sched, lapsed>>,
         k \notin lapsed => RowInOrder(k)',
         k \in lapsed => Committed(k)',
         row = jobs[k] \/ \A w \in Workers : Engaged(w, k) => k \in lapsed,
         k \in sched.created => row.status = "ABSENT"
  PROVE  LeaseInv'
<1>1. ASSUME NEW j \in Jobs \ lapsed PROVE RowInOrder(j)' /\ HolderInOrder(j)'
  <2>1. CASE j # k
    BY <1>1, <2>1 DEF LeaseInv, RowInOrder, HolderInOrder, Engaged, Committed, TypeOK
  <2>2. CASE j = k
    BY <1>1, <2>2 DEF LeaseInv, HolderInOrder, Engaged, TypeOK
  <2>3. QED
    BY <2>1, <2>2
<1>2. \A j \in lapsed : Committed(j)'
  BY DEF LeaseInv, Committed, TypeOK
<1>3. \A e \in sched.created : jobs'[e].status = "ABSENT"
  BY DEF LeaseInv, TypeOK
<1>4. QED
  BY <1>1, <1>2, <1>3 DEF LeaseInv

LEMMA LeaseInvStep == TypeOK /\ LeaseInv /\ [Next]_vars => LeaseInv'
<1> SUFFICES ASSUME TypeOK, LeaseInv, [Next]_vars PROVE LeaseInv'
  OBVIOUS
<1>1. ASSUME NEW j \in Direct, SubmitNew(j) \/ SubmitCommit(j) \/ SubmitRollback(j)
      PROVE LeaseInv'
  <2>1. /\ j \in Jobs /\ j \notin lapsed /\ j \notin sched.created
        /\ \A w \in Workers : ~Engaged(w, j)
    BY <1>1, JobsAssumption
       DEF SubmitNew, SubmitCommit, SubmitRollback, LeaseInv, HolderInOrder, Committed,
           TypeOK, SchedState, Jobs
  <2>2. PICK row \in {[jobs[j] EXCEPT !.status = "UNCOMMITTED"], Queued, NoRow} :
          /\ jobs' = [jobs EXCEPT ![j] = row]
          /\ UNCHANGED <<worker, sched, lapsed>>
    BY <1>1 DEF SubmitNew, SubmitCommit, SubmitRollback
  <2>3. row \in Row
    BY <2>1, <2>2, RowTypes DEF TypeOK, Row, Statuses
  <2>4. RowInOrder(j)
    BY <2>1 DEF LeaseInv
  <2>5. ~Committed(j)
    BY <1>1 DEF SubmitNew, SubmitCommit, SubmitRollback, Committed
  <2>6. jobs'[j] = row
    BY <2>1, <2>2 DEF TypeOK
  <2>7. /\ row.status \in {"ABSENT", "UNCOMMITTED", "QUEUED"}
        /\ row.attempt = 0 /\ row.lease = "none"
    BY <2>1, <2>2, <2>4, <2>5 DEF Queued, NoRow, RowInOrder, Committed, TypeOK, Row
  <2>8. RowInOrder(j)'
    BY <2>1, <2>6, <2>7, BoundsAssumption DEF RowInOrder
  <2>9. QED
    BY <2>1, <2>2, <2>3, <2>8, LeaseInvRow
<1>2. ASSUME NEW j \in Direct, SubmitExisting(j) PROVE LeaseInv'
  BY <1>2, LeaseInvUnchanged DEF SubmitExisting
<1>3. ASSUME NEW e \in Events, EmitEvent(e) PROVE LeaseInv'
  BY <1>3, LeaseInvUnchanged DEF EmitEvent
<1>4. ASSUME NEW w \in Workers, NEW j \in Jobs, Dequeue(w, j) PROVE LeaseInv'
  <2>1. /\ worker'[w].pc = "popped" /\ \A v \in Workers : v # w => worker'[v] = worker[v]
        /\ UNCHANGED <<jobs, sched, lapsed>>
    BY <1>4 DEF Dequeue, At, TypeOK
  <2>2. QED
    BY <2>1, LeaseInvReleased
<1>5. ASSUME NEW w \in Workers, Claim(w) PROVE LeaseInv'
  <2>1. PICK k \in Jobs : k = worker[w].job
    BY <1>5 DEF Claim, TypeOK
  <2>2. CASE ~Claimable(jobs[k])
    <3>1. /\ worker'[w].pc = "idle" /\ \A v \in Workers : v # w => worker'[v] = worker[v]
          /\ UNCHANGED <<jobs, sched, lapsed>>
      BY <1>5, <2>1, <2>2, RowTypes DEF Claim, TypeOK
    <3>2. QED
      BY <3>1, LeaseInvReleased
  <2>3. CASE Claimable(jobs[k])
    <3>1. /\ jobs' = [jobs EXCEPT ![k] = ClaimedRow(w, jobs[k])]
          /\ worker' = [worker EXCEPT ![w] = At("claimed", k, NoRow, FALSE)]
          /\ UNCHANGED <<sched, lapsed>>
      BY <1>5, <2>1, <2>3 DEF Claim
    <3>2. \A v \in Workers : v # w => worker'[v] = worker[v]
      BY <3>1 DEF TypeOK
    <3>3. worker'[w] = At("claimed", k, NoRow, FALSE) /\ jobs'[k] = ClaimedRow(w, jobs[k])
      BY <3>1 DEF TypeOK
    <3>4. ASSUME NEW j \in Jobs \ lapsed PROVE RowInOrder(j)' /\ HolderInOrder(j)'
      <4>1. CASE j # k
        <5>1. jobs'[j] = jobs[j]
          BY <3>1, <4>1 DEF TypeOK
        <5>2. ~Engaged(w, j)'
          BY <3>3, <4>1 DEF Engaged, At
        <5>3. QED
          BY <3>2, <3>4, <5>1, <5>2
             DEF LeaseInv, RowInOrder, HolderInOrder, Engaged, Committed
      <4>2. CASE j = k
        <5>1. Due(jobs[k]) /\ \A v \in Workers : ~Engaged(v, k)
          BY <2>3, <3>4, <4>2
             DEF LeaseInv, RowInOrder, HolderInOrder, Claimable, LeaseExpired, Due
        <5>2. /\ jobs[k].attempt < MaxAttempts[k] /\ jobs[k].attempt \in Nat
              /\ MaxAttempts[k] \in Nat /\ jobs[k].avail = "due"
          BY <3>4, <4>2, <5>1, BoundsAssumption DEF LeaseInv, RowInOrder, Due, TypeOK, Row
        <5>3. RowInOrder(k)'
          BY <3>3, <5>2 DEF RowInOrder, Committed, ClaimedRow
        <5>4. HolderInOrder(k)'
          BY <3>2, <3>3, <5>1 DEF HolderInOrder, Engaged, ClaimedRow, At
        <5>5. QED
          BY <4>2, <5>3, <5>4
      <4>3. QED
        BY <4>1, <4>2
    <3>5. \A j \in lapsed : Committed(j)'
      BY <3>1, <3>3 DEF LeaseInv, Committed, ClaimedRow, TypeOK
    <3>6. k \notin sched.created
      BY <2>3 DEF LeaseInv, Claimable, Due, LeaseExpired
    <3>7. \A e \in sched.created : jobs'[e].status = "ABSENT"
      BY <3>1, <3>6 DEF LeaseInv, TypeOK
    <3>8. QED
      BY <3>1, <3>4, <3>5, <3>7 DEF LeaseInv
  <2>4. QED
    BY <2>2, <2>3
<1>6. ASSUME NEW w \in Workers, NEW s, UNCHANGED <<jobs, sched, lapsed>>,
             worker[w].pc \in {"claimed", "handling", "failed"},
             worker' = [worker EXCEPT ![w] = s],
             s.job = worker[w].job,
             s.pc \in {"handling", "recording"} => s.loaded = jobs[s.job]
      PROVE LeaseInv'
  <2>1. \A j \in Jobs, v \in Workers : Engaged(v, j)' => Engaged(v, j)
    BY <1>6 DEF Engaged, TypeOK
  <2>2. ASSUME NEW j \in Jobs \ lapsed PROVE HolderInOrder(j)'
    BY <1>6, <2>1 DEF LeaseInv, HolderInOrder, Engaged, TypeOK
  <2>3. QED
    BY <1>6, <2>2 DEF LeaseInv, RowInOrder, Committed
<1>7. ASSUME NEW w \in Workers, BeginHandling(w) PROVE LeaseInv'
  <2>1. CASE StillClaimed(w, jobs[worker[w].job])
    BY <1>6, <1>7, <2>1 DEF BeginHandling, At
  <2>2. CASE ~StillClaimed(w, jobs[worker[w].job])
    <3>1. /\ worker'[w].pc = "idle" /\ \A v \in Workers : v # w => worker'[v] = worker[v]
          /\ UNCHANGED <<jobs, sched, lapsed>>
      BY <1>7, <2>2, RowTypes DEF BeginHandling, TypeOK
    <3>2. QED
      BY <3>1, LeaseInvReleased
  <2>3. QED
    BY <2>1, <2>2
<1>8. ASSUME NEW w \in Workers, NEW retry \in BOOLEAN, HandlerRaises(w, retry)
      PROVE LeaseInv'
  BY <1>6, <1>8 DEF HandlerRaises, At
<1>9. ASSUME NEW w \in Workers, LoadForFailure(w) PROVE LeaseInv'
  BY <1>6, <1>9 DEF LoadForFailure, At
<1>10. ASSUME NEW w \in Workers, HandlerSucceeds(w) PROVE LeaseInv'
  <2>1. mark_job_succeeded \in Updates /\ mark_job_succeeded.status = "SUCCEEDED"
    BY DEF mark_job_succeeded, Updates
  <2>2. /\ worker[w].pc = "handling"
        /\ jobs' = [jobs EXCEPT ![worker[w].job] =
                      Flush(@, worker[w].loaded, mark_job_succeeded)]
        /\ worker' = [worker EXCEPT ![w] = Idle]
        /\ UNCHANGED <<sched, lapsed>>
    BY <1>10 DEF HandlerSucceeds
  <2>3. QED
    BY <2>1, <2>2, LeaseInvOutcome
<1>11. ASSUME NEW w \in Workers, RecordFailure(w) PROVE LeaseInv'
  <2> DEFINE upd == mark_job_failed_or_retrying(worker[w].job, worker[w].loaded, worker[w].retry)
  <2>1. /\ upd \in Updates
        /\ upd.status = "RETRY_WAIT" =>
             worker[w].loaded.attempt < MaxAttempts[worker[w].job]
    BY DEF mark_job_failed_or_retrying, Updates
  <2>2. /\ worker[w].pc = "recording"
        /\ jobs' = [jobs EXCEPT ![worker[w].job] = Flush(@, worker[w].loaded, upd)]
        /\ worker' = [worker EXCEPT ![w] = Idle]
        /\ UNCHANGED <<sched, lapsed>>
    BY <1>11 DEF RecordFailure
  <2> HIDE DEF upd
  <2>3. QED
    BY <2>1, <2>2, LeaseInvOutcome
<1>12. CASE SchedRecover
  <2>1. sched'.expired \subseteq lapsed
    BY <1>12 DEF SchedRecover, LeaseExpired, LeaseInv, RowInOrder
  <2>2. QED
    BY <1>12, <2>1
       DEF SchedRecover, LeaseInv, RowInOrder, HolderInOrder, Engaged, Committed
<1>13. CASE SchedOutbox
  BY <1>13 DEF SchedOutbox, LeaseInv, RowInOrder, HolderInOrder, Engaged, Committed
<1>14. CASE SchedDue
  <2>1. sched'.expired = sched.expired /\ sched'.created = sched.created
    BY <1>14 DEF SchedDue, TypeOK, SchedState
  <2>2. UNCHANGED <<jobs, worker, lapsed>>
    BY <1>14 DEF SchedDue
  <2>3. QED
    BY <2>1, <2>2 DEF LeaseInv, RowInOrder, HolderInOrder, Engaged, Committed
<1>15. CASE SchedCommit
  <2>1. /\ UNCHANGED <<worker, lapsed>> /\ sched'.expired = {} /\ sched'.created = {}
    BY <1>15 DEF SchedCommit, Waiting
  <2>2. ASSUME NEW j \in Jobs
        PROVE  jobs'[j] =
          IF j \in sched.expired
          THEN Flush(jobs[j], sched.loaded[j], recover_expired_lease(j, sched.loaded[j]))
          ELSE IF j \in sched.created THEN Queued ELSE jobs[j]
    BY <1>15 DEF SchedCommit
  <2>3. ASSUME NEW j \in Jobs \ lapsed PROVE RowInOrder(j)' /\ HolderInOrder(j)'
    <3>1. j \notin sched.expired
      BY <2>3 DEF LeaseInv
    <3>2. CASE j \in sched.created
      <4>1. jobs'[j] = Queued /\ \A w \in Workers : ~Engaged(w, j)
        BY <2>2, <2>3, <3>1, <3>2 DEF LeaseInv, HolderInOrder
      <4>2. QED
        BY <2>1, <4>1, BoundsAssumption
           DEF RowInOrder, HolderInOrder, Engaged, Committed, Queued, NoRow
    <3>3. CASE j \notin sched.created
      <4>1. jobs'[j] = jobs[j]
        BY <2>2, <3>1, <3>3
      <4>2. QED
        BY <2>1, <2>3, <4>1
           DEF LeaseInv, RowInOrder, HolderInOrder, Engaged, Committed
    <3>4. QED
      BY <3>2, <3>3
  <2>4. ASSUME NEW j \in lapsed PROVE Committed(j)'
    <3>1. j \in Jobs /\ Committed(j)
      BY <2>4 DEF LeaseInv, TypeOK
    <3>2. jobs'[j].status \in {jobs[j].status, "FAILED", "RETRY_WAIT", "QUEUED"}
      <4>1. jobs[j] \in Row /\ sched.loaded[j] \in Row
        BY <3>1 DEF TypeOK, SchedState
      <4>2. recover_expired_lease(j, sched.loaded[j]) \in Updates
            /\ recover_expired_lease(j, sched.loaded[j]).status \in {"FAILED", "RETRY_WAIT"}
        BY DEF recover_expired_lease, Updates
      <4>3. Flush(jobs[j], sched.loaded[j], recover_expired_lease(j, sched.loaded[j])).status
              \in {jobs[j].status, "FAILED", "RETRY_WAIT"}
        BY <4>1, <4>2, FlushRow, ZenonT(40)
      <4>4. QED
        BY <2>2, <3>1, <4>3, RowTypes
    <3>3. QED
      BY <3>1, <3>2 DEF Committed
  <2>5. QED
    BY <2>1, <2>3, <2>4 DEF LeaseInv
<1>16. ASSUME NEW k \in Jobs, ExpireLease(k), UNCHANGED <<worker, sched>>
       PROVE LeaseInv'
  <2>1. jobs' = [jobs EXCEPT ![k].lease = "expired"] /\ lapsed' = lapsed \cup {k}
    BY <1>16 DEF ExpireLease
  <2>2. \A j \in Jobs : jobs'[j].status = jobs[j].status /\ (j # k => jobs'[j] = jobs[j])
    BY <2>1 DEF TypeOK, Row
  <2>3. Committed(k)
    BY <1>16 DEF ExpireLease, LeaseInv, RowInOrder, Committed
  <2>4. ASSUME NEW j \in Jobs \ lapsed' PROVE RowInOrder(j)' /\ HolderInOrder(j)'
    <3>1. j # k /\ j \notin lapsed /\ jobs'[j] = jobs[j]
      BY <2>1, <2>2, <2>4
    <3>2. QED
      BY <1>16, <3>1 DEF LeaseInv, RowInOrder, HolderInOrder, Engaged, Committed
  <2>5. \A j \in lapsed' : Committed(j)'
    BY <2>1, <2>2, <2>3 DEF LeaseInv, Committed, TypeOK
  <2>6. \A e \in sched.created : jobs'[e].status = "ABSENT"
    BY <2>2 DEF LeaseInv, TypeOK, SchedState, Jobs
  <2>7. QED
    BY <1>16, <2>1, <2>4, <2>5, <2>6 DEF LeaseInv
<1>17. ASSUME NEW k \in Jobs, BackoffElapses(k) PROVE LeaseInv'
  <2> DEFINE row == [jobs[k] EXCEPT !.avail = "due"]
  <2>1. jobs' = [jobs EXCEPT ![k] = row] /\ UNCHANGED <<worker, sched, lapsed>>
    BY <1>17 DEF BackoffElapses
  <2>2. /\ row \in Row /\ row.status = jobs[k].status /\ row.lease = jobs[k].lease
        /\ row.attempt = jobs[k].attempt /\ jobs'[k] = row
    BY <2>1, SMTT(20) DEF TypeOK, Row
  <2>3. k \notin lapsed => jobs[k].status # "RUNNING"
    BY <1>17 DEF BackoffElapses, LeaseInv, RowInOrder
  <2>4. k \notin lapsed => \A w \in Workers : ~Engaged(w, k)
    BY <2>3 DEF LeaseInv, HolderInOrder
  <2>5. k \notin lapsed => RowInOrder(k)'
    BY <2>2, <2>3 DEF LeaseInv, RowInOrder, Committed
  <2>6. k \in lapsed => Committed(k)'
    BY <2>2 DEF LeaseInv, Committed
  <2>7. k \in sched.created => row.status = "ABSENT"
    BY <2>2 DEF LeaseInv
  <2> HIDE DEF row
  <2>8. QED
    BY <2>1, <2>2, <2>4, <2>5, <2>6, <2>7, LeaseInvRow
<1>18. ASSUME NEW j \in Jobs, Clock(j) PROVE LeaseInv'
  BY <1>16, <1>17, <1>18 DEF Clock, OrphanLeaseExpires, LeaseExpiresUnderWorker
<1>19. CASE Fault
  <2>1. ASSUME NEW j \in Jobs, LoseMessage(j) PROVE LeaseInv'
    BY <2>1, LeaseInvUnchanged DEF LoseMessage
  <2>2. ASSUME NEW w \in Workers, CrashWorker(w) PROVE LeaseInv'
    <3>1. /\ worker'[w].pc = "idle" /\ \A v \in Workers : v # w => worker'[v] = worker[v]
          /\ UNCHANGED <<jobs, sched, lapsed>>
      BY <2>2, RowTypes DEF CrashWorker, TypeOK
    <3>2. QED
      BY <3>1, LeaseInvReleased
  <2>3. CASE CrashScheduler
    BY <2>3 DEF CrashScheduler, Waiting, LeaseInv, RowInOrder, HolderInOrder, Engaged, Committed
  <2>4. QED
    BY <1>19, <2>1, <2>2, <2>3 DEF Fault
<1>20. CASE UNCHANGED vars
  BY <1>20, LeaseInvUnchanged DEF vars
<1>21. QED
  BY <1>1, <1>2, <1>3, <1>4, <1>5, <1>7, <1>8, <1>9, <1>10, <1>11, <1>12, <1>13,
     <1>14, <1>15, <1>18, <1>19, <1>20
     DEF Next, Client, WorkerStep, Scheduler

LEMMA LeaseInvInit == Init => LeaseInv
BY BoundsAssumption
   DEF Init, LeaseInv, RowInOrder, HolderInOrder, Engaged, Committed, NoRow, Idle, At, Waiting

LEMMA LeaseInvariant == Spec => []LeaseInv
BY TypeCorrect, LeaseInvInit, LeaseInvStep, PTL DEF Spec

\* Until a job's lease expires for the first time, at most one worker is past
\* claim_job with it and its attempts stay within max_attempts.
THEOREM LeaseProtects == Spec => []LeaseGuardsJob
<1>1. LeaseInv => LeaseGuardsJob
  BY DEF LeaseInv, LeaseGuardsJob, RowInOrder, HolderInOrder
<1>2. QED
  BY <1>1, LeaseInvariant, PTL

-----------------------------------------------------------------------------
\* What a step may do to a committed row: keep attempt_count, and keep or clear
\* the owner; or start a new attempt.
RowKeepsAttempt(j) ==
  /\ jobs'[j].attempt = jobs[j].attempt
  /\ jobs'[j].owner \in {jobs[j].owner, NoOwner}

LEMMA CommittedRowStep ==
  ASSUME TypeOK, LeaseInv, [Next]_vars, NEW j \in Jobs, Committed(j)
  PROVE  RowKeepsAttempt(j) \/ jobs'[j].attempt = jobs[j].attempt + 1
<1> USE DEF RowKeepsAttempt
<1>1. ASSUME NEW k \in Direct, SubmitNew(k) \/ SubmitCommit(k) \/ SubmitRollback(k)
      PROVE  jobs'[j] = jobs[j]
  BY <1>1 DEF SubmitNew, SubmitCommit, SubmitRollback, Committed, TypeOK, Jobs
<1>2. ASSUME NEW w \in Workers, Claim(w)
      PROVE  jobs'[j] = jobs[j] \/ jobs'[j].attempt = jobs[j].attempt + 1
  <2>1. \/ jobs' = jobs
        \/ jobs' = [jobs EXCEPT ![worker[w].job] = ClaimedRow(w, jobs[worker[w].job])]
    BY <1>2 DEF Claim
  <2>2. ClaimedRow(w, jobs[j]).attempt = jobs[j].attempt + 1
    BY DEF ClaimedRow
  <2>3. QED
    BY <2>1, <2>2 DEF TypeOK
<1>3. ASSUME NEW k \in Jobs, NEW loaded \in Row, NEW upd \in Updates,
             jobs' = [jobs EXCEPT ![k] = Flush(@, loaded, upd)]
      PROVE  RowKeepsAttempt(j)
  <2>1. CASE k # j
    BY <1>3, <2>1 DEF TypeOK
  <2>2. CASE k = j
    <3>1. jobs'[j] = Flush(jobs[j], loaded, upd) /\ jobs[j] \in Row
      BY <1>3, <2>2 DEF TypeOK
    <3>2. /\ Flush(jobs[j], loaded, upd).attempt = jobs[j].attempt
          /\ Flush(jobs[j], loaded, upd).owner \in {jobs[j].owner, NoOwner}
      BY <3>1, FlushRow
    <3>3. QED
      BY <3>1, <3>2
  <2>3. QED
    BY <2>1, <2>2
<1>4. ASSUME NEW w \in Workers, HandlerSucceeds(w) \/ RecordFailure(w)
      PROVE  RowKeepsAttempt(j)
  <2>1. worker[w].job \in Jobs /\ worker[w].loaded \in Row /\ worker[w].retry \in BOOLEAN
    BY <1>4 DEF HandlerSucceeds, RecordFailure, TypeOK, WorkerState
  <2>2. PICK upd \in Updates :
          jobs' = [jobs EXCEPT ![worker[w].job] = Flush(@, worker[w].loaded, upd)]
    BY <1>4, <2>1, UpdTypes DEF HandlerSucceeds, RecordFailure
  <2>3. QED
    BY <1>3, <2>1, <2>2
<1>5. CASE SchedCommit
  <2>1. j \notin sched.created
    BY DEF LeaseInv, Committed
  <2>2. jobs[j] \in Row /\ sched.loaded[j] \in Row
    BY DEF TypeOK, SchedState
  <2>3. recover_expired_lease(j, sched.loaded[j]) \in Updates
    BY DEF recover_expired_lease, Updates
  <2>4. jobs'[j] = jobs[j]
        \/ jobs'[j] = Flush(jobs[j], sched.loaded[j], recover_expired_lease(j, sched.loaded[j]))
    BY <1>5, <2>1 DEF SchedCommit
  <2>5. LET row == Flush(jobs[j], sched.loaded[j], recover_expired_lease(j, sched.loaded[j]))
        IN  row.attempt = jobs[j].attempt /\ row.owner \in {jobs[j].owner, NoOwner}
    BY <2>2, <2>3, FlushRow
  <2>6. QED
    BY <2>4, <2>5
<1>6. ASSUME NEW k \in Jobs, Clock(k) PROVE RowKeepsAttempt(j)
  BY <1>6 DEF Clock, OrphanLeaseExpires, LeaseExpiresUnderWorker, ExpireLease,
              BackoffElapses, TypeOK, Row
<1>7. CASE UNCHANGED jobs
  BY <1>7
<1>8. QED
  BY <1>1, <1>2, <1>4, <1>5, <1>6, <1>7
     DEF Next, Client, WorkerStep, Scheduler, Fault, SubmitExisting, EmitEvent, Dequeue,
         BeginHandling, HandlerRaises, LoadForFailure, SchedRecover, SchedOutbox, SchedDue,
         LoseMessage, CrashWorker, CrashScheduler, vars

\* A worker is inside the handler only if it was there before or just loaded a
\* row that carries its id.
LEMMA HandlingStep ==
  ASSUME TypeOK, [Next]_vars, NEW w \in Workers, worker'[w].pc = "handling",
         worker'[w] # worker[w]
  PROVE  /\ worker'[w].loaded = jobs[worker'[w].job]
         /\ worker'[w].loaded.owner = WorkerId[w]
         /\ jobs' = jobs
         /\ \A v \in Workers : v # w => worker'[v] = worker[v]
<1>1. ASSUME NEW v \in Workers, v # w, WorkerStep(v) \/ (\E j \in Jobs : Dequeue(v, j))
      PROVE  worker'[w] = worker[w]
  BY <1>1 DEF WorkerStep, Claim, BeginHandling, HandlerSucceeds, HandlerRaises,
              LoadForFailure, RecordFailure, Dequeue, TypeOK
<1>2. BeginHandling(w)
  <2>1. ASSUME NEW s, worker' = [worker EXCEPT ![w] = s] PROVE worker'[w] = s
    BY <2>1 DEF TypeOK
  <2>2. ~Claim(w) /\ ~HandlerSucceeds(w) /\ ~RecordFailure(w) /\ ~LoadForFailure(w)
    BY RowTypes DEF Claim, HandlerSucceeds, RecordFailure, LoadForFailure, At, TypeOK
  <2>3. ~(\E retry \in BOOLEAN : HandlerRaises(w, retry)) /\ ~(\E j \in Jobs : Dequeue(w, j))
    BY DEF HandlerRaises, Dequeue, At, TypeOK
  <2>4. ~(\E v \in Workers : CrashWorker(v))
    BY RowTypes DEF CrashWorker, TypeOK
  <2>5. ~(worker' = worker)
    OBVIOUS
  <2>6. ~Client /\ ~Scheduler /\ ~(\E j \in Jobs : Clock(j) \/ LoseMessage(j)) /\ ~CrashScheduler
    BY <2>5 DEF Client, SubmitNew, SubmitCommit, SubmitRollback, SubmitExisting, EmitEvent,
                Scheduler, SchedRecover, SchedOutbox, SchedDue, SchedCommit, Clock,
                OrphanLeaseExpires, LeaseExpiresUnderWorker, BackoffElapses, LoseMessage,
                CrashScheduler
  <2>7. \E v \in Workers : WorkerStep(v) \/ \E j \in Jobs : Dequeue(v, j)
    BY <2>4, <2>5, <2>6 DEF Next, Fault, vars
  <2>8. WorkerStep(w)
    BY <1>1, <2>3, <2>7
  <2>9. QED
    BY <2>2, <2>3, <2>8 DEF WorkerStep
<1>3. QED
  BY <1>2, RowTypes DEF BeginHandling, StillClaimed, At, TypeOK

LEMMA AttemptInvariantStep ==
  ASSUME DistinctIds, TypeOK, LeaseInv, AttemptOwned, ExclusiveAttempt, [Next]_vars
  PROVE  AttemptOwned' /\ ExclusiveAttempt'
<1>1. ASSUME NEW w \in Workers, worker[w].pc = "handling"
      PROVE  worker[w].job \in Jobs /\ Committed(worker[w].job)
  BY <1>1 DEF TypeOK, LeaseInv, HolderInOrder, Engaged, Committed
<1>2. AttemptOwned'
  <2> SUFFICES ASSUME NEW w \in Workers, worker'[w].pc = "handling"
               PROVE  /\ worker'[w].loaded.owner = WorkerId[w]
                      /\ worker'[w].loaded.attempt <= jobs'[worker'[w].job].attempt
                      /\ worker'[w].loaded.attempt = jobs'[worker'[w].job].attempt
                           => jobs'[worker'[w].job].owner \in {WorkerId[w], NoOwner}
    BY DEF AttemptOwned
  <2>1. CASE worker'[w] # worker[w]
    <3>1. worker'[w].loaded.attempt \in Nat
      <4>1. worker'[w].loaded \in Row
        BY <2>1, HandlingStep, TypeStep DEF TypeOK, WorkerState
      <4>2. QED
        BY <4>1 DEF Row
    <3>2. QED
      BY <2>1, <3>1, HandlingStep
  <2>2. CASE worker'[w] = worker[w]
    <3>1. PICK j \in Jobs : j = worker[w].job
      BY <1>1, <2>2
    <3>2. /\ worker[w].loaded.attempt \in Nat
          /\ jobs[j].attempt \in Nat
      BY <3>1 DEF TypeOK, WorkerState, Row
    <3>3. RowKeepsAttempt(j) \/ jobs'[j].attempt = jobs[j].attempt + 1
      BY <1>1, <2>2, <3>1, CommittedRowStep
    <3>4. QED
      BY <2>2, <3>1, <3>2, <3>3 DEF AttemptOwned, RowKeepsAttempt
  <2>3. QED
    BY <2>1, <2>2
<1>3. ExclusiveAttempt'
  <2>1. ASSUME NEW v \in Workers, NEW w \in Workers, v # w,
               worker'[v].pc = "handling", worker'[w].pc = "handling",
               worker'[v].job = worker'[w].job,
               worker'[v].loaded.attempt = worker'[w].loaded.attempt,
               worker'[w] # worker[w]
        PROVE  FALSE
    <3>1. /\ worker'[w].loaded = jobs[worker'[w].job]
          /\ worker'[w].loaded.owner = WorkerId[w]
          /\ worker'[v] = worker[v]
      BY <2>1, HandlingStep
    <3>2. WorkerId[w] \in {WorkerId[v], NoOwner}
      BY <2>1, <3>1 DEF AttemptOwned
    <3>3. QED
      BY <2>1, <3>2, IdOfWorker DEF DistinctIds
  <2>2. QED
    BY <2>1 DEF ExclusiveAttempt
<1>4. QED
  BY <1>2, <1>3

\* If every worker process has an id of its own, no two of them ever run the
\* handler for the same attempt of a job, however leases expire.
THEOREM AttemptIsExclusive == DistinctIds => (Spec => []ExclusiveAttempt)
<1> SUFFICES ASSUME DistinctIds PROVE Spec => []ExclusiveAttempt
  OBVIOUS
<1>1. Init => AttemptOwned /\ ExclusiveAttempt
  BY RowTypes DEF Init, AttemptOwned, ExclusiveAttempt
<1>2. TypeOK /\ LeaseInv /\ AttemptOwned /\ ExclusiveAttempt /\ [Next]_vars
        => AttemptOwned' /\ ExclusiveAttempt'
  BY AttemptInvariantStep
<1>3. QED
  BY <1>1, <1>2, TypeCorrect, LeaseInvariant, PTL DEF Spec

-----------------------------------------------------------------------------
(* The outbox: what is dispatched was attempted.                           *)

\* A worker past claim_job has counted its attempt.
EngagedCounts ==
  \A w \in Workers, j \in Jobs : Engaged(w, j) => jobs[j].attempt > 0

\* attempt_count never falls: nobody inserts the row of a job again that has been
\* attempted.
LEMMA AttemptNeverFalls ==
  ASSUME TypeOK, LeaseInv, [Next]_vars, NEW j \in Jobs
  PROVE  /\ jobs[j].attempt \in Nat /\ jobs'[j].attempt \in Nat
         /\ jobs[j].attempt <= jobs'[j].attempt
<1>1. jobs[j].attempt \in Nat /\ jobs'[j].attempt \in Nat
  <2>1. TypeOK'
    BY TypeStep
  <2> QED
    BY <2>1 DEF TypeOK, Row
<1>2. CASE Committed(j)
  <2>1. RowKeepsAttempt(j) \/ jobs'[j].attempt = jobs[j].attempt + 1
    BY <1>2, CommittedRowStep
  <2> QED
    BY <1>1, <2>1 DEF RowKeepsAttempt
<1>3. CASE ~Committed(j)
  <2>1. jobs[j].attempt = 0
    BY <1>3 DEF LeaseInv, RowInOrder
  <2> QED
    BY <1>1, <2>1
<1> QED
  BY <1>2, <1>3

\* A worker gets past claim_job only by counting an attempt.
LEMMA EngagedStep ==
  ASSUME TypeOK, [Next]_vars, NEW w \in Workers, NEW j \in Jobs, Engaged(w, j)'
  PROVE  Engaged(w, j) \/ jobs'[j].attempt > 0
<1>1. CASE Claim(w)
  <2>1. CASE ~Claimable(jobs[worker[w].job])
    BY <1>1, <2>1, RowTypes DEF Claim, TypeOK, Engaged
  <2>2. CASE Claimable(jobs[worker[w].job])
    <3>1. PICK k \in Jobs : k = worker[w].job
      BY <1>1 DEF Claim, TypeOK
    <3>2. /\ jobs'[k] = ClaimedRow(w, jobs[k]) /\ worker'[w] = At("claimed", k, NoRow, FALSE)
          /\ jobs[k].attempt \in Nat
      BY <1>1, <2>2, <3>1 DEF Claim, TypeOK, Row
    <3>3. k = j
      BY <3>2 DEF Engaged, At
    <3> QED
      BY <3>2, <3>3 DEF ClaimedRow
  <2> QED
    BY <2>1, <2>2
<1>2. ASSUME NEW k \in Jobs, Dequeue(w, k) PROVE FALSE
  BY <1>2 DEF Dequeue, At, TypeOK, Engaged
<1>3. CASE BeginHandling(w)
  BY <1>3, RowTypes DEF BeginHandling, At, TypeOK, Engaged
<1>4. CASE HandlerSucceeds(w) \/ RecordFailure(w) \/ CrashWorker(w)
  BY <1>4, RowTypes DEF HandlerSucceeds, RecordFailure, CrashWorker, TypeOK, Engaged
<1>5. ASSUME NEW retry \in BOOLEAN, HandlerRaises(w, retry) PROVE Engaged(w, j)
  BY <1>5 DEF HandlerRaises, At, TypeOK, Engaged
<1>6. CASE LoadForFailure(w)
  BY <1>6 DEF LoadForFailure, At, TypeOK, Engaged
<1>7. ASSUME NEW v \in Workers, v # w,
             WorkerStep(v) \/ CrashWorker(v) \/ (\E k \in Jobs : Dequeue(v, k))
      PROVE  worker'[w] = worker[w]
  BY <1>7 DEF WorkerStep, Claim, BeginHandling, HandlerSucceeds, HandlerRaises,
              LoadForFailure, RecordFailure, Dequeue, CrashWorker, TypeOK
<1>8. CASE worker'[w] = worker[w]
  BY <1>8 DEF Engaged
<1>9. CASE worker' = worker
  BY <1>8, <1>9
<1> QED
  BY <1>1, <1>2, <1>3, <1>4, <1>5, <1>6, <1>7, <1>8, <1>9
     DEF Next, Client, WorkerStep, Scheduler, Clock, Fault, SubmitNew, SubmitCommit, SubmitRollback,
         SubmitExisting, EmitEvent, SchedRecover, SchedOutbox, SchedDue, SchedCommit,
         OrphanLeaseExpires, LeaseExpiresUnderWorker, BackoffElapses, LoseMessage,
         CrashScheduler, vars

LEMMA EngagedCountsInvariant == Spec => []EngagedCounts
<1>1. Init => EngagedCounts
  BY RowTypes DEF Init, EngagedCounts, Engaged
<1>2. ASSUME TypeOK, LeaseInv, EngagedCounts, [Next]_vars
      PROVE  EngagedCounts'
  <2> SUFFICES ASSUME NEW w \in Workers, NEW j \in Jobs, Engaged(w, j)'
               PROVE  jobs'[j].attempt > 0
    BY DEF EngagedCounts
  <2>1. /\ jobs[j].attempt \in Nat /\ jobs'[j].attempt \in Nat
        /\ jobs[j].attempt <= jobs'[j].attempt
    BY <1>2, AttemptNeverFalls
  <2>2. Engaged(w, j) \/ jobs'[j].attempt > 0
    BY <1>2, EngagedStep
  <2> QED
    BY <1>2, <2>1, <2>2 DEF EngagedCounts
<1> QED
  BY <1>1, <1>2, TypeCorrect, LeaseInvariant, PTL DEF Spec

\* Only the handler's commit makes a job SUCCEEDED, and the one of a dispatch
\* job publishes its event.
LEMMA SuccessStep ==
  ASSUME TypeOK, [Next]_vars, NEW e \in Events, jobs'[e].status = "SUCCEEDED"
  PROVE  jobs[e].status = "SUCCEEDED" \/ outbox'[e] = "PUBLISHED"
<1> USE DEF Jobs
<1>1. ASSUME NEW k \in Direct, SubmitNew(k) \/ SubmitCommit(k) \/ SubmitRollback(k)
      PROVE  jobs'[e] = jobs[e]
  BY <1>1, JobsAssumption DEF SubmitNew, SubmitCommit, SubmitRollback, TypeOK
<1>2. ASSUME NEW w \in Workers, Claim(w)
      PROVE  jobs[e].status = "SUCCEEDED"
  <2>1. \/ jobs' = jobs
        \/ jobs' = [jobs EXCEPT ![worker[w].job] = ClaimedRow(w, jobs[worker[w].job])]
    BY <1>2 DEF Claim
  <2>2. ClaimedRow(w, jobs[e]).status = "RUNNING"
    BY DEF ClaimedRow
  <2> QED
    BY <2>1, <2>2 DEF TypeOK
<1>3. ASSUME NEW k \in Jobs, NEW loaded \in Row, NEW upd \in Updates,
             jobs' = [jobs EXCEPT ![k] = Flush(@, loaded, upd)]
      PROVE  jobs[e].status = "SUCCEEDED" \/ (k = e /\ upd.status = "SUCCEEDED")
  <2>1. CASE k # e
    BY <1>3, <2>1 DEF TypeOK
  <2>2. CASE k = e
    <3>1. jobs'[e] = Flush(jobs[e], loaded, upd) /\ jobs[e] \in Row
      BY <1>3, <2>2 DEF TypeOK
    <3>2. jobs'[e].status \in {jobs[e].status, upd.status}
      BY <3>1, FlushRow
    <3> QED
      BY <2>2, <3>2
  <2> QED
    BY <2>1, <2>2
<1>4. ASSUME NEW w \in Workers, HandlerSucceeds(w)
      PROVE  jobs[e].status = "SUCCEEDED" \/ outbox'[e] = "PUBLISHED"
  <2>1. worker[w].job \in Jobs /\ worker[w].loaded \in Row /\ mark_job_succeeded \in Updates
    BY <1>4 DEF HandlerSucceeds, TypeOK, WorkerState, mark_job_succeeded, Updates
  <2>2. jobs[e].status = "SUCCEEDED" \/ worker[w].job = e
    BY <1>3, <1>4, <2>1 DEF HandlerSucceeds
  <2>3. worker[w].job = e => outbox'[e] = "PUBLISHED"
    BY <1>4 DEF HandlerSucceeds, Dispatched, TypeOK
  <2> QED
    BY <2>2, <2>3
<1>5. ASSUME NEW w \in Workers, RecordFailure(w)
      PROVE  jobs[e].status = "SUCCEEDED"
  <2>1. worker[w].job \in Jobs /\ worker[w].loaded \in Row /\ worker[w].retry \in BOOLEAN
    BY <1>5 DEF RecordFailure, TypeOK, WorkerState
  <2>2. PICK upd \in Updates :
          /\ upd.status # "SUCCEEDED"
          /\ jobs' = [jobs EXCEPT ![worker[w].job] = Flush(@, worker[w].loaded, upd)]
    <3>1. mark_job_failed_or_retrying(worker[w].job, worker[w].loaded, worker[w].retry).status
            # "SUCCEEDED"
      BY DEF mark_job_failed_or_retrying
    <3> QED
      BY <1>5, <2>1, <3>1, UpdTypes DEF RecordFailure
  <2> QED
    BY <1>3, <2>1, <2>2
<1>6. CASE SchedCommit
  <2>1. jobs[e] \in Row /\ sched.loaded[e] \in Row
    BY DEF TypeOK, SchedState
  <2>2. PICK upd \in Updates :
          upd = recover_expired_lease(e, sched.loaded[e]) /\ upd.status # "SUCCEEDED"
    <3>1. /\ recover_expired_lease(e, sched.loaded[e]) \in Updates
          /\ recover_expired_lease(e, sched.loaded[e]).status # "SUCCEEDED"
      BY DEF recover_expired_lease, Updates
    <3> QED
      BY <3>1
  <2>3. Flush(jobs[e], sched.loaded[e], upd).status \in {jobs[e].status, upd.status}
    BY <2>1, FlushRow
  <2>4. jobs'[e] = jobs[e] \/ jobs'[e] = Queued \/ jobs'[e] = Flush(jobs[e], sched.loaded[e], upd)
    BY <1>6, <2>2 DEF SchedCommit
  <2> QED
    BY <2>2, <2>3, <2>4, RowTypes
<1>7. ASSUME NEW k \in Jobs, Clock(k) PROVE jobs'[e].status = jobs[e].status
  BY <1>7 DEF Clock, OrphanLeaseExpires, LeaseExpiresUnderWorker, ExpireLease,
              BackoffElapses, TypeOK, Row
<1>8. CASE UNCHANGED jobs
  BY <1>8
<1> QED
  BY <1>1, <1>2, <1>4, <1>5, <1>6, <1>7, <1>8
     DEF Next, Client, WorkerStep, Scheduler, Fault, SubmitExisting, EmitEvent, Dequeue,
         BeginHandling, HandlerRaises, LoadForFailure, SchedRecover, SchedOutbox, SchedDue,
         LoseMessage, CrashWorker, CrashScheduler, vars

\* An event is published by a worker inside the handler of its dispatch job, and
\* stays published.
LEMMA OutboxStep ==
  ASSUME TypeOK, [Next]_vars, NEW e \in Events
  PROVE  /\ outbox[e] = "PUBLISHED" => outbox'[e] = "PUBLISHED"
         /\ outbox'[e] = "PUBLISHED" =>
              outbox[e] = "PUBLISHED" \/ \E w \in Workers : Engaged(w, e)
<1>1. ASSUME NEW f \in Events, EmitEvent(f)
      PROVE  (outbox'[e] = "PUBLISHED") <=> (outbox[e] = "PUBLISHED")
  BY <1>1 DEF EmitEvent, TypeOK
<1>2. ASSUME NEW w \in Workers, HandlerSucceeds(w)
      PROVE  /\ outbox[e] = "PUBLISHED" => outbox'[e] = "PUBLISHED"
             /\ outbox'[e] = "PUBLISHED" => outbox[e] = "PUBLISHED" \/ Engaged(w, e)
  BY <1>2 DEF HandlerSucceeds, Dispatched, Engaged, TypeOK
<1>3. CASE UNCHANGED outbox
  BY <1>3
<1> QED
  BY <1>1, <1>2, <1>3
     DEF Next, Client, WorkerStep, Scheduler, Clock, Fault, SubmitNew, SubmitCommit, SubmitRollback,
         SubmitExisting, Claim, Dequeue, BeginHandling, HandlerRaises, LoadForFailure,
         RecordFailure, SchedRecover, SchedOutbox, SchedDue, SchedCommit, OrphanLeaseExpires,
         LeaseExpiresUnderWorker, BackoffElapses, LoseMessage, CrashWorker, CrashScheduler, vars

\* A dispatch job that succeeded has published its event, and no event is
\* published before its job was claimed (OutboxDispatchHandler and
\* mark_job_succeeded in one transaction).
THEOREM DispatchIsPublished == Spec => []DispatchPublishes
<1>1. Init => DispatchPublishes
  BY DEF Init, DispatchPublishes, NoRow, Jobs
<1>2. ASSUME TypeOK, LeaseInv, EngagedCounts, DispatchPublishes, [Next]_vars
      PROVE  DispatchPublishes'
  <2>1. ASSUME NEW e \in Events
        PROVE  /\ jobs'[e].status = "SUCCEEDED" => outbox'[e] = "PUBLISHED"
               /\ outbox'[e] = "PUBLISHED" => jobs'[e].attempt > 0
    <3>1. e \in Jobs
      BY DEF Jobs
    <3>2. jobs'[e].status = "SUCCEEDED" => outbox'[e] = "PUBLISHED"
      BY <1>2, SuccessStep, OutboxStep DEF DispatchPublishes
    <3>3. outbox'[e] = "PUBLISHED" => jobs[e].attempt > 0
      BY <1>2, <3>1, OutboxStep DEF DispatchPublishes, EngagedCounts
    <3>4. /\ jobs[e].attempt \in Nat /\ jobs'[e].attempt \in Nat
          /\ jobs[e].attempt <= jobs'[e].attempt
      BY <1>2, <3>1, AttemptNeverFalls
    <3> QED
      BY <3>2, <3>3, <3>4
  <2> QED
    BY <2>1 DEF DispatchPublishes
<1> QED
  BY <1>1, <1>2, TypeCorrect, LeaseInvariant, EngagedCountsInvariant, PTL DEF Spec

-----------------------------------------------------------------------------
(* One worker: a RUNNING row keeps its lease.                              *)

Paired(row) == row.status = "RUNNING" <=> row.lease # "none"

\* The one worker writes the outcome of a row that is no longer RUNNING over a
\* row that nobody has claimed again; the scheduler has loaded expired leases.
LeasePaired ==
  /\ \A j \in Jobs : Paired(jobs[j])
  /\ \A w \in Workers : worker[w].pc \in {"handling", "recording"} =>
       /\ Paired(worker[w].loaded)
       /\ worker[w].loaded.status # "RUNNING" => jobs[worker[w].job].status # "RUNNING"
  /\ \A j \in sched.expired : LeaseExpired(sched.loaded[j])

\* A commit that found a row in order leaves it in order.
LEMMA FlushPaired ==
  ASSUME NEW row \in Row, NEW loaded \in Row, NEW upd \in Updates, Paired(row), Paired(loaded),
         loaded.status # "RUNNING" => row.status # "RUNNING"
  PROVE  /\ Paired(Flush(row, loaded, upd))
         /\ Flush(row, loaded, upd).status = "RUNNING" => row.status = "RUNNING"
BY DEF Flush, Column, Paired, Updates

\* Every step of a worker keeps the rows in order, if there is only this one.
LEMMA PairedByWorker ==
  ASSUME TypeOK, LeasePaired, NEW w \in Workers, \A v \in Workers : v = w,
         WorkerStep(w)
  PROVE  LeasePaired'
<1>0. \A v \in Workers : v = w
  OBVIOUS
<1>1. ASSUME worker'[w].pc \notin {"handling", "recording"}, UNCHANGED sched,
             \A j \in Jobs : Paired(jobs'[j])
      PROVE  LeasePaired'
  BY <1>0, <1>1 DEF LeasePaired, Paired, LeaseExpired
<1>2. CASE Claim(w)
  <2>1. worker[w].job \in Jobs /\ UNCHANGED sched /\ worker'[w].pc \in {"claimed", "idle"}
    BY <1>2, RowTypes DEF Claim, TypeOK, At
  <2>2. \/ jobs' = jobs
        \/ jobs' = [jobs EXCEPT ![worker[w].job] = ClaimedRow(w, jobs[worker[w].job])]
    BY <1>2 DEF Claim
  <2>3. \A j \in Jobs : Paired(ClaimedRow(w, jobs[j]))
    BY DEF Paired, ClaimedRow
  <2>4. \A j \in Jobs : Paired(jobs'[j])
    BY <2>1, <2>2, <2>3 DEF LeasePaired, TypeOK
  <2> QED
    BY <1>1, <2>1, <2>4
<1>3. CASE BeginHandling(w)
  <2>1. PICK k \in Jobs : k = worker[w].job
    BY <1>3 DEF BeginHandling, TypeOK
  <2>2. UNCHANGED <<jobs, sched>> /\ \A j \in Jobs : Paired(jobs[j])
    BY <1>3 DEF BeginHandling, LeasePaired
  <2>3. CASE ~StillClaimed(w, jobs[k])
    <3>1. worker'[w].pc = "idle"
      BY <1>3, <2>1, <2>3, RowTypes DEF BeginHandling, TypeOK
    <3> QED
      BY <1>1, <2>2, <3>1
  <2>4. CASE StillClaimed(w, jobs[k])
    <3>1. worker'[w].loaded = jobs[k] /\ worker'[w].job = k
      BY <1>3, <2>1, <2>4 DEF BeginHandling, TypeOK, At
    <3> QED
      BY <1>0, <2>2, <3>1 DEF LeasePaired, LeaseExpired, Paired
  <2> QED
    BY <2>3, <2>4
<1>4. ASSUME worker[w].pc \in {"handling", "recording"}, NEW upd \in Updates,
             jobs' = [jobs EXCEPT ![worker[w].job] = Flush(@, worker[w].loaded, upd)],
             worker' = [worker EXCEPT ![w] = Idle], UNCHANGED sched
      PROVE  LeasePaired'
  <2>1. PICK k \in Jobs : k = worker[w].job
    BY <1>4 DEF TypeOK
  <2>2. jobs[k] \in Row /\ worker[w].loaded \in Row
    BY DEF TypeOK, WorkerState
  <2>3. Paired(Flush(jobs[k], worker[w].loaded, upd))
    BY <1>4, <2>1, <2>2, FlushPaired DEF LeasePaired
  <2>4. \A j \in Jobs : Paired(jobs'[j])
    BY <1>4, <2>1, <2>3 DEF LeasePaired, TypeOK
  <2>5. worker'[w].pc = "idle"
    BY <1>4, RowTypes DEF TypeOK
  <2> QED
    BY <1>1, <1>4, <2>4, <2>5
<1>5. CASE HandlerSucceeds(w)
  <2>1. mark_job_succeeded \in Updates
    BY DEF mark_job_succeeded, Updates
  <2> QED
    BY <1>4, <1>5, <2>1 DEF HandlerSucceeds
<1>6. CASE RecordFailure(w)
  <2>1. mark_job_failed_or_retrying(worker[w].job, worker[w].loaded, worker[w].retry) \in Updates
    BY DEF mark_job_failed_or_retrying, Updates
  <2> QED
    BY <1>4, <1>6, <2>1 DEF RecordFailure
<1>7. ASSUME NEW retry \in BOOLEAN, HandlerRaises(w, retry)
      PROVE  LeasePaired'
  <2>1. worker'[w].pc = "failed" /\ UNCHANGED <<jobs, sched>>
    BY <1>7 DEF HandlerRaises, At, TypeOK
  <2> QED
    BY <1>1, <2>1 DEF LeasePaired
<1>8. CASE LoadForFailure(w)
  <2>1. PICK k \in Jobs : k = worker[w].job
    BY <1>8 DEF LoadForFailure, TypeOK
  <2>2. worker'[w].loaded = jobs[k] /\ worker'[w].job = k /\ UNCHANGED <<jobs, sched>>
    BY <1>8, <2>1 DEF LoadForFailure, TypeOK, At
  <2> QED
    BY <1>0, <2>2 DEF LeasePaired, LeaseExpired, Paired
<1> QED
  BY <1>2, <1>3, <1>5, <1>6, <1>7, <1>8 DEF WorkerStep

\* So does a step that changes rows without making one RUNNING.
LEMMA PairedByOthers ==
  ASSUME TypeOK, LeasePaired,
         \A j \in Jobs : /\ Paired(jobs'[j])
                         /\ jobs'[j].status = "RUNNING" => jobs[j].status = "RUNNING",
         \A w \in Workers : worker'[w] = worker[w] \/ worker'[w].pc \notin {"handling", "recording"},
         \A j \in sched'.expired : LeaseExpired(sched'.loaded[j])
  PROVE  LeasePaired'
<1>1. \A w \in Workers : worker[w].pc \in {"handling", "recording"} => worker[w].job \in Jobs
  BY DEF TypeOK
<1> QED
  BY <1>1 DEF LeasePaired, Paired, LeaseExpired

\* Every step keeps the rows in order, if there is one worker.
LEMMA PairedStep ==
  ASSUME TypeOK, LeaseInv, LeasePaired, [Next]_vars, \A v, w \in Workers : v = w
  PROVE  LeasePaired'
<1> DEFINE RowsKept == \A j \in Jobs : /\ Paired(jobs'[j])
                                       /\ jobs'[j].status = "RUNNING" => jobs[j].status = "RUNNING"
           WorkersKept == \A w \in Workers : \/ worker'[w] = worker[w]
                                             \/ worker'[w].pc \notin {"handling", "recording"}
           SchedKept == \A j \in sched'.expired : LeaseExpired(sched'.loaded[j])
<1>1. jobs' = jobs => RowsKept
  BY DEF LeasePaired
<1>2. worker' = worker => WorkersKept
  OBVIOUS
<1>3. sched' = sched => SchedKept
  BY DEF LeasePaired
<1>4. ASSUME NEW k \in Direct, SubmitNew(k) \/ SubmitCommit(k) \/ SubmitRollback(k)
      PROVE  RowsKept /\ worker' = worker /\ sched' = sched
  <2>1. k \in Jobs /\ jobs[k].status # "RUNNING" /\ jobs[k].lease = "none"
    BY <1>4 DEF SubmitNew, SubmitCommit, SubmitRollback, Jobs, LeasePaired, Paired
  <2>2. /\ jobs'[k].status \in {"ABSENT", "UNCOMMITTED", "QUEUED"} /\ jobs'[k].lease = "none"
        /\ \A j \in Jobs : j # k => jobs'[j] = jobs[j]
    BY <1>4, <2>1 DEF SubmitNew, SubmitCommit, SubmitRollback, TypeOK, Row, Queued, NoRow
  <2>3. worker' = worker /\ sched' = sched
    BY <1>4 DEF SubmitNew, SubmitCommit, SubmitRollback
  <2> QED
    BY <2>1, <2>2, <2>3 DEF LeasePaired, Paired
<1>5. CASE SchedRecover
  <2>1. /\ jobs' = jobs /\ worker' = worker
        /\ \A j \in sched'.expired : LeaseExpired(jobs[j]) /\ sched'.loaded[j] = jobs[j]
    BY <1>5 DEF SchedRecover
  <2>2. RowsKept /\ WorkersKept /\ SchedKept
    BY <1>1, <1>2, <2>1
  <2> QED
    BY <2>2, PairedByOthers
<1>6. CASE SchedOutbox \/ SchedDue
  <2>1. /\ jobs' = jobs /\ worker' = worker
        /\ sched'.expired = sched.expired /\ sched'.loaded = sched.loaded
    BY <1>6 DEF SchedOutbox, SchedDue, TypeOK, SchedState
  <2>2. RowsKept /\ WorkersKept /\ SchedKept
    BY <1>1, <1>2, <2>1 DEF LeasePaired
  <2> QED
    BY <2>2, PairedByOthers
<1>7. CASE SchedCommit
  <2>1. worker' = worker /\ SchedKept
    BY <1>7 DEF SchedCommit, Waiting
  <2>2. ASSUME NEW j \in Jobs
        PROVE  Paired(jobs'[j]) /\ (jobs'[j].status = "RUNNING" => jobs[j].status = "RUNNING")
    <3>1. CASE j \in sched.expired
      <4>1. /\ jobs[j] \in Row /\ sched.loaded[j] \in Row /\ Paired(jobs[j])
            /\ Paired(sched.loaded[j]) /\ sched.loaded[j].status = "RUNNING"
        BY <3>1 DEF TypeOK, SchedState, LeasePaired, LeaseExpired, Paired
      <4>2. recover_expired_lease(j, sched.loaded[j]) \in Updates
        BY DEF recover_expired_lease, Updates
      <4>3. jobs'[j] = Flush(jobs[j], sched.loaded[j], recover_expired_lease(j, sched.loaded[j]))
        BY <1>7, <3>1 DEF SchedCommit
      <4> QED
        BY <4>1, <4>2, <4>3, FlushPaired
    <3>2. CASE j \notin sched.expired
      <4>1. jobs'[j] = Queued \/ jobs'[j] = jobs[j]
        BY <1>7, <3>2 DEF SchedCommit
      <4>2. Queued.status = "QUEUED" /\ Queued.lease = "none"
        BY DEF Queued, NoRow
      <4> QED
        BY <4>1, <4>2 DEF LeasePaired, Paired
    <3> QED
      BY <3>1, <3>2
  <2> QED
    BY <1>2, <2>1, <2>2, PairedByOthers
<1>8. ASSUME NEW k \in Jobs, Clock(k)
      PROVE  RowsKept /\ worker' = worker /\ sched' = sched
  <2>1. \A j \in Jobs : /\ jobs'[j].status = jobs[j].status
                        /\ jobs'[j].lease = "none" <=> jobs[j].lease = "none"
    BY <1>8 DEF Clock, OrphanLeaseExpires, LeaseExpiresUnderWorker, ExpireLease,
                BackoffElapses, TypeOK, Row
  <2>2. worker' = worker /\ sched' = sched
    BY <1>8 DEF Clock, OrphanLeaseExpires, LeaseExpiresUnderWorker, BackoffElapses
  <2> QED
    BY <2>1, <2>2 DEF LeasePaired, Paired
<1>9. ASSUME NEW w \in Workers, CrashWorker(w) \/ \E j \in Jobs : Dequeue(w, j)
      PROVE  WorkersKept /\ jobs' = jobs /\ sched' = sched
  BY <1>9, RowTypes DEF CrashWorker, Dequeue, TypeOK, At
<1>10. CASE CrashScheduler
  <2>1. jobs' = jobs /\ worker' = worker /\ SchedKept
    BY <1>10 DEF CrashScheduler, Waiting
  <2> QED
    BY <1>1, <1>2, <2>1, PairedByOthers
<1>11. ASSUME NEW w \in Workers, WorkerStep(w)
       PROVE  LeasePaired'
  BY <1>11, PairedByWorker
<1>12. ASSUME UNCHANGED <<jobs, worker, sched>>
       PROVE  LeasePaired'
  BY <1>1, <1>2, <1>3, <1>12, PairedByOthers
<1>13. ASSUME RowsKept, WorkersKept, SchedKept
       PROVE  LeasePaired'
  BY <1>13, PairedByOthers
<1> HIDE DEF RowsKept, WorkersKept, SchedKept
<1> QED
  BY <1>1, <1>2, <1>3, <1>4, <1>5, <1>6, <1>7, <1>8, <1>9, <1>10, <1>11, <1>12, <1>13
     DEF Next, Client, Scheduler, Fault, SubmitExisting, EmitEvent, LoseMessage, vars

\* With one worker process, a RUNNING row always has a lease, so it can be taken
\* over (claim_job, recover_expired_leases).  With two it need not: a late
\* _record_failure of one clears the lease under the other.
THEOREM OneWorkerKeepsLease ==
  (\A v, w \in Workers : v = w) => (Spec => []RunningIsLeased)
<1> SUFFICES ASSUME \A v, w \in Workers : v = w PROVE Spec => []RunningIsLeased
  OBVIOUS
<1>1. Init => LeasePaired
  BY RowTypes DEF Init, LeasePaired, Paired, NoRow, Waiting
<1>2. TypeOK /\ LeaseInv /\ LeasePaired /\ [Next]_vars => LeasePaired'
  BY PairedStep
<1>3. LeasePaired => RunningIsLeased
  BY DEF LeasePaired, Paired, RunningIsLeased
<1> QED
  BY <1>1, <1>2, <1>3, TypeCorrect, LeaseInvariant, PTL DEF Spec

-----------------------------------------------------------------------------
\* The lifecycle of a job depends on its row's status and attempt_count only.
LEMMA LifeKept ==
  ASSUME NEW j \in Jobs,
         j \in lapsed' <=> j \in lapsed,
         j \in lapsed \/ (/\ jobs'[j].status = jobs[j].status
                          /\ jobs'[j].attempt = jobs[j].attempt)
  PROVE  LifeOf'[j] = LifeOf[j]
BY DEF LifeOf, Phase

LEMMA LifeStutters ==
  ASSUME \A j \in Jobs : LifeOf'[j] = LifeOf[j]
  PROVE  LifeOf' = LifeOf
BY DEF LifeOf

LEMMA LifeOfOne ==
  ASSUME NEW k \in Jobs, \A j \in Jobs : j # k => LifeOf'[j] = LifeOf[j]
  PROVE  LifeOf' = [LifeOf EXCEPT ![k] = LifeOf'[k]]
BY DEF LifeOf

LEMMA LifeOfTracked ==
  ASSUME NEW j \in Jobs, j \notin lapsed
  PROVE  LifeOf[j] = [phase |-> Phase(jobs[j].status), attempt |-> jobs[j].attempt]
BY DEF LifeOf

LEMMA LifeOfTrackedNext ==
  ASSUME NEW j \in Jobs, j \notin lapsed'
  PROVE  LifeOf'[j] = [phase |-> Phase(jobs'[j].status), attempt |-> jobs'[j].attempt]
BY DEF LifeOf, Phase

LEMMA PhaseValues ==
  /\ Phase("ABSENT") = "none" /\ Phase("UNCOMMITTED") = "none"
  /\ Phase("QUEUED") = "waiting" /\ Phase("RETRY_WAIT") = "waiting"
  /\ Phase("RUNNING") = "running"
  /\ Phase("SUCCEEDED") = "succeeded" /\ Phase("FAILED") = "failed"
BY DEF Phase

\* Every step of the runtime is a step of the lifecycle or leaves it alone.
LEMMA LifeStep == TypeOK /\ LeaseInv /\ [Next]_vars => [Lifecycle!LifeNext]_LifeOf
<1> SUFFICES ASSUME TypeOK, LeaseInv, [Next]_vars
             PROVE  Lifecycle!LifeNext \/ LifeOf' = LifeOf
  OBVIOUS
<1>1. CASE UNCHANGED <<jobs, lapsed>>
  BY <1>1, LifeKept, LifeStutters
<1>2. ASSUME NEW k \in Direct, SubmitNew(k) \/ SubmitRollback(k) PROVE LifeOf' = LifeOf
  <2>1. k \in Jobs /\ k \notin lapsed /\ jobs[k].attempt = 0
    BY <1>2 DEF SubmitNew, SubmitRollback, LeaseInv, RowInOrder, Committed, Jobs
  <2>2. /\ lapsed' = lapsed /\ \A j \in Jobs : j # k => jobs'[j] = jobs[j]
        /\ jobs'[k].status \in {"ABSENT", "UNCOMMITTED"} /\ jobs'[k].attempt = 0
        /\ jobs[k].status \in {"ABSENT", "UNCOMMITTED"}
    BY <1>2, <2>1 DEF SubmitNew, SubmitRollback, TypeOK, Row, NoRow
  <2>3. LifeOf'[k] = LifeOf[k]
    <3>1. LifeOf[k] = [phase |-> Phase(jobs[k].status), attempt |-> jobs[k].attempt]
      BY <2>1, LifeOfTracked
    <3>2. LifeOf'[k] = [phase |-> Phase(jobs'[k].status), attempt |-> jobs'[k].attempt]
      BY <2>1, <2>2, LifeOfTrackedNext
    <3>3. Phase(jobs[k].status) = "none" /\ Phase(jobs'[k].status) = "none"
      BY <2>2, PhaseValues
    <3>4. QED
      BY <2>1, <2>2, <3>1, <3>2, <3>3
  <2>4. QED
    BY <2>2, <2>3, LifeKept, LifeStutters
<1>3. ASSUME NEW k \in Direct, SubmitCommit(k) PROVE Lifecycle!LifeNext
  <2>1. k \in Jobs /\ k \notin lapsed /\ lapsed' = lapsed
    BY <1>3 DEF SubmitCommit, LeaseInv, Committed, Jobs
  <2>2. \A j \in Jobs : j # k => jobs'[j] = jobs[j]
    BY <1>3, <2>1 DEF SubmitCommit, TypeOK
  <2>3. jobs'[k].status = "QUEUED" /\ jobs'[k].attempt = 0 /\ jobs[k].status = "UNCOMMITTED"
    BY <1>3, <2>1 DEF SubmitCommit, TypeOK, Queued, NoRow
  <2>4. /\ LifeOf[k].phase = "none"
        /\ LifeOf'[k] = [phase |-> "waiting", attempt |-> 0]
    <3>1. LifeOf[k] = [phase |-> Phase(jobs[k].status), attempt |-> jobs[k].attempt]
      BY <2>1, LifeOfTracked
    <3>2. LifeOf'[k] = [phase |-> Phase(jobs'[k].status), attempt |-> jobs'[k].attempt]
      BY <2>1, LifeOfTrackedNext
    <3>3. Phase(jobs[k].status) = "none" /\ Phase(jobs'[k].status) = "waiting"
      BY <2>3, PhaseValues
    <3>4. QED
      BY <2>3, <3>1, <3>2, <3>3
  <2>5. \A j \in Jobs : j # k => LifeOf'[j] = LifeOf[j]
    BY <2>1, <2>2, LifeKept
  <2>6. Lifecycle!Create({k})
    BY <2>1, <2>4, <2>5 DEF Lifecycle!Create, LifeOf
  <2>7. QED
    BY <2>1, <2>6 DEF Lifecycle!LifeNext
<1>4. ASSUME NEW w \in Workers, Claim(w) PROVE Lifecycle!LifeNext \/ LifeOf' = LifeOf
  <2>1. PICK k \in Jobs : k = worker[w].job
    BY <1>4 DEF Claim, TypeOK
  <2>2. lapsed' = lapsed /\ \A j \in Jobs : j # k => jobs'[j] = jobs[j]
    BY <1>4, <2>1 DEF Claim, TypeOK
  <2>3. \A j \in Jobs : j # k => LifeOf'[j] = LifeOf[j]
    BY <2>2, LifeKept
  <2>4. CASE k \in lapsed
    BY <2>2, <2>3, <2>4, LifeKept, LifeStutters
  <2>5. CASE k \notin lapsed /\ ~Claimable(jobs[k])
    BY <1>1, <1>4, <2>1, <2>5 DEF Claim
  <2>6. CASE k \notin lapsed /\ Claimable(jobs[k])
    <3>1. jobs'[k].status = "RUNNING" /\ jobs'[k].attempt = jobs[k].attempt + 1
      BY <1>4, <2>1, <2>6 DEF Claim, ClaimedRow, TypeOK
    <3>2. jobs[k].status \in {"QUEUED", "RETRY_WAIT"} /\ jobs[k].attempt < MaxAttempts[k]
      BY <2>6 DEF Claimable, Due, LeaseExpired, LeaseInv, RowInOrder
    <3>3. /\ LifeOf[k].phase = "waiting" /\ LifeOf[k].attempt = jobs[k].attempt
          /\ LifeOf'[k] = [phase |-> "running", attempt |-> LifeOf[k].attempt + 1]
      <4>1. LifeOf[k] = [phase |-> Phase(jobs[k].status), attempt |-> jobs[k].attempt]
        BY <2>6, LifeOfTracked
      <4>2. LifeOf'[k] = [phase |-> Phase(jobs'[k].status), attempt |-> jobs'[k].attempt]
        BY <2>2, <2>6, LifeOfTrackedNext
      <4>3. Phase(jobs[k].status) = "waiting" /\ Phase(jobs'[k].status) = "running"
        BY <3>1, <3>2, PhaseValues
      <4>4. QED
        BY <3>1, <4>1, <4>2, <4>3
    <3>4. Lifecycle!Start(k)
      BY <2>3, <3>2, <3>3, LifeOfOne DEF Lifecycle!Start
    <3>5. QED
      BY <3>4 DEF Lifecycle!LifeNext
  <2>7. QED
    BY <2>4, <2>5, <2>6
<1>5. ASSUME NEW w \in Workers, NEW upd \in Updates,
             worker[w].pc \in {"handling", "recording"},
             upd.status = "RETRY_WAIT" =>
               worker[w].loaded.attempt < MaxAttempts[worker[w].job],
             jobs' = [jobs EXCEPT ![worker[w].job] = Flush(@, worker[w].loaded, upd)],
             lapsed' = lapsed
      PROVE Lifecycle!LifeNext \/ LifeOf' = LifeOf
  <2>1. PICK k \in Jobs : k = worker[w].job
    BY <1>5 DEF TypeOK
  <2>2. /\ \A j \in Jobs : j # k => jobs'[j] = jobs[j]
        /\ jobs'[k] = Flush(jobs[k], worker[w].loaded, upd)
    BY <1>5, <2>1 DEF TypeOK
  <2>3. \A j \in Jobs : j # k => LifeOf'[j] = LifeOf[j]
    BY <1>5, <2>2, LifeKept
  <2>4. CASE k \in lapsed
    BY <1>5, <2>3, <2>4, LifeKept, LifeStutters
  <2>5. CASE k \notin lapsed
    <3>1. worker[w].loaded = jobs[k] /\ jobs[k].status = "RUNNING"
      BY <1>5, <2>1, <2>5 DEF LeaseInv, HolderInOrder, Engaged
    <3>2. upd.status \in {"SUCCEEDED", "FAILED", "RETRY_WAIT"}
      BY DEF Updates
    <3>3. jobs'[k].status = upd.status /\ jobs'[k].attempt = jobs[k].attempt
      BY <2>2, <3>1, <3>2 DEF Flush, Column
    <3>4. PICK outcome \in {"waiting", "succeeded", "failed"} :
            /\ outcome = Phase(upd.status)
            /\ outcome = "waiting" => upd.status = "RETRY_WAIT"
      BY <3>2, PhaseValues
    <3>5. /\ LifeOf[k].phase = "running" /\ LifeOf[k].attempt = jobs[k].attempt
          /\ LifeOf'[k] = [phase |-> outcome, attempt |-> LifeOf[k].attempt]
      <4>1. LifeOf[k] = [phase |-> Phase(jobs[k].status), attempt |-> jobs[k].attempt]
        BY <2>5, LifeOfTracked
      <4>2. LifeOf'[k] = [phase |-> Phase(jobs'[k].status), attempt |-> jobs'[k].attempt]
        BY <1>5, <2>5, LifeOfTrackedNext
      <4>3. Phase(jobs[k].status) = "running" /\ Phase(jobs'[k].status) = outcome
        BY <3>1, <3>3, <3>4, PhaseValues
      <4>4. QED
        BY <3>3, <4>1, <4>2, <4>3
    <3>6. Lifecycle!Finish(k, outcome)
      BY <1>5, <2>1, <2>3, <3>1, <3>4, <3>5, LifeOfOne DEF Lifecycle!Finish
    <3>7. QED
      BY <3>6 DEF Lifecycle!LifeNext
  <2>6. QED
    BY <2>4, <2>5
<1>6. ASSUME NEW w \in Workers, HandlerSucceeds(w)
      PROVE Lifecycle!LifeNext \/ LifeOf' = LifeOf
  <2>1. mark_job_succeeded \in Updates /\ mark_job_succeeded.status = "SUCCEEDED"
    BY DEF mark_job_succeeded, Updates
  <2>2. /\ worker[w].pc = "handling" /\ lapsed' = lapsed
        /\ jobs' = [jobs EXCEPT ![worker[w].job] =
                      Flush(@, worker[w].loaded, mark_job_succeeded)]
    BY <1>6 DEF HandlerSucceeds
  <2>3. QED
    BY <1>5, <2>1, <2>2
<1>7. ASSUME NEW w \in Workers, RecordFailure(w)
      PROVE Lifecycle!LifeNext \/ LifeOf' = LifeOf
  <2> DEFINE upd == mark_job_failed_or_retrying(worker[w].job, worker[w].loaded, worker[w].retry)
  <2>1. /\ upd \in Updates
        /\ upd.status = "RETRY_WAIT" =>
             worker[w].loaded.attempt < MaxAttempts[worker[w].job]
    BY DEF mark_job_failed_or_retrying, Updates
  <2>2. /\ worker[w].pc = "recording" /\ lapsed' = lapsed
        /\ jobs' = [jobs EXCEPT ![worker[w].job] = Flush(@, worker[w].loaded, upd)]
    BY <1>7 DEF RecordFailure
  <2> HIDE DEF upd
  <2>3. QED
    BY <1>5, <2>1, <2>2
<1>8. CASE SchedCommit
  <2> DEFINE S == sched.created \ lapsed
  <2>1. lapsed' = lapsed /\ S \in SUBSET Jobs
    BY <1>8 DEF SchedCommit, TypeOK, SchedState, Jobs
  <2>2. ASSUME NEW j \in Jobs, j \notin S PROVE LifeOf'[j] = LifeOf[j]
    <3>1. j \in lapsed \/ jobs'[j] = jobs[j]
      BY <1>8, <2>2 DEF SchedCommit, LeaseInv
    <3>2. QED
      BY <2>1, <3>1, LifeKept
  <2>3. ASSUME NEW j \in S
        PROVE  LifeOf[j].phase = "none" /\ LifeOf'[j] = [phase |-> "waiting", attempt |-> 0]
    <3>1. j \in Jobs /\ j \notin sched.expired /\ jobs[j].status = "ABSENT"
      BY <2>1, <2>3 DEF LeaseInv
    <3>2. jobs'[j] = Queued
      BY <1>8, <2>3, <3>1 DEF SchedCommit
    <3>3. Queued.status = "QUEUED" /\ Queued.attempt = 0
      BY DEF Queued, NoRow
    <3>4. QED
      <4>1. LifeOf[j] = [phase |-> Phase(jobs[j].status), attempt |-> jobs[j].attempt]
        BY <2>3, <3>1, LifeOfTracked
      <4>2. LifeOf'[j] = [phase |-> Phase(jobs'[j].status), attempt |-> jobs'[j].attempt]
        BY <2>1, <2>3, <3>1, LifeOfTrackedNext
      <4>3. Phase(jobs[j].status) = "none" /\ Phase(jobs'[j].status) = "waiting"
        BY <3>1, <3>2, <3>3, PhaseValues
      <4>4. QED
        BY <3>2, <3>3, <4>1, <4>2, <4>3
  <2>4. Lifecycle!Create(S)
    BY <2>1, <2>2, <2>3 DEF Lifecycle!Create, LifeOf
  <2>5. QED
    BY <2>1, <2>4 DEF Lifecycle!LifeNext
<1>9. ASSUME NEW k \in Jobs, ExpireLease(k) PROVE Lifecycle!LifeNext \/ LifeOf' = LifeOf
  <2>1. /\ lapsed' = lapsed \cup {k}
        /\ \A j \in Jobs : j # k => jobs'[j] = jobs[j]
    BY <1>9 DEF ExpireLease, TypeOK
  <2>2. \A j \in Jobs : j # k => LifeOf'[j] = LifeOf[j]
    BY <2>1, LifeKept
  <2>3. CASE k \in lapsed
    BY <2>1, <2>2, <2>3, LifeKept, LifeStutters
  <2>4. CASE k \notin lapsed
    <3>1. jobs[k].status = "RUNNING"
      BY <1>9, <2>4 DEF ExpireLease, LeaseInv, RowInOrder
    <3>2. LifeOf[k].phase = "running"
      <4>1. LifeOf[k] = [phase |-> Phase(jobs[k].status), attempt |-> jobs[k].attempt]
        BY <2>4, LifeOfTracked
      <4>2. QED
        BY <3>1, <4>1, PhaseValues
    <3>3. LifeOf'[k] = [phase |-> "untracked", attempt |-> 0]
      BY <2>1 DEF LifeOf
    <3>4. Lifecycle!LoseLease(k)
      BY <2>2, <3>2, <3>3, LifeOfOne DEF Lifecycle!LoseLease
    <3>5. QED
      BY <3>4 DEF Lifecycle!LifeNext
  <2>5. QED
    BY <2>3, <2>4
<1>10. ASSUME NEW k \in Jobs, BackoffElapses(k) PROVE LifeOf' = LifeOf
  <2>1. lapsed' = lapsed /\ \A j \in Jobs : /\ jobs'[j].status = jobs[j].status
                                           /\ jobs'[j].attempt = jobs[j].attempt
    BY <1>10 DEF BackoffElapses, TypeOK, Row
  <2>2. QED
    BY <2>1, LifeKept, LifeStutters
<1>11. QED
  BY <1>1, <1>2, <1>3, <1>4, <1>6, <1>7, <1>8, <1>9, <1>10
     DEF Next, Client, WorkerStep, Scheduler, Clock, Fault, SubmitExisting, EmitEvent, Dequeue,
         BeginHandling, HandlerRaises, LoadForFailure, SchedRecover, SchedOutbox, SchedDue,
         OrphanLeaseExpires, LeaseExpiresUnderWorker, LoseMessage, CrashWorker,
         CrashScheduler, vars

\* The job runtime implements the lifecycle that ADR 0005 promises for a job,
\* for as long as the job's lease has not expired.
THEOREM RuntimeImplementsLifecycle == Spec => ImplementsLifecycle
<1>1. Init => Lifecycle!LifeInit
  BY DEF Init, Lifecycle!LifeInit, LifeOf, Phase, NoRow
<1>2. QED
  BY <1>1, LifeStep, TypeCorrect, LeaseInvariant, PTL
     DEF Spec, ImplementsLifecycle, Lifecycle!LifeSpec

=============================================================================
