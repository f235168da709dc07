---------------------------- MODULE MCJobRuntime ----------------------------
(* Instances of JobRuntime for TLC.                                         *)
EXTENDS JobRuntime

CONSTANTS w1, w2, a

TwoWorkers == {w1, w2}
OneWorker == {w1}

\* The one id that worker_main gives to every process.
RuntimeWorker == [w \in Workers |-> "runtime-worker"]

OneJob == {a}
OneEvent == {1}
NoJobs == {}

\* One attempt for a direct job (an execution job), two for a dispatch job.
AttemptsMixed == [j \in Jobs |-> IF j \in Direct THEN 1 ELSE 2]
AttemptsTwo == [j \in Jobs |-> 2]

\* The faults that may happen in a run.
OneOfEach == [crash |-> 1, stall |-> 1, loss |-> 1]
OneStall == [crash |-> 0, stall |-> 1, loss |-> 0]
=============================================================================
