---------------------------- MODULE MCAgentRuns ----------------------------
(* Instances of AgentRuns for TLC.                                          *)
EXTENDS AgentRuns, TLC

CONSTANTS w1, w2, r1

TwoWorkers == {w1, w2}
OneRun == {r1}
NoEvents == {}

\* Each process under its own lease_owner, as the tests run workers.
OwnIds == [w \in Workers |-> w]
WorkerSymmetry == Permutations(TwoWorkers)

\* 3 in the code.
AttemptsTwo == [j \in Jobs |-> 2]

CrashAndStall == [crash |-> 1, stall |-> 1, loss |-> 0]
=============================================================================
