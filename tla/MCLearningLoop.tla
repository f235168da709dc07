--------------------------- MODULE MCLearningLoop ---------------------------
(* Instances of LearningLoop for TLC.                                       *)
EXTENDS LearningLoop, TLC

CONSTANTS w1, w2

OneWorker == {w1}
TwoWorkers == {w1, w2}

\* Workers do the same things.
WorkerSymmetry == Permutations(TwoWorkers)

\* With the lower thresholds two reactions are a success; with the higher ones
\* a single one is in no band.
Thresholds == {[weak |-> 1, success |-> 2], [weak |-> 2, success |-> 3]}

Cycles == [a \in Accounts |-> IF a = Own THEN 2 ELSE 1]
BothAccounts == {"own", "other"}
OneAccount == {"own"}

\* The owner stops asking for reactions, or never changes the list.
Lists == {{"channel_post"}}
NoLists == {}
=============================================================================
