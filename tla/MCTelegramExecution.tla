------------------------ MODULE MCTelegramExecution ------------------------
(* Instances of TelegramExecution for TLC.                                  *)
EXTENDS TelegramExecution

CONSTANTS w1, w2, x1

TwoWorkers == {w1, w2}
OneWorker == {w1}
RuntimeWorker == [w \in Workers |-> "runtime-worker"]

OneAction == {x1}
NoEvents == {}

\* The execution job has max_attempts=1.
OneAttempt == [j \in Jobs |-> 1]

\* The action's decision, account and chat.
ItsDecision == [x \in Direct |-> "decision"]
ItsAccount == [x \in Direct |-> "account"]
ItsChat == [x \in Direct |-> x]
ActionChats == [c \in Accounts |-> {Chat[x] : x \in {y \in Direct : Account[y] = c}}]

Pause == {"execution_paused"}
NoSwitches == {}

NoFaults == [crash |-> 0, stall |-> 0, loss |-> 0]
OneStall == [crash |-> 0, stall |-> 1, loss |-> 0]
CrashAndStall == [crash |-> 1, stall |-> 1, loss |-> 0]
=============================================================================
