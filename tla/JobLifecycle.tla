---------------------------- MODULE JobLifecycle ----------------------------
(***************************************************************************)
(* What the runtime promises about one job (ADR 0005): it is created once, *)
(* each attempt is started while an attempt is left and ends in one        *)
(* outcome, a job that ended is never touched again.  The promise is made  *)
(* for as long as the job's lease has not expired; a job whose lease did   *)
(* expire is "untracked", and nothing is said about it any more.           *)
(***************************************************************************)
EXTENDS Naturals

CONSTANTS Jobs, MaxAttempts

VARIABLE life

Phases == {"none", "waiting", "running", "succeeded", "failed", "untracked"}

LifeInit == life = [j \in Jobs |-> [phase |-> "none", attempt |-> 0]]

\* One transaction may create several jobs.
Create(S) ==
  /\ \A j \in S : life[j].phase = "none"
  /\ life' = [j \in Jobs |-> IF j \in S THEN [phase |-> "waiting", attempt |-> 0]
                             ELSE life[j]]

Start(j) ==
  /\ life[j].phase = "waiting"
  /\ life[j].attempt < MaxAttempts[j]
  /\ life' = [life EXCEPT ![j] = [phase |-> "running", attempt |-> life[j].attempt + 1]]

\* The attempt that runs ends: in success, in failure, or in a new wait if
\* attempts are left.
Finish(j, outcome) ==
  /\ life[j].phase = "running"
  /\ outcome = "waiting" => life[j].attempt < MaxAttempts[j]
  /\ life' = [life EXCEPT ![j] = [phase |-> outcome, attempt |-> life[j].attempt]]

LoseLease(j) ==
  /\ life[j].phase = "running"
  /\ life' = [life EXCEPT ![j] = [phase |-> "untracked", attempt |-> 0]]

LifeNext ==
  \/ \E S \in SUBSET Jobs : Create(S)
  \/ \E j \in Jobs :
       \/ Start(j)
       \/ \E outcome \in {"waiting", "succeeded", "failed"} : Finish(j, outcome)
       \/ LoseLease(j)

LifeSpec == LifeInit /\ [][LifeNext]_life
=============================================================================
