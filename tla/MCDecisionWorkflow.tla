------------------------- MODULE MCDecisionWorkflow -------------------------
(* Instances of DecisionWorkflow for TLC.                                   *)
EXTENDS DecisionWorkflow, TLC

CONSTANTS w1, w2

TwoWorkers == {w1, w2}
OneWorker == {w1}

\* Workers do the same things.
WorkerSymmetry == Permutations(TwoWorkers)

OneSpecialist == {"launch_strategist"}
TwoControllers == {"constitutional", "anti_analysis_paralysis"}

Undisturbed == {[crash |-> 0, orphan |-> 0, resume |-> 0, setback |-> 0]}

\* Either runs and workers fail, or the owner resumes the workflow while it is
\* running, so that two of its advances can overlap.
FailuresOrResumption ==
  {[crash |-> 1, orphan |-> 1, resume |-> 0, setback |-> 3],
   [crash |-> 0, orphan |-> 0, resume |-> 1, setback |-> 1]}
=============================================================================
