------------------------ MODULE MCProductionWorkflow ------------------------
(* Instances of ProductionWorkflow for TLC.                                 *)
EXTENDS ProductionWorkflow

CONSTANTS w1, w2

TwoWorkers == {w1, w2}
OneWorker == {w1}
OneController == <<"asset_evidence">>
TwoControllers == <<"asset_evidence", "asset_constitutional">>
=============================================================================
