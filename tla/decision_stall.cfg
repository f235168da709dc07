CONSTANTS
  w1 = w1
  w2 = w2
  Workers <- OneWorker
  Specialists <- OneSpecialist
  Chief = "chief_growth_producer"
  Controllers <- TwoControllers
  Constitutional = "constitutional"
  AntiParalysis = "anti_analysis_paralysis"
  ChiefOutputs = {"clean"}
  Opinions = {"PASS"}
  MaxOutputs = 1
  MaxRounds = 0
  Checkpoint = TRUE
  MaxVersions = 1
  Budgets <- Undisturbed
SPECIFICATION FairDecisionSpec
PROPERTY WorkflowSettles
CHECK_DEADLOCK FALSE
