CONSTANTS
  w1 = w1
  w2 = w2
  Workers <- TwoWorkers
  Specialists <- OneSpecialist
  Chief = "chief_growth_producer"
  Controllers <- TwoControllers
  Constitutional = "constitutional"
  AntiParalysis = "anti_analysis_paralysis"
  ChiefOutputs = {"clean", "worth", "worthUnnoticed", "noCheckpoint"}
  Opinions = {"PASS", "CONDITIONS", "REVISE", "BLOCK", "WAIVED"}
  MaxOutputs = 2
  MaxRounds = 1
  Checkpoint = TRUE
  MaxVersions = 3
  Budgets <- FailuresOrResumption
SYMMETRY WorkerSymmetry
SPECIFICATION DecisionSpec
INVARIANTS DecisionTypeOK DecidedAfterReview RevisionsBounded StallExplained OneDecision
PROPERTY VerdictStands
CHECK_DEADLOCK FALSE
