CONSTANTS
  w1 = w1
  w2 = w2
  Workers <- TwoWorkers
  Controllers <- TwoControllers
  Drafts = {"clean", "harmful", "unsupported", "unlicensed"}
  Opinions = {"PASS", "CONDITIONS", "REVISE", "BLOCK"}
  MaxAttempts = 2
  MaxRounds = 1
  MaxCrashes = 1
SPECIFICATION FairProductionSpec
INVARIANTS ProductionTypeOK ReadyIsReviewed RevisionsCounted OneAdvance
PROPERTIES SupersededStops ProductionSettles
CHECK_DEADLOCK FALSE
