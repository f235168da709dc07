CONSTANTS
  w1 = w1
  w2 = w2
  Workers <- OneWorker
  Controllers <- OneController
  Drafts = {"clean"}
  Opinions = {"PASS", "BLOCK"}
  MaxAttempts = 1
  MaxRounds = 0
  MaxCrashes = 0
SPECIFICATION FairProductionSpec
PROPERTY PriorDecisionStands
CHECK_DEADLOCK FALSE
