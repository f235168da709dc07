CONSTANTS
  w1 = w1
  w2 = w2
  Workers <- TwoWorkers
  Accounts <- BothAccounts
  Own = "own"
  Window = 1
  Grace = 1
  Checkpoints <- Thresholds
  RetentionGap = 1
  Retention = 2
  Delay = 1
  BatchLimit = 2
  Span = 1
  TypeLists <- Lists
  Kinds = {"reaction", "malformed"}
  MaxTime = 3
  InterpretFrom = 3
  SetupBy = 0
  MaxCycles <- Cycles
  MaxDisturbances = 1
SYMMETRY WorkerSymmetry
SPECIFICATION LearnSpec
INVARIANTS LearningTypeOK CompleteCountsAll NeverInflated NothingConfirmedUnseen VerdictTrue NoLateResult InterpretFailureExplained MeasuredInTheEnd LearnedInTheEnd
CHECK_DEADLOCK FALSE
