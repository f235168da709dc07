CONSTANTS
  w1 = w1
  w2 = w2
  Workers <- OneWorker
  Accounts <- OneAccount
  Own = "own"
  Window = 1
  Grace = 1
  Checkpoints <- Thresholds
  RetentionGap = 1
  Retention = 2
  Delay = 1
  BatchLimit = 1
  Span = 1
  TypeLists <- NoLists
  Kinds = {"reaction", "other"}
  MaxTime = 3
  InterpretFrom = 3
  SetupBy = 0
  MaxCycles <- Cycles
  MaxDisturbances = 1
SPECIFICATION LearnSpec
INVARIANT ZeroIsProven
CHECK_DEADLOCK FALSE
