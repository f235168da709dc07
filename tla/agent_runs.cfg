CONSTANTS
  w1 = w1
  w2 = w2
  r1 = r1
  NoOwner = NoOwner
  NoJob = NoJob
  Workers <- TwoWorkers
  WorkerId <- OwnIds
  Direct <- OneRun
  Events <- NoEvents
  MaxAttempts <- AttemptsTwo
  BatchSize = 1
  QueueCap = 2
  MaxFaults <- CrashAndStall
SYMMETRY WorkerSymmetry
SPECIFICATION AgentSpec
INVARIANTS AgentTypeOK ExclusiveAttempt LeaseGuardsJob RunFollowsJob OneCallPerAttempt SuccessHasOutput
PROPERTY ImplementsLifecycle
