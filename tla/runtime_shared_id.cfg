CONSTANTS
  w1 = w1
  w2 = w2
  a = a
  NoOwner = NoOwner
  NoJob = NoJob
  Workers <- TwoWorkers
  WorkerId <- RuntimeWorker
  Direct <- OneJob
  Events <- NoJobs
  MaxAttempts <- AttemptsTwo
  BatchSize = 1
  QueueCap = 1
  MaxFaults <- OneStall
SPECIFICATION Spec
INVARIANT ExclusiveAttempt
