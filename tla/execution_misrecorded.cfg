CONSTANTS
  w1 = w1
  w2 = w2
  x1 = x1
  NoOwner = NoOwner
  NoJob = NoJob
  Workers <- OneWorker
  WorkerId <- RuntimeWorker
  Direct <- OneAction
  Events <- NoEvents
  MaxAttempts <- OneAttempt
  BatchSize = 2
  QueueCap = 1
  MaxFaults <- NoFaults
  Decision <- ItsDecision
  Account <- ItsAccount
  Chat <- ItsChat
  Targets <- ActionChats
  Switches <- NoSwitches
  DbMayFail = FALSE
SPECIFICATION ExecSpec
INVARIANT FailedIsUnsent
