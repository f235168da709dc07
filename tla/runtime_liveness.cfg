CONSTANTS
  w1 = w1
  w2 = w2
  a = a
  NoOwner = NoOwner
  NoJob = NoJob
  Workers <- OneWorker
  WorkerId <- RuntimeWorker
  Direct <- OneJob
  Events <- OneEvent
  MaxAttempts <- AttemptsMixed
  BatchSize = 1
  QueueCap = 1
  MaxFaults <- OneOfEach
SPECIFICATION FairSpec
INVARIANTS TypeOK RunningIsLeased DispatchPublishes
PROPERTIES JobsSettle EventsDispatched
