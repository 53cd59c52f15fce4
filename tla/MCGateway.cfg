\* A server process from start to exit, with everything that may happen to its one client and worker.
CONSTANTS
  r1 = r1
  w1 = w1
  Requests <- OneRequest
  Workers <- OneWorker
  PriorityOf <- OnePriority
  MaxBatchSize = 1
  FailureThreshold = 1
SPECIFICATION GFairSpec
INVARIANTS
  CleanExitLeavesNobody
  CutOffWereAbandoned
PROPERTIES
  WorkerComesBack
  FlagFollowsUpstream
  MainReturns
