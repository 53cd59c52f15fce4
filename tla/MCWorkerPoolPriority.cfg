\* A critical, a high and a low client that never tire compete for two workers.
CONSTANTS
  r1 = r1
  r2 = r2
  r3 = r3
  w1 = w1
  w2 = w2
  Requests <- ThreeRequests
  Workers <- TwoWorkers
  PriorityOf <- ThreePriorities
  MaxBatchSize = 1
  FailureThreshold = 1
SPECIFICATION CompetingSpec
PROPERTIES
  StrictPriority
  CriticalIsServed
