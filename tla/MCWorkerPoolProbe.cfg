\* Expected violation: with every breaker open no request is admitted to probe with.
CONSTANTS
  r1 = r1
  r2 = r2
  r3 = r3
  w1 = w1
  w2 = w2
  Requests <- OneRequest
  Workers <- OneWorker
  PriorityOf <- OnePriority
  MaxBatchSize = 1
  FailureThreshold = 1
SPECIFICATION PatientSpec
PROPERTIES
  ProbesAgain
