\* Two clients that share batches and slots, two workers, a breaker that opens at the second failure.
CONSTANTS
  r1 = r1
  r2 = r2
  r3 = r3
  w1 = w1
  w2 = w2
  Requests <- TwoRequests
  Workers <- TwoWorkers
  PriorityOf <- SamePriority
  MaxBatchSize = 2
  FailureThreshold = 2
SPECIFICATION UnpingedSpec
SYMMETRY Alike
INVARIANTS
  NobodyForgotten
  OneOwner
  BreakerConsistent
