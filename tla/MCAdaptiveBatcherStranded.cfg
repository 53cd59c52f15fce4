\* Expected violation: a Submit behind the cursor of DrainAll is never answered.
CONSTANTS
  r1 = r1
  r2 = r2
  r3 = r3
  Requests <- TwoRequests
  Callers <- MCCallers
  NumQueues = 2
  PriorityOf <- MCPriorityOf
  SubQueueOf <- TwoSubQueueOf
  QueueCapacity = 32
  MaxBatchSize = 2
  ChanCapacity = 1
SPECIFICATION ProductionSpec
INVARIANTS
  NoneLeftInMatrix
