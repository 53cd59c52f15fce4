\* Two goroutines drain, two handlers submit to a sub-queue with one slot, and Close.
CONSTANTS
  r1 = r1
  r2 = r2
  Requests <- TwoRequests
  Callers = {c1, c2}
  NumQueues = 2
  PriorityOf <- MCPriorityOf
  SubQueueOf <- BothLow
  QueueCapacity = 16
  MaxBatchSize = 2
SPECIFICATION QMSpec
INVARIANTS
  TypeOK
  CloseExcludesSubmit
  DepthAccounting
  InOnePlace
