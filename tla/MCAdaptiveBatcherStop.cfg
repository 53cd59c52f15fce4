\* Stop before, during and after Start, a strategy or none: two drains may race, and everything ends.
CONSTANTS
  r1 = r1
  r2 = r2
  r3 = r3
  Requests <- TwoRequests
  Callers <- MCCallers
  NumQueues = 2
  PriorityOf <- MCPriorityOf
  SubQueueOf <- TwoSubQueueOf
  QueueCapacity = 32
  MaxBatchSize = 2
  ChanCapacity = 1
SPECIFICATION OrderlySpec
INVARIANTS
  NeverDrainsClosed
PROPERTIES
  ImplementsService
  DrainAnswersAllItSaw
  ShutdownCompletes
  StopCompletes
