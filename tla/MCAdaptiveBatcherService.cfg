\* The server's batcher, three requests: no wake is lost, all get dispatched, and it implements BatchingService.
CONSTANTS
  r1 = r1
  r2 = r2
  r3 = r3
  Requests <- ThreeRequests
  Callers <- MCCallers
  NumQueues = 2
  PriorityOf <- MCPriorityOf
  SubQueueOf <- ThreeSubQueueOf
  QueueCapacity = 32
  MaxBatchSize = 2
  ChanCapacity = 1
SPECIFICATION FairProductionSpec
INVARIANTS
  NothingLeftBehind
  BatcherTypeOK
  NoLostWakeup
  NoMissedArrival
PROPERTIES
  ImplementsService
  QueuedIsDispatched
