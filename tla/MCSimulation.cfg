\* A run of the simulator with three requests, ended at any moment by its scenario or its caller.
CONSTANTS
  r1 = r1
  r2 = r2
  r3 = r3
  Requests <- ThreeRequests
  Deadlines <- OneDeadline
SPECIFICATION FairSpec
INVARIANTS
  ResultAddsUp
  NeverOvercounts
  HandlersCanLeave
PROPERTIES
  RunReturns
