\* Latencies below, at and above the target, swaps of the strategy, every order of the four loops.
CONSTANTS
  Latencies <- AroundTarget
  WindowSize = 2
  TargetP99Ms = 2
  Gain = 1000
  MinWaitMs = 1
  MaxWaitMs = 4
  LowThreshold = 1
  HighThreshold = 4
  Depths <- AroundThresholds
SPECIFICATION BusySpec
INVARIANTS
  PublishedWasObserved
  WindowBounded
PROPERTIES
  ControllerSettles
