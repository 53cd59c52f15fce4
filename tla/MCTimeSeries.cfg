\* A minute has twice as many points as the short ring, as at the shipped interval of 100 ms,
\* and a window longer than the ring.  An old point may be in no mean, or, where pushes were
\* dropped, in one, by then the second of a long ring that has wrapped around.
CONSTANTS
  ShortLen = 3
  LongLen = 2
  ShortWindow = 4
  Minute = 6
  MaxDelay = 1
  MaxTime = 20
  MaxDropped = 5
SPECIFICATION Spec
INVARIANTS
  TypeOK
  HistoryComplete
  HourCovered
