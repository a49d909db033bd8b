SPECIFICATION FairSpec
CONSTANTS
  t1 = t1
  t2 = t2
  t3 = t3
  w1 = w1
  w2 = w2
  None = None
  Turn <- TwoTurns
  Worker <- TwoWorkers
  QueuedReads = TRUE
  Timeouts = TRUE
  MaxFaults = 2
INVARIANT NothingForgotten
INVARIANT WritersExclusive
 
PROPERTY ThreadFreed
PROPERTY AbortEnds
CHECK_DEADLOCK FALSE
