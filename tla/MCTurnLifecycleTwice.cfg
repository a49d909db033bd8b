SPECIFICATION Spec
CONSTANTS
  t1 = t1
  t2 = t2
  t3 = t3
  w1 = w1
  w2 = w2
  None = None
  Turn <- ThreeTurns
  Worker <- TwoWorkers
  QueuedReads = FALSE
  Timeouts = TRUE
  MaxFaults = 1
SYMMETRY Symmetry
INVARIANT TerminalOnce
CHECK_DEADLOCK FALSE
