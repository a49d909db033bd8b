CONSTANTS
  d1 = d1
  d2 = d2
  Daemons <- MCDaemons
  MaxStarts <- MCMaxStarts
SPECIFICATION FairSpec
INVARIANT UpIsReachable
INVARIANT StoppedHoldsNothing
PROPERTY AloneStarts
CHECK_DEADLOCK FALSE
