CONSTANTS
  Length <- MCLength
  Limit <- MCLimit
  HighWater <- MCHighWater
  Window <- MCWindow
SPECIFICATION HttpFairSpec
INVARIANT HttpSafe
INVARIANT GivenUp
PROPERTY FramesSpec
PROPERTY ObserverReleased
PROPERTY WaitersServed
CHECK_DEADLOCK FALSE
