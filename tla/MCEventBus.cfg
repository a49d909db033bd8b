SPECIFICATION FairSpec
CONSTANTS
  s1 = s1
  s2 = s2
  x1 = x1
  x2 = x2
  None = None
  Topic <- TwoTopics
  Subscriber <- TwoSubscribers
  ReplayLimit = 2
  MaxEvents = 3
INVARIANT Safe
PROPERTY OrderedLog
CHECK_DEADLOCK FALSE
