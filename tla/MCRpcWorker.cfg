SPECIFICATION FairSpec
CONSTANTS
  c1 = c1
  c2 = c2
  abort = abort
  Event = Event
  Call <- MCCall
  Bypass <- MCBypass
INVARIANT OneAtATime
INVARIANT TimersArePending
INVARIANT ClosedIsQuiet
PROPERTY CommandsSettle
CHECK_DEADLOCK FALSE
