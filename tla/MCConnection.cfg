SPECIFICATION FairSpec
CONSTANTS
  a = a
  s = s
  listen = listen
  drop = drop
  halt = halt
  Event = Event
  Client <- MCClient
  Stuck <- MCStuck
  Call <- MCCall
  OwnerOf <- MCOwnerOf
  Subscribes <- MCSubscribes
  Unsubscribes <- MCUnsubscribes
  Shutdowns <- MCShutdowns
  MaxEvents = 1
INVARIANT Safe
PROPERTY RequestsSettle
PROPERTY DaemonStops
CHECK_DEADLOCK FALSE
