CONSTANTS
  w1 = w1
  w2 = w2
  w3 = w3
  c1 = c1
  c2 = c2
  t1 = t1
  t2 = t2
  home = home
  other = other
  None = None
  Worker <- MCTwoWorkers
  Client <- MCClient
  Thread <- MCOneThread
  Cwd <- MCCwd
  PrewarmCwd = home
  Kinds = {"new", "turn"}
  MinWorkers = 1
  MaxWorkers = 1
  ReuseAcrossThreads = FALSE
  IdleReaping = FALSE
  StrayEvents = FALSE
  MaxFaults = 1
SPECIFICATION FairSpec
PROPERTY RequestsAnswered
PROPERTY MinimumRestored
PROPERTY OneThreadForLife
ACTION_CONSTRAINT MCOwnDirectory
