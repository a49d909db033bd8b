CONSTANTS
  w1 = w1
  w2 = w2
  w3 = w3
  c1 = c1
  c2 = c2
  t1 = t1
  t2 = t2
  home = home
  other = other
  None = None
  Worker <- MCWorker
  Client <- MCClient
  Thread <- MCThread
  Cwd <- MCHome
  PrewarmCwd = home
  Kinds = {"new", "read", "turn", "mutate", "steer", "abort"}
  MinWorkers = 1
  MaxWorkers = 2
  ReuseAcrossThreads = TRUE
  IdleReaping = TRUE
  StrayEvents = FALSE
  MaxFaults = 1
SPECIFICATION Spec
 
INVARIANT WithdrawnUnused
 
 
PROPERTY UnsavedKept
SYMMETRY MCSymmetry
VIEW MCView
INVARIANT ProcessesBounded
INVARIANT StoppedForGood
