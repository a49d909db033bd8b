CONSTANTS
  s1 = s1
  s2 = s2
  p1 = p1
  p2 = p2
  d1 = d1
  d2 = d2
  r1 = r1
  r2 = r2
  None = None
  Thread <- MCThread
  Path <- MCPath
  Directory <- MCDirectory
  InDir <- MCInDir
  Request <- MCRequest
  MaxWrites <- MCMaxWrites
SPECIFICATION Spec
SYMMETRY Symmetry
INVARIANT AnswersItsThread
INVARIANT ThreadsFound
PROPERTY TurnsOnBaseline
PROPERTY ReclaimedIsSaved
CHECK_DEADLOCK FALSE
