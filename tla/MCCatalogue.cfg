SPECIFICATION Spec
CONSTANTS
  p1 = p1
  s1 = s1
  s2 = s2
  r1 = r1
  t1 = t1
  t2 = t2
  None = None
  Projects <- MCProjects
  Suites <- MCSuites
  Runs <- MCRuns
  Tasks <- MCTasks
  MaxCases = 2
  DefaultCount = 3
SYMMETRY MCSymmetry
INVARIANTS
  Consistent
  DoneRunsComplete
CHECK_DEADLOCK FALSE
