SPECIFICATION Spec
CONSTANTS
  r1 = r1
  r2 = r2
  c1 = c1
  c2 = c2
  w1 = w1
  w2 = w2
  NoRun = NoRun
  Runs <- MCRuns
  Cases <- MCCases
  Workers <- MCWorkers
  MaxFaults = 2
INVARIANTS
  DuplicatesOnlyAfterLostReply
  NoSilentLoss
PROPERTIES
  EventuallySettled
  ImplementsLedger
CHECK_DEADLOCK FALSE
