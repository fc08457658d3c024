SPECIFICATION Spec
CONSTANTS
  Papers <- MCPapers
  MaxRounds = 3
  Jobs <- MCJobs
  MaxAttempts = 3
  Assertions = {"status", "banner", "added"}
  Tests = {"long", "short"}
  Originals <- MCOriginals
  p1 = p1
  p2 = p2
  Pulls <- MCPulls
  MaxEdits = 4
  Cases <- MCCases
  Runs = 3
  Scenarios = 3
  Queries = 3
INVARIANTS
  CommitsAreApproved
  SuspicionEscalates
  WeakerOnlyIfApproved
  CollapseIsCaught
SYMMETRY PullSymmetry
CHECK_DEADLOCK FALSE
