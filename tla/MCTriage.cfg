SPECIFICATION TriageSpec
CONSTANTS
  Cases <- MCCases
  Strangers <- MCStrangers
  Runs <- MCRuns
  Envs <- MCEnvs
  Starts <- MCStarts
  Uses <- MCUses
  MaxUses = 2
  MaxIterations = 2
INVARIANTS
  VerdictsAreFinal
PROPERTIES
  UnflaggedIsSupported
  EventuallyAnswered
CHECK_DEADLOCK FALSE
