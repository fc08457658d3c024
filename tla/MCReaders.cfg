SPECIFICATION ReadersSpec
CONSTANTS
  Cases <- MCCases
  Runs <- MCRuns
  MaxWrites = 2
  Kinds <- MCKinds
  HistoryLimit = 2
  MaxAttempts = 2
  Documents <- MCDocuments
  CountBoards <- MCCountBoards
  GraphBoards <- MCGraphBoards
INVARIANTS
  SummaryMatchesResults
  ReadsOwnWrites
PROPERTIES
  QuietAnswersAreRight
  UpdateIsWritten
  LastResultCompletes
CHECK_DEADLOCK FALSE
