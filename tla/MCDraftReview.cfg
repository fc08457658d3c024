SPECIFICATION ReviewSpec
CONSTANTS
  anna = anna
  ben = ben
  Reviewers <- MCReviewers
  Databases <- MCDatabases
  MaxBirths = 2
SYMMETRY MCSymmetry
INVARIANTS
  VerdictsTakeEffect
  EveryDraftReviewable
PROPERTIES
  VerdictStands
CHECK_DEADLOCK FALSE
