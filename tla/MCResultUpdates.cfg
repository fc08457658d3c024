SPECIFICATION Spec
CONSTANTS
  c1 = c1
  c2 = c2
  u1 = u1
  u2 = u2
  NoCase = NoCase
  Cases <- MCCases
  Users <- MCUsers
  Editions <- MCEditions
  MaxUpdates = 3
INVARIANTS
  CompletionMissedOnlyIfStale
  CompletedRunIsDone
  NotificationsHold
PROPERTIES
  FailureEventuallySettled
CHECK_DEADLOCK FALSE
