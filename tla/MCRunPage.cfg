SPECIFICATION PageSpec
CONSTANTS
  c1 = c1
  c2 = c2
  Absent = Absent
  Rows <- MCRows
  Updates = {1, 2}
INVARIANTS
  PageAgrees
PROPERTIES
  EventuallySettled
CHECK_DEADLOCK FALSE
