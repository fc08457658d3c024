SPECIFICATION AlertsSpec
CONSTANTS
  k1 = k1
  k2 = k2
  w1 = w1
  w2 = w2
  Malformed = Malformed
  Nobody = Nobody
  Keys <- MCKeys
  Workers <- MCWorkers
  MAX_RETRIES = 3
  MaxLog = 2
  MaxFaults = 2
INVARIANTS
  CommittedAreSettled
  OneAlertPerKey
PROPERTIES
  EventuallySettled
CHECK_DEADLOCK FALSE
