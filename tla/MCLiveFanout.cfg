SPECIFICATION Spec
CONSTANTS
  ra = ra
  rb = rb
  s1 = s1
  s2 = s2
  Replicas <- MCReplicas
  Sockets <- MCSockets
  Home <- MCHome
  MaxMessages = 2
  MaxFaults = 1
INVARIANTS
  OnceInOrder
  DeliveredOrNamed
PROPERTIES
  EventuallyThrough
CHECK_DEADLOCK FALSE
