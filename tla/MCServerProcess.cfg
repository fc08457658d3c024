SPECIFICATION Spec
CONSTANTS
  c1 = c1
  c2 = c2
  c3 = c3
  c4 = c4
  Clients <- MCClients
  Mixes <- MCMixes
  Threads = 2
  Connections = 2
  MaxRows = 1
  Readers <- MCReaders
  Lifetime = 3
  Patience = 1
  MaxTime = 8
  Sockets <- MCSockets
  Subscribers <- MCSubscribers
  Updates <- MCUpdates
  Gatherings <- MCGatherings
INVARIANTS
  StuckIsNamed
  LogIsNewest
  AnswersAreRecent
  StayersHear
  SubscribersHearAll
PROPERTIES
  EveryoneServed
CHECK_DEADLOCK FALSE
