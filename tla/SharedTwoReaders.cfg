SPECIFICATION FairSpec
CONSTANTS
  c1 = c1
  c2 = c2
  r1 = r1
  r2 = r2
  t1 = t1
  Clients = {c1}
  Readers = {r1, r2}
  Topics = {t1}
  Sends <- MCSendsOne
  Owner <- MCOwnerSame
  MaxQueue = 3
INVARIANTS
  SharedTypeOK
  NoLostWakeup
PROPERTIES
  ImplementsChannels
  CloseReachesReaders
