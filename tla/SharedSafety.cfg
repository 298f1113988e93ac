SPECIFICATION Spec
CONSTANTS
  c1 = c1
  c2 = c2
  r1 = r1
  r2 = r2
  t1 = t1
  Clients = {c1, c2}
  Readers = {r1, r2}
  Topics = {t1}
  Sends <- MCSends
  Owner <- MCOwner
  MaxQueue = 2
INVARIANTS
  NoLostWakeup
  NoEmptyWakeup
  SubscriptionsCovered
PROPERTIES
  ImplementsChannels
  SubscribersHear
