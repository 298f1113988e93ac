SPECIFICATION EntitiesSpec
CONSTANTS
  c1 = c1
  c2 = c2
  t1 = t1
  Clients = {c2}
  Readers = {c2}
  Topics = {t1}
  Owner <- MCOwner
  Sends <- MCSends
  TopicOf <- MCTopicOf
  KindOf <- MCSensor
  MaxQueue = 1
INVARIANTS
  DiscoveryCovered
