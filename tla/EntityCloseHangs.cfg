SPECIFICATION FairEntitiesSpec
CONSTANTS
  c1 = c1
  c2 = c2
  t1 = t1
  Clients = {c1}
  Readers = {c1}
  Topics = {t1}
  Owner <- MCOwner
  Sends <- MCSends
  TopicOf <- MCTopicOf
  KindOf <- MCCover
  MaxQueue = 1
PROPERTIES
  ClosedEntityStops
