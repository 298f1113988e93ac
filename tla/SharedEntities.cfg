SPECIFICATION FairEntitiesSpec
CONSTANTS
  c1 = c1
  c2 = c2
  t1 = t1
  Clients = {c1, c2}
  Readers = {c1, c2}
  Topics = {t1}
  Owner <- MCOwner
  Sends <- MCSends
  TopicOf <- MCTopicOf
  KindOf <- MCKinds
  MaxQueue = 1
INVARIANTS
  EntitiesTypeOK
  CommandsCovered
PROPERTIES
  OnlineAfterSubscribe
  StableLinkRestores
