SPECIFICATION FairSpec
CONSTANTS
  Payloads = {"s1"}
INVARIANTS
  TypeOK
  CommandsCovered
  
PROPERTIES
  OnlineAfterSubscribe
  StableLinkRestores
  UpdatesReturn
