SPECIFICATION Spec
CONSTANTS
  Payloads = {"s1"}
PROPERTIES
  RunSurvivesReconnect
