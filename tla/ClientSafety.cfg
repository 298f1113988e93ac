SPECIFICATION Spec
CONSTANTS
  a = a
  r1 = r1
  w = w
  Procs = {r1, a, w}
  Calls <- MCCalls
  MaxAttempts = 3
  MaxDelay = 3
  ImplErrors <- MCErrors
INVARIANTS
  TypeOK
  WaiterHasWaker
  RecvNeverReportsSuccess
  FullRetryBudget
PROPERTIES
  ImplementsReceiveClient
  ResetMeansConnected
