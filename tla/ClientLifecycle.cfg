SPECIFICATION FairSpec
CONSTANTS
  a = a
  r1 = r1
  w = w
  Procs = {r1, a, w}
  Calls <- MCCallsLifecycle
  MaxAttempts = 2
  MaxDelay = 1
  ImplErrors <- MCErrors
INVARIANTS
  BrokenLinkIsNoticed
PROPERTIES
  CallsReturn
  OutageHandled
