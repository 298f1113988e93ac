SPECIFICATION Spec
CONSTANTS
  a = a
  r1 = r1
  w = w
  Procs = {r1, a}
  Calls <- MCCallsClose
  MaxAttempts = 2
  MaxDelay = 2
  ImplErrors <- MCErrors
INVARIANTS
  ClosedStaysClosed
