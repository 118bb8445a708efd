SPECIFICATION Spec
CONSTANTS
  p1 = p1
  p2 = p2
  Callers = {p1, p2}
  MaxEntries = 2
  MaxStores = 3
  MaxTimers = 2
  MaxAttempts = 1
  Faults <- ChurnFaults
INVARIANTS ConnectingIsBacked
CHECK_DEADLOCK FALSE
