SPECIFICATION FairSpec
CONSTANTS
  p1 = p1
  p2 = p2
  Callers = {p1}
  MaxEntries = 2
  MaxStores = 3
  MaxTimers = 2
  MaxAttempts = 3
  Faults <- NetworkFaults
INVARIANTS TypeOK SingleReconnect ConnectedIsWatched NoLeak
PROPERTY DisconnectEnds
CHECK_DEADLOCK FALSE
